------------------------------ MODULE EventLog ------------------------------
(***************************************************************************)
(* The ledger as the runs above it use it: one shared log, and for each    *)
(* process the events it read when it opened the ledger followed by those  *)
(* it appended (src/src/ledger.rs, events_with_subjects), tagged with its  *)
(* run id and sequence number (src/src/runlog.rs, RunCore).  Module Ledger *)
(* takes an append apart; here it is one step.                             *)
(***************************************************************************)
EXTENDS Naturals, Sequences, FiniteSets

CONSTANTS
    Process,            \* the processes that open the ledger
    OneAtATime,         \* whether they are run one after another
    Mortal,             \* the processes that may be killed, or fail, at any point
    Recorded,           \* the log earlier runs left
    Expirable,          \* the kinds of event whose payload may expire
    Null,               \* what a reader finds in place of an expired payload
    MaxRuns,            \* bound on the clock, so on the runs of a behaviour
    MaxEvents           \* bound on the log when an operation starts

ASSUME EventLogAssumption ==
    /\ OneAtATime \in BOOLEAN
    /\ Mortal \subseteq Process
    /\ MaxRuns \in Nat
    /\ MaxEvents \in Nat

VARIABLES
    log,    \* the events of the ledger, in append order
    view,   \* view[p]: the events p has in memory
    run,    \* run[p]: the id of p's run, the millisecond it opened in
    seq,    \* seq[p]: the events p's run has appended
    clock,  \* the millisecond of the last run opened
    gone    \* the payloads that were expired and not written again since

logVars == <<log, view, run, seq, clock, gone>>

NoRun == 0

LogInit ==
    /\ log = Recorded
    /\ view = [p \in Process |-> <<>>]
    /\ run = [p \in Process |-> NoRun]
    /\ seq = [p \in Process |-> 0]
    /\ clock \in 0..MaxRuns
    /\ clock = NoRun \/ \E i \in DOMAIN Recorded : clock = Recorded[i].run
    /\ \A i \in DOMAIN Recorded : Recorded[i].run <= clock
    /\ gone = {}

IsOpen(p) == run[p] # NoRun

\* Whether there is room to start another operation.
Room == Len(log) < MaxEvents

\* The event RunCore::append builds.
Stamped(id, n, kind, body) == [kind |-> kind, run |-> id, seq |-> n, body |-> body]

\* events_with_subjects: an event whose payload is gone keeps its envelope, and
\* each field of its subject reads as null.
Readable(events) ==
    [i \in DOMAIN events |->
        IF events[i].body \in gone
        THEN [events[i] EXCEPT !.body = [field \in DOMAIN @ |-> Null]]
        ELSE events[i]]

\* Ledger::open and RunCore::open: read the log, take an id from the clock,
\* and append what the run starts with: its run.open, or nothing.  Runs are
\* taken to open in different milliseconds: two that do not share their id.
OpenRun(p, kinds, body) ==
    /\ ~IsOpen(p)
    /\ OneAtATime => \A q \in Process : ~IsOpen(q)
    /\ clock < MaxRuns
    /\ Room
    /\ clock' = clock + 1
    /\ run' = [run EXCEPT ![p] = clock']
    /\ LET first == [i \in DOMAIN kinds |-> Stamped(clock', i - 1, kinds[i], body)]
       IN  /\ log' = log \o first
           /\ view' = [view EXCEPT ![p] = Readable(log) \o first]
    /\ seq' = [seq EXCEPT ![p] = Len(kinds)]
    /\ UNCHANGED gone

\* Mutant: the copy in memory is numbered after the counter moved.
EmitRenumbered(p, kind, body) ==
    /\ log' = Append(log, Stamped(run[p], seq[p], kind, body))
    /\ view' = [view EXCEPT ![p] = Append(@, Stamped(run[p], seq[p] + 1, kind, body))]
    /\ seq' = [seq EXCEPT ![p] = @ + 1]
    /\ UNCHANGED <<run, clock, gone>>

\* RunCore::append: the log and the process's memory each gain the event.  A
\* payload is stored under its hash, so one that was expired is back if it is
\* appended again.
Emit(p, kind, body) ==
    LET event == Stamped(run[p], seq[p], kind, body)
    IN  /\ log' = Append(log, event)
        /\ view' = [view EXCEPT ![p] = Append(@, event)]
        /\ seq' = [seq EXCEPT ![p] = @ + 1]
        /\ gone' = gone \ {body}
        /\ UNCHANGED <<run, clock>>

\* The process is gone, and with it its memory.
Leave(p) ==
    /\ view' = [view EXCEPT ![p] = <<>>]
    /\ run' = [run EXCEPT ![p] = NoRun]
    /\ seq' = [seq EXCEPT ![p] = 0]
    /\ UNCHANGED clock

\* The last event of a run: the process appends it and ends.
Depart(p, kind, body) ==
    /\ log' = Append(log, Stamped(run[p], seq[p], kind, body))
    /\ gone' = gone \ {body}
    /\ Leave(p)

\* RunCore::seal.
SealRun(p, outcome, reviews) ==
    Depart(p, "run.seal", [outcome |-> outcome, reviews |-> reviews])

\* append_system_event: an event of no run, numbered 0.
Record(kind, body) ==
    /\ log' = Append(log, Stamped(NoRun, 0, kind, body))
    /\ gone' = gone \ {body}
    /\ UNCHANGED <<view, run, seq, clock>>

\* A step failed and the process exits, its run left unsealed.
Exit(p) ==
    /\ IsOpen(p)
    /\ Leave(p)
    /\ UNCHANGED <<log, gone>>

\* Killed between two appends, or a step failed and the process exits.
Die(p) == p \in Mortal /\ Exit(p)

OfKind(events, kind) == {i \in DOMAIN events : events[i].kind = kind}

\* `trunnion ledger expire` while no run is open: the expiry goes on the log,
\* then the payload is deleted, for every event that has the same.
Expire(i) ==
    /\ log[i].kind \in Expirable
    /\ log[i].body \notin gone
    /\ \A p \in Process : ~IsOpen(p)
    /\ Room
    /\ log' = Append(log, Stamped(NoRun, 0, "retention.expire", [event |-> i]))
    /\ gone' = gone \cup {log[i].body}
    /\ UNCHANGED <<view, run, seq, clock>>

=============================================================================
