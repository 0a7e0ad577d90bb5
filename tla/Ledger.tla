------------------------------- MODULE Ledger -------------------------------
(***************************************************************************)
(* The evidence ledger (src/src/ledger.rs): a directory holding the event  *)
(* log, the signed tree heads and one payload file per subject, and the    *)
(* processes that open it, keep a copy in memory, append, and exit.  An    *)
(* append is a series of file operations with no lock around them, so the  *)
(* model takes it one file operation at a time: a process can be killed    *)
(* between any two, and another process can run between any two.           *)
(*                                                                         *)
(* Hashes are taken to be collision free.  The leaf hash of an envelope    *)
(* commits to the event and to prev_hash, so it is the sequence of the     *)
(* events on the hash chain that ends in it; a root commits to the lines   *)
(* it covers, so a signed head is the sequence of those lines.             *)
(***************************************************************************)
EXTENDS Naturals, Sequences, FiniteSets

CONSTANTS
    Proc,           \* the processes that may have the ledger open
    Subject,        \* subject payloads, named by content
    NoSubject,      \* not a payload
    Names,          \* Names[s]: the payload an expiry subject s names, or NoSubject
    Expiries,       \* <<target, subject>> pairs a caller submits to expire
    Dest,           \* anchor destinations; an anchor event's subject is its destination
    CrashPoints,    \* the points of an append at which a process may be killed
    MaxEntries,     \* bound on the lines of the event log
    MaxCrashes      \* bound on the kills of a behaviour

Kinds == {"event", "retention.expire", "ledger.anchor"}
Steps == {"payload", "entry", "newline", "head", "headnl", "unlink"}

ASSUME ConstantsAssumption ==
    /\ Proc # {}
    /\ NoSubject \notin Subject
    /\ Names \in [Subject -> Subject \cup {NoSubject}]
    /\ Expiries \subseteq Subject \X Subject
    /\ Dest \subseteq Subject
    /\ \A d \in Dest : Names[d] = NoSubject
    /\ CrashPoints \subseteq Steps
    /\ MaxEntries \in Nat
    /\ MaxCrashes \in Nat

VARIABLES
    events,     \* events.jsonl
    heads,      \* heads.jsonl
    payload,    \* payloads/<hash>.json: "absent", "torn" or "whole"
    anchors,    \* the head copied to each destination, or NoHead
    mem,        \* mem[p]: the lines p has read or appended
    pc,         \* pc[p]: where p is
    job,        \* job[p]: the append p is performing
    crashes     \* kills so far

vars == <<events, heads, payload, anchors, mem, pc, job, crashes>>

-----------------------------------------------------------------------------
(* Lines, envelopes and heads *)

Event    == [by : Proc, kind : Kinds, subject : Subject]
Leaf     == Seq(Event)
Envelope == [prev : Leaf, ev : Event]
Line     == Seq(Envelope)    \* what stands between two newlines
TreeHead == Seq(Line)
NoHead   == <<>>             \* no head is signed over an empty log

\* A file of lines: the terminated ones, and the bytes after the last newline.
File(Item) == [done : Seq(Seq(Item)), tail : Seq(Item)]
EmptyFile  == [done |-> <<>>, tail |-> <<>>]

Write(file, item) == [file EXCEPT !.tail = Append(@, item)]
Newline(file)     == [done |-> Append(file.done, file.tail), tail |-> <<>>]

\* Rust's lines(): an unterminated last line counts, an absent one does not.
Lines(file) == IF file.tail = <<>> THEN file.done
               ELSE Append(file.done, file.tail)

\* Two values run together on a line, or none, are not one JSON value.
Parses(line) == Len(line) = 1

LeafHash(line) == IF Parses(line) THEN Append(line[1].prev, line[1].ev)
                  ELSE <<>>

\* Mutant: every entry is chained to the first.
LastLeafOfFirst(lines) == IF lines = <<>> THEN <<>> ELSE LeafHash(lines[1])

LastLeaf(lines) == IF lines = <<>> THEN <<>> ELSE LeafHash(lines[Len(lines)])

Entries == Lines(events)
Heads   == Lines(heads)

\* The events a sequence of lines carries, in the lines that parse.
EventsIn(lines) == {lines[i][1].ev : i \in {j \in DOMAIN lines : Parses(lines[j])}}

-----------------------------------------------------------------------------
NoJob == [kind |-> "event", subject |-> NoSubject, target |-> NoSubject]

Job == [kind : Kinds, subject : Subject \cup {NoSubject},
        target : Subject \cup {NoSubject}]

\* The state `trunnion ledger init` leaves: empty files, the process gone.
Init ==
    /\ events = EmptyFile
    /\ heads = EmptyFile
    /\ payload = [s \in Subject |-> "absent"]
    /\ anchors = [d \in Dest |-> NoHead]
    /\ mem = [p \in Proc |-> <<>>]
    /\ pc = [p \in Proc |-> "down"]
    /\ job = [p \in Proc |-> NoJob]
    /\ crashes = 0

Goto(p, label) == pc' = [pc EXCEPT ![p] = label]

\* Mutant: the last line is not read.
OpenDroppingLast(p) ==
    /\ pc[p] = "down"
    /\ \A i \in DOMAIN Entries : Parses(Entries[i])
    /\ mem' = [mem EXCEPT ![p] = SubSeq(Entries, 1, Len(Entries) - 1)]
    /\ Goto(p, "idle")
    /\ UNCHANGED <<events, heads, payload, anchors, job, crashes>>

\* Ledger::open: reads every line, refuses the log if one does not parse.
Open(p) ==
    /\ pc[p] = "down"
    /\ \A i \in DOMAIN Entries : Parses(Entries[i])
    /\ mem' = [mem EXCEPT ![p] = Entries]
    /\ Goto(p, "idle")
    /\ UNCHANGED <<events, heads, payload, anchors, job, crashes>>

\* A process exits between operations; nothing is held beyond its files.
Exit(p) ==
    /\ pc[p] = "idle"
    /\ mem' = [mem EXCEPT ![p] = <<>>]
    /\ Goto(p, "down")
    /\ UNCHANGED <<events, heads, payload, anchors, job, crashes>>

\* Mutant: an expiry deletes its target before it is on the record.
StartAppendDeleting(p, kind, subject, target) ==
    /\ Len(Entries) < MaxEntries
    /\ job' = [job EXCEPT ![p] = [kind |-> kind, subject |-> subject, target |-> target]]
    /\ payload' = [s \in Subject |-> IF s = subject THEN "torn"
                                     ELSE IF s = target THEN "absent" ELSE payload[s]]
    /\ Goto(p, "payload")
    /\ UNCHANGED <<events, heads, mem, crashes>>

\* fs::write of the payload opens and truncates the file, whatever it held.
StartAppend(p, kind, subject, target) ==
    /\ Len(Entries) < MaxEntries
    /\ job' = [job EXCEPT ![p] = [kind |-> kind, subject |-> subject, target |-> target]]
    /\ payload' = [payload EXCEPT ![subject] = "torn"]
    /\ Goto(p, "payload")
    /\ UNCHANGED <<events, heads, mem, crashes>>

AppendEvent(p, subject) ==
    /\ pc[p] = "idle"
    /\ subject \notin Dest
    /\ Names[subject] = NoSubject
    /\ StartAppend(p, "event", subject, NoSubject)
    /\ UNCHANGED anchors

\* Mutant: the expiry is recorded under a kind nothing knows.
ExpireMisnamed(p, target, subject) ==
    /\ pc[p] = "idle"
    /\ \E e \in EventsIn(mem[p]) : e.subject = target
    /\ StartAppend(p, "expire", subject, target)
    /\ UNCHANGED anchors

\* Ledger::expire: the target must be referenced by an envelope in memory.
Expire(p, target, subject) ==
    /\ pc[p] = "idle"
    /\ \E e \in EventsIn(mem[p]) : e.subject = target
    /\ StartAppend(p, "retention.expire", subject, target)
    /\ UNCHANGED anchors

\* Ledger::anchor: copies the latest head, then records that it did.
Anchor(p, dest) ==
    /\ pc[p] = "idle"
    /\ anchors[dest] = NoHead
    /\ Heads # <<>>
    /\ Parses(Heads[Len(Heads)])
    /\ anchors' = [anchors EXCEPT ![dest] = Heads[Len(Heads)][1]]
    /\ StartAppend(p, "ledger.anchor", dest, NoSubject)

WritePayload(p) ==
    /\ pc[p] = "payload"
    /\ payload' = [payload EXCEPT ![job[p].subject] = "whole"]
    /\ Goto(p, "entry")
    /\ UNCHANGED <<events, heads, anchors, mem, job, crashes>>

\* The envelope p is appending: chained to the last line p has in memory.
NewEnvelope(p) ==
    [prev |-> LastLeaf(mem[p]),
     ev   |-> [by |-> p, kind |-> job[p].kind, subject |-> job[p].subject]]

WriteEntry(p) ==
    /\ pc[p] = "entry"
    /\ events' = Write(events, NewEnvelope(p))
    /\ Goto(p, "newline")
    /\ UNCHANGED <<heads, payload, anchors, mem, job, crashes>>

\* The newline, and with it the leaf the process now believes it appended.
WriteNewline(p) ==
    /\ pc[p] = "newline"
    /\ events' = Newline(events)
    /\ mem' = [mem EXCEPT ![p] = Append(@, <<NewEnvelope(p)>>)]
    /\ Goto(p, "head")
    /\ UNCHANGED <<heads, payload, anchors, job, crashes>>

\* Mutant: the head is signed over the log before this append.
WriteHeadBehind(p) ==
    /\ pc[p] = "head"
    /\ heads' = Write(heads, SubSeq(mem[p], 1, Len(mem[p]) - 1))
    /\ Goto(p, "headnl")
    /\ UNCHANGED <<events, payload, anchors, mem, job, crashes>>

\* The head signs the leaves in memory, not the lines on disk.
WriteHead(p) ==
    /\ pc[p] = "head"
    /\ heads' = Write(heads, mem[p])
    /\ Goto(p, "headnl")
    /\ UNCHANGED <<events, payload, anchors, mem, job, crashes>>

WriteHeadNewline(p) ==
    /\ pc[p] = "headnl"
    /\ heads' = Newline(heads)
    /\ IF job[p].target = NoSubject
         THEN Goto(p, "idle") /\ job' = [job EXCEPT ![p] = NoJob]
         ELSE Goto(p, "unlink") /\ UNCHANGED job
    /\ UNCHANGED <<events, payload, anchors, mem, crashes>>

\* The rest of Ledger::expire, once its event is on the record.
Unlink(p) ==
    /\ pc[p] = "unlink"
    /\ payload' = [payload EXCEPT ![job[p].target] = "absent"]
    /\ job' = [job EXCEPT ![p] = NoJob]
    /\ Goto(p, "idle")
    /\ UNCHANGED <<events, heads, anchors, mem, crashes>>

\* The process is killed, or an I/O error is returned: every caller of
\* append propagates it and exits.
Crash(p) ==
    /\ pc[p] \in CrashPoints
    /\ crashes < MaxCrashes
    /\ crashes' = crashes + 1
    /\ mem' = [mem EXCEPT ![p] = <<>>]
    /\ job' = [job EXCEPT ![p] = NoJob]
    /\ Goto(p, "down")
    /\ UNCHANGED <<events, heads, payload, anchors>>

Next ==
    \E p \in Proc :
        \/ Open(p)
        \/ Exit(p)
        \/ \E s \in Subject : AppendEvent(p, s)
        \/ \E x \in Expiries : Expire(p, x[1], x[2])
        \/ \E d \in Dest : Anchor(p, d)
        \/ WritePayload(p)
        \/ WriteEntry(p)
        \/ WriteNewline(p)
        \/ WriteHead(p)
        \/ WriteHeadNewline(p)
        \/ Unlink(p)
        \/ Crash(p)

Spec == Init /\ [][Next]_vars

=============================================================================
