---------------------------- MODULE HarnessProofs ----------------------------
(***************************************************************************)
(* Proofs about the processes that act on one ledger, for any calls,       *)
(* policy, budget and number of processes: what they read is the log, and  *)
(* what ran was cleared on it.                                             *)
(***************************************************************************)
EXTENDS Harness, FiniteSetTheorems, WellFoundedInduction, TLAPS

-----------------------------------------------------------------------------
(* Sequences *)

\* A sequence with one more element keeps those it had.
LEMMA AppendSeq ==
    ASSUME NEW s, IsSeq(s), NEW e
    PROVE  /\ IsSeq(Append(s, e))
           /\ Len(s) \in Nat
           /\ Len(Append(s, e)) = Len(s) + 1
           /\ DOMAIN s = 1..Len(s)
           /\ DOMAIN Append(s, e) = 1..(Len(s) + 1)
           /\ \A i \in DOMAIN s : i \in DOMAIN Append(s, e) /\ Append(s, e)[i] = s[i]
           /\ Append(s, e)[Len(s) + 1] = e
<1>0. PICK t : t = Append(s, e)
  OBVIOUS
<1> DEFINE S == {s[i] : i \in DOMAIN s}
           T == S \cup {e}
<1>1. s \in Seq(S)
  BY DEF IsSeq
<1>2. s \in Seq(T) /\ e \in T
  BY <1>1
<1> HIDE DEF S, T
<1>3. /\ t \in Seq(T)
      /\ Len(s) \in Nat
      /\ Len(t) = Len(s) + 1
      /\ DOMAIN s = 1..Len(s)
      /\ DOMAIN t = 1..(Len(s) + 1)
      /\ \A i \in 1..Len(s) : t[i] = s[i]
      /\ t[Len(s) + 1] = e
  BY <1>0, <1>2
<1>4. t \in Seq({t[i] : i \in DOMAIN t})
  BY <1>3
<1>5. IsSeq(t)
  BY <1>4 DEF IsSeq
<1>6. QED
  BY <1>0, <1>3, <1>5

\* The empty sequence, and one extended by what a run starts with.
LEMMA NoEventsSeq ==
    ASSUME NEW s, s = <<>>
    PROVE  DOMAIN s = {} /\ IsSeq(s)
<1>1. DOMAIN s = {}
  OBVIOUS
<1>2. s \in Seq({s[i] : i \in DOMAIN s})
  BY <1>1
<1>3. QED
  BY <1>1, <1>2 DEF IsSeq

LEMMA SeqDomain ==
    ASSUME NEW s, IsSeq(s)
    PROVE  Len(s) \in Nat /\ DOMAIN s = 1..Len(s)
BY DEF IsSeq

LEMMA FirstEvents ==
    ASSUME NEW s, IsSeq(s), NEW id, NEW body, NEW kinds
    PROVE  LET t == s \o [i \in DOMAIN kinds |-> Stamped(id, i - 1, kinds[i], body)]
           IN  /\ kinds = <<>> => t = s /\ Len(kinds) = 0
               /\ kinds = <<"run.open">> => /\ t = Append(s, Stamped(id, 0, "run.open", body))
                                           /\ Len(kinds) = 1
<1> DEFINE S == {s[i] : i \in DOMAIN s} \cup {Stamped(id, 0, "run.open", body)}
           first == [i \in DOMAIN kinds |-> Stamped(id, i - 1, kinds[i], body)]
<1>1. s \in Seq(S) /\ Stamped(id, 0, "run.open", body) \in S
  BY DEF IsSeq
<1> HIDE DEF S
<1>2. CASE kinds = <<>>
  <2>1. first = <<>> /\ Len(kinds) = 0
    BY <1>2
  <2> HIDE DEF first
  <2>2. s \o <<>> = s
    BY <1>1
  <2>3. QED
    BY <1>2, <2>1, <2>2 DEF first
<1>3. CASE kinds = <<"run.open">>
  <2>1. first = <<Stamped(id, 0, "run.open", body)>> /\ Len(kinds) = 1
    BY <1>3 DEF Stamped
  <2> HIDE DEF first
  <2>2. s \o <<Stamped(id, 0, "run.open", body)>> = Append(s, Stamped(id, 0, "run.open", body))
    BY <1>1
  <2>3. QED
    BY <1>3, <2>1, <2>2 DEF first
<1>4. QED
  BY <1>2, <1>3, Zenon

-----------------------------------------------------------------------------
(* What is true of the log and of what the processes have read of it *)

\* An event as a reader finds it: with its payload, or with nulls.
Reads(read, e) ==
    /\ read = [e EXCEPT !.body = read.body]
    /\ read.body \in {e.body, [field \in DOMAIN e.body |-> Null]}

\* A log of events of runs up to a clock.
EventsUpTo(s, c) == IsSeq(s) /\ \A i \in DOMAIN s : IsEvent(s[i]) /\ s[i].run <= c

\* Payloads of its events that may expire.
ExpiredOf(g, s) == \A b \in g : \E j \in DOMAIN s : s[j].kind \in Expirable /\ s[j].body = b

\* A memory of it, and one that has all of a run.
ReadFrom(v, s) == IsSeq(v) /\ \A i \in DOMAIN v : \E j \in DOMAIN s : Reads(v[i], s[j])

HasRun(v, s, id) == \A j \in DOMAIN s : s[j].run = id => \E i \in DOMAIN v : v[i] = s[j]

\* Every run has an id of its own.
RunsOK ==
    /\ clock \in 0..MaxRuns
    /\ run \in [Process -> 0..MaxRuns]
    /\ seq \in [Process -> Nat]
    /\ \A p \in Process : run[p] <= clock
    /\ \A p, q \in Process : p # q /\ run[p] = run[q] => run[p] = NoRun

LogOK == EventsUpTo(log, clock) /\ ExpiredOf(gone, log)

\* What a process has in memory is the log, and all its run has written.
ViewsOK ==
    /\ view = [p \in Process |-> view[p]]
    /\ \A p \in Process : ReadFrom(view[p], log) /\ (IsOpen(p) => HasRun(view[p], log, run[p]))

Logged == LogOK /\ RunsOK /\ ViewsOK

\* Appending an event of the process that appends it.
Writes(p, kind, body) ==
    /\ p \in Process
    /\ IsOpen(p)
    /\ kind \in EventKinds
    /\ DOMAIN body = Fields(kind)
    /\ kind = "approval" => body.grant \in IdType

\* The fields of an event that is stamped, and of one that is read.
LEMMA StampedFields ==
    ASSUME NEW id, NEW n, NEW kind, NEW body
    PROVE  LET e == Stamped(id, n, kind, body)
           IN  e.run = id /\ e.seq = n /\ e.kind = kind /\ e.body = body
BY DEF Stamped

LEMMA StampedIsEvent ==
    ASSUME NEW id \in 0..MaxRuns, NEW n \in Nat, NEW kind \in EventKinds, NEW body,
           DOMAIN body = Fields(kind), kind = "approval" => body.grant \in IdType
    PROVE  IsEvent(Stamped(id, n, kind, body))
BY DEF Stamped, IsEvent

LEMMA ReadsItself ==
    ASSUME NEW e, IsEvent(e)
    PROVE  Reads(e, e)
<1>1. e = [e EXCEPT !.body = e.body]
  BY DEF IsEvent
<1>2. QED
  BY <1>1 DEF Reads

\* What reading the log gives.
LEMMA ReadingTheLog ==
    ASSUME LogOK
    PROVE  /\ IsSeq(Readable(log))
           /\ DOMAIN Readable(log) = DOMAIN log
           /\ \A i \in DOMAIN log :
                 /\ Reads(Readable(log)[i], log[i])
                 /\ log[i].body \notin gone => Readable(log)[i] = log[i]
<1> DEFINE r == Readable(log)
<1>1. Len(log) \in Nat /\ DOMAIN log = 1..Len(log)
  BY SeqDomain DEF LogOK, EventsUpTo
<1>2. DOMAIN r = 1..Len(log)
  BY <1>1 DEF Readable
<1>3. r = [i \in 1..Len(log) |-> r[i]]
  BY <1>1 DEF Readable
<1> HIDE DEF r
<1>4. r \in [1..Len(log) -> {r[i] : i \in DOMAIN r}]
  BY <1>2, <1>3
<1>5. IsSeq(r)
  BY <1>1, <1>4 DEF IsSeq
<1>6. ASSUME NEW i \in DOMAIN log
      PROVE  Reads(r[i], log[i]) /\ (log[i].body \notin gone => r[i] = log[i])
  <2> DEFINE nulls == [field \in DOMAIN log[i].body |-> Null]
  <2>1. IsEvent(log[i])
    BY <1>6 DEF LogOK, EventsUpTo
  <2>2. CASE log[i].body \notin gone
    <3>1. r[i] = log[i]
      BY <2>2 DEF r, Readable
    <3>2. QED
      BY <3>1, <2>1, ReadsItself
  <2>3. CASE log[i].body \in gone
    <3>1. r[i] = [log[i] EXCEPT !.body = nulls]
      BY <2>3 DEF r, Readable
    <3>2. r[i].body = nulls /\ r[i] = [log[i] EXCEPT !.body = r[i].body]
      BY <3>1, <2>1 DEF IsEvent
    <3>3. QED
      BY <3>2, <2>3 DEF Reads
  <2>4. QED
    BY <2>2, <2>3
<1>7. QED
  BY <1>1, <1>2, <1>5, <1>6 DEF r

\* The log a run finds when it opens, and what its process then has in memory.
LEMMA OpenRunLogs ==
    ASSUME LogOK, NEW p, NEW kinds \in {<<>>, <<"run.open">>}, NEW body, OpenRun(p, kinds, body)
    PROVE  /\ ~IsOpen(p)
           /\ clock < MaxRuns
           /\ clock' = clock + 1
           /\ run' = [run EXCEPT ![p] = clock + 1]
           /\ gone' = gone
           /\ \/ /\ kinds = <<>>
                 /\ log' = log
                 /\ view' = [view EXCEPT ![p] = Readable(log)]
                 /\ seq' = [seq EXCEPT ![p] = 0]
              \/ /\ kinds = <<"run.open">>
                 /\ log' = Append(log, Stamped(clock + 1, 0, "run.open", body))
                 /\ view' = [view EXCEPT ![p] =
                       Append(Readable(log), Stamped(clock + 1, 0, "run.open", body))]
                 /\ seq' = [seq EXCEPT ![p] = 1]
<1>1. /\ ~IsOpen(p)
      /\ clock < MaxRuns
      /\ clock' = clock + 1
      /\ run' = [run EXCEPT ![p] = clock + 1]
      /\ gone' = gone
  BY DEF OpenRun
<1> DEFINE first(k) == [i \in DOMAIN k |-> Stamped(clock + 1, i - 1, k[i], body)]
<1>2. /\ log' = log \o first(kinds)
      /\ view' = [view EXCEPT ![p] = Readable(log) \o first(kinds)]
      /\ seq' = [seq EXCEPT ![p] = Len(kinds)]
  BY <1>1, Zenon DEF OpenRun
<1>3. IsSeq(log) /\ IsSeq(Readable(log))
  BY ReadingTheLog DEF LogOK, EventsUpTo
<1>4. CASE kinds = <<>>
  <2>1. log \o first(kinds) = log /\ Readable(log) \o first(kinds) = Readable(log) /\ Len(kinds) = 0
    BY <1>3, <1>4, FirstEvents
  <2>2. QED
    BY <1>1, <1>2, <1>4, <2>1, Zenon
<1>5. CASE kinds = <<"run.open">>
  <2>1. /\ log \o first(kinds) = Append(log, Stamped(clock + 1, 0, "run.open", body))
        /\ Readable(log) \o first(kinds) = Append(Readable(log), Stamped(clock + 1, 0, "run.open", body))
        /\ Len(kinds) = 1
    BY <1>3, <1>5, FirstEvents
  <2>2. QED
    BY <1>1, <1>2, <1>5, <2>1, Zenon
<1>6. QED
  BY <1>4, <1>5

\* An appended event keeps a log a log of events, and what was read of it.
LEMMA AppendEvents ==
    ASSUME NEW s, NEW c \in Nat, EventsUpTo(s, c),
           NEW d \in Nat, c <= d, NEW e, IsEvent(e), e.run <= d
    PROVE  EventsUpTo(Append(s, e), d)
<1>0. PICK t : t = Append(s, e)
  OBVIOUS
<1>1. IsSeq(s)
  BY DEF EventsUpTo
<1>2. /\ IsSeq(t)
      /\ Len(s) \in Nat
      /\ DOMAIN s = 1..Len(s)
      /\ DOMAIN t = 1..(Len(s) + 1)
      /\ \A i \in DOMAIN s : t[i] = s[i]
      /\ t[Len(s) + 1] = e
  BY <1>0, <1>1, AppendSeq
<1>3. ASSUME NEW i \in DOMAIN t
      PROVE  IsEvent(t[i]) /\ t[i].run <= d
  <2>1. CASE i \in DOMAIN s
    <3>1. t[i] = s[i] /\ IsEvent(s[i]) /\ s[i].run <= c /\ s[i].run \in Nat
      BY <2>1, <1>2, EventLogAssumption DEF EventsUpTo, IsEvent
    <3>2. QED
      BY <3>1
  <2>2. CASE i = Len(s) + 1
    BY <2>2, <1>2
  <2>3. QED
    BY <2>1, <2>2, <1>2
<1>4. QED
  BY <1>0, <1>2, <1>3 DEF EventsUpTo

LEMMA AppendExpired ==
    ASSUME NEW s, IsSeq(s), NEW g, ExpiredOf(g, s), NEW e, NEW t, t = Append(s, e),
           NEW h, h \subseteq g
    PROVE  ExpiredOf(h, t)
<1>1. \A i \in DOMAIN s : i \in DOMAIN t /\ t[i] = s[i]
  BY AppendSeq
<1>2. QED
  BY <1>1 DEF ExpiredOf

LEMMA AppendReadFrom ==
    ASSUME NEW s, IsSeq(s), NEW v, ReadFrom(v, s), NEW e, NEW t, t = Append(s, e)
    PROVE  ReadFrom(v, t)
<1>1. \A i \in DOMAIN s : i \in DOMAIN t /\ t[i] = s[i]
  BY AppendSeq
<1>2. QED
  BY <1>1 DEF ReadFrom

LEMMA AppendReadBoth ==
    ASSUME NEW s, IsSeq(s), NEW v, ReadFrom(v, s), NEW e, IsEvent(e),
           NEW t, t = Append(s, e), NEW w, w = Append(v, e)
    PROVE  ReadFrom(w, t)
<1>1. /\ Len(s) \in Nat
      /\ DOMAIN t = 1..(Len(s) + 1)
      /\ \A i \in DOMAIN s : i \in DOMAIN t /\ t[i] = s[i]
      /\ t[Len(s) + 1] = e
  BY AppendSeq
<1>2. IsSeq(v)
  BY DEF ReadFrom
<1>3. /\ IsSeq(w)
      /\ Len(v) \in Nat
      /\ DOMAIN v = 1..Len(v)
      /\ DOMAIN w = 1..(Len(v) + 1)
      /\ \A i \in DOMAIN v : w[i] = v[i]
      /\ w[Len(v) + 1] = e
  BY <1>2, AppendSeq
<1>4. ASSUME NEW i \in DOMAIN w
      PROVE  \E j \in DOMAIN t : Reads(w[i], t[j])
  <2>1. CASE i \in DOMAIN v
    BY <2>1, <1>1, <1>3 DEF ReadFrom
  <2>2. CASE i = Len(v) + 1
    <3>1. Len(s) + 1 \in DOMAIN t
      BY <1>1
    <3>2. Reads(e, e)
      BY ReadsItself
    <3>3. QED
      BY <2>2, <3>1, <3>2, <1>1, <1>3
  <2>3. QED
    BY <2>1, <2>2, <1>3
<1>5. QED
  BY <1>3, <1>4 DEF ReadFrom

\* A run's memory has all of the run, whoever appends.
LEMMA AppendOther ==
    ASSUME NEW s, IsSeq(s), NEW v, NEW id, HasRun(v, s, id), NEW e, e.run # id,
           NEW t, t = Append(s, e)
    PROVE  HasRun(v, t, id)
<1>1. /\ Len(s) \in Nat
      /\ DOMAIN s = 1..Len(s)
      /\ DOMAIN t = 1..(Len(s) + 1)
      /\ \A i \in DOMAIN s : t[i] = s[i]
      /\ t[Len(s) + 1] = e
  BY AppendSeq
<1>2. \A i \in DOMAIN t : i \in DOMAIN s \/ i = Len(s) + 1
  BY <1>1
<1>3. QED
  BY <1>1, <1>2 DEF HasRun

LEMMA AppendOwn ==
    ASSUME NEW s, IsSeq(s), NEW v, IsSeq(v), NEW id, HasRun(v, s, id), NEW e,
           NEW t, t = Append(s, e), NEW w, w = Append(v, e)
    PROVE  HasRun(w, t, id)
<1>1. /\ Len(s) \in Nat
      /\ DOMAIN s = 1..Len(s)
      /\ DOMAIN t = 1..(Len(s) + 1)
      /\ \A i \in DOMAIN s : t[i] = s[i]
      /\ t[Len(s) + 1] = e
  BY AppendSeq
<1>2. \A i \in DOMAIN t : i \in DOMAIN s \/ i = Len(s) + 1
  BY <1>1
<1>3. /\ Len(v) \in Nat
      /\ DOMAIN w = 1..(Len(v) + 1)
      /\ \A i \in DOMAIN v : i \in DOMAIN w /\ w[i] = v[i]
      /\ w[Len(v) + 1] = e
  BY AppendSeq
<1>4. Len(v) + 1 \in DOMAIN w
  BY <1>3
<1>5. QED
  BY <1>1, <1>2, <1>3, <1>4 DEF HasRun

\* Each of the ways a process acts on the log keeps all this true: it appends.
LEMMA EmitKeepsLogged ==
    ASSUME Logged, NEW p, NEW kind, NEW body, Writes(p, kind, body), Emit(p, kind, body)
    PROVE  Logged'
<1> DEFINE e == Stamped(run[p], seq[p], kind, body)
<1>1. /\ log' = Append(log, e)
      /\ view' = [view EXCEPT ![p] = Append(view[p], e)]
      /\ seq' = [seq EXCEPT ![p] = seq[p] + 1]
      /\ gone' = gone \ {body}
      /\ run' = run
      /\ clock' = clock
  BY DEF Emit
<1>2. p \in Process /\ run[p] \in 0..MaxRuns /\ seq[p] \in Nat /\ clock \in Nat /\ run[p] <= clock
  BY EventLogAssumption DEF Writes, Logged, RunsOK
<1>3. IsEvent(e) /\ e.run = run[p]
  BY <1>2, StampedIsEvent, StampedFields DEF Writes
<1> HIDE DEF e
<1>4. IsSeq(log) /\ EventsUpTo(log, clock) /\ ExpiredOf(gone, log)
  BY DEF Logged, LogOK, EventsUpTo
<1>5. LogOK'
  <2>1. EventsUpTo(Append(log, e), clock)
    <3>1. clock <= clock /\ e.run <= clock
      BY <1>2, <1>3
    <3>2. QED
      BY <3>1, <1>2, <1>3, <1>4, AppendEvents
  <2>2. ExpiredOf(gone \ {body}, Append(log, e))
    BY <1>4, AppendExpired
  <2>3. QED
    BY <2>1, <2>2, <1>1 DEF LogOK
<1>6. RunsOK'
  <2>1. seq' \in [Process -> Nat]
    BY <1>1, <1>2 DEF Logged, RunsOK
  <2>2. QED
    BY <1>1, <2>1 DEF Logged, RunsOK
<1>7. ViewsOK'
  <2>1. view' = [q \in Process |-> view'[q]]
    BY <1>1 DEF Logged, ViewsOK
  <2>2. ASSUME NEW q \in Process
        PROVE  ReadFrom(view'[q], log') /\ (IsOpen(q)' => HasRun(view'[q], log', run'[q]))
    <3>0. ReadFrom(view[q], log) /\ (IsOpen(q) => HasRun(view[q], log, run[q])) /\ IsSeq(view[q])
      BY DEF Logged, ViewsOK, ReadFrom
    <3>1. CASE q = p
      <4>1. view'[q] = Append(view[q], e)
        BY <1>1, <1>2, <3>1 DEF Logged, ViewsOK
      <4>2. ReadFrom(Append(view[q], e), Append(log, e))
        BY <3>0, <1>3, <1>4, AppendReadBoth
      <4>3. HasRun(view[q], log, run[q])
        BY <3>0, <3>1 DEF Writes
      <4>4. HasRun(Append(view[q], e), Append(log, e), run[q])
        BY <3>0, <4>3, <1>4, AppendOwn
      <4>5. QED
        BY <4>1, <4>2, <4>4, <1>1
    <3>2. CASE q # p
      <4>1. view'[q] = view[q]
        BY <1>1, <3>2 DEF Logged, ViewsOK
      <4>2. ReadFrom(view[q], Append(log, e))
        BY <3>0, <1>4, AppendReadFrom
      <4>3. ASSUME IsOpen(q)
            PROVE  HasRun(view[q], Append(log, e), run[q])
        <5>1. e.run # run[q]
          BY <1>2, <1>3, <3>2, <4>3 DEF IsOpen, Writes, Logged, RunsOK
        <5>2. QED
          BY <5>1, <3>0, <4>3, <1>4, AppendOther
      <4>4. QED
        BY <4>1, <4>2, <4>3, <1>1 DEF IsOpen
    <3>3. QED
      BY <3>1, <3>2
  <2>3. QED
    BY <2>1, <2>2 DEF ViewsOK
<1>8. QED
  BY <1>5, <1>6, <1>7 DEF Logged

\* It leaves.
LEMMA LeaveKeepsViews ==
    ASSUME Logged, NEW p \in Process, Leave(p), RunsOK', NEW s,
           \A q \in Process : q # p => ReadFrom(view[q], s) /\ (IsOpen(q) => HasRun(view[q], s, run[q])),
           log' = s
    PROVE  ViewsOK'
<1>1. view' = [view EXCEPT ![p] = <<>>] /\ run' = [run EXCEPT ![p] = NoRun]
  BY DEF Leave
<1>2. view' = [q \in Process |-> view'[q]]
  BY <1>1 DEF Logged, ViewsOK
<1>3. ASSUME NEW q \in Process
      PROVE  ReadFrom(view'[q], log') /\ (IsOpen(q)' => HasRun(view'[q], log', run'[q]))
  <2>1. CASE q = p
    <3>1. view'[q] = <<>> /\ run'[q] = NoRun
      BY <1>1, <2>1 DEF Logged, ViewsOK, RunsOK
    <3>2. PICK v : v = <<>>
      OBVIOUS
    <3>3. ReadFrom(v, log')
      BY <3>2, NoEventsSeq DEF ReadFrom
    <3>4. QED
      BY <3>1, <3>2, <3>3 DEF IsOpen
  <2>2. CASE q # p
    <3>1. view'[q] = view[q] /\ run'[q] = run[q]
      BY <1>1, <2>2 DEF Logged, ViewsOK, RunsOK
    <3>2. QED
      BY <3>1, <2>2 DEF IsOpen
  <2>3. QED
    BY <2>1, <2>2
<1>4. QED
  BY <1>2, <1>3 DEF ViewsOK

LEMMA LeaveKeepsRuns ==
    ASSUME Logged, NEW p \in Process, Leave(p)
    PROVE  RunsOK'
<1>1. run' = [run EXCEPT ![p] = NoRun] /\ seq' = [seq EXCEPT ![p] = 0] /\ clock' = clock
  BY DEF Leave
<1>2. run' \in [Process -> 0..MaxRuns] /\ seq' \in [Process -> Nat]
  BY <1>1, EventLogAssumption DEF Logged, RunsOK, NoRun
<1>3. ASSUME NEW q \in Process
      PROVE  run'[q] <= clock'
  BY <1>1, EventLogAssumption DEF Logged, RunsOK, NoRun
<1>4. ASSUME NEW q \in Process, NEW r \in Process, q # r, run'[q] = run'[r]
      PROVE  run'[q] = NoRun
  BY <1>1, <1>4 DEF Logged, RunsOK
<1>5. clock' \in 0..MaxRuns
  BY <1>1 DEF Logged, RunsOK
<1>6. QED
  BY <1>2, <1>3, <1>4, <1>5 DEF RunsOK

LEMMA ExitKeepsLogged ==
    ASSUME Logged, NEW p \in Process, Leave(p), log' = log, gone' = gone
    PROVE  Logged'
<1>1. RunsOK'
  BY LeaveKeepsRuns
<1>2. LogOK'
  BY DEF Leave, Logged, LogOK
<1>3. ViewsOK'
  BY <1>1, LeaveKeepsViews DEF Logged, ViewsOK
<1>4. QED
  BY <1>1, <1>2, <1>3 DEF Logged

\* It appends its last event and leaves.
LEMMA DepartKeepsLogged ==
    ASSUME Logged, NEW p, NEW kind, NEW body, Writes(p, kind, body), Depart(p, kind, body)
    PROVE  Logged'
<1> DEFINE e == Stamped(run[p], seq[p], kind, body)
<1>1. log' = Append(log, e) /\ gone' = gone \ {body} /\ Leave(p)
  BY DEF Depart
<1>2. p \in Process /\ run[p] \in 0..MaxRuns /\ seq[p] \in Nat /\ clock \in Nat /\ run[p] <= clock
  BY EventLogAssumption DEF Writes, Logged, RunsOK
<1>3. IsEvent(e) /\ e.run = run[p]
  BY <1>2, StampedIsEvent, StampedFields DEF Writes
<1> HIDE DEF e
<1>4. IsSeq(log) /\ EventsUpTo(log, clock) /\ ExpiredOf(gone, log) /\ clock' = clock
  BY <1>1 DEF Logged, LogOK, EventsUpTo, Leave
<1>5. LogOK'
  <2>1. EventsUpTo(Append(log, e), clock)
    <3>1. clock <= clock /\ e.run <= clock
      BY <1>2, <1>3
    <3>2. QED
      BY <3>1, <1>2, <1>3, <1>4, AppendEvents
  <2>2. ExpiredOf(gone \ {body}, Append(log, e))
    BY <1>4, AppendExpired
  <2>3. QED
    BY <2>1, <2>2, <1>1, <1>4 DEF LogOK
<1>6. RunsOK'
  BY <1>1, <1>2, LeaveKeepsRuns
<1>7. ViewsOK'
  <2>1. ASSUME NEW q \in Process, q # p
        PROVE  /\ ReadFrom(view[q], Append(log, e))
               /\ IsOpen(q) => HasRun(view[q], Append(log, e), run[q])
    <3>0. ReadFrom(view[q], log) /\ (IsOpen(q) => HasRun(view[q], log, run[q]))
      BY DEF Logged, ViewsOK
    <3>2. ReadFrom(view[q], Append(log, e))
      BY <3>0, <1>4, AppendReadFrom
    <3>3. ASSUME IsOpen(q)
          PROVE  HasRun(view[q], Append(log, e), run[q])
      <4>1. e.run # run[q]
        BY <1>2, <1>3, <2>1, <3>3 DEF IsOpen, Writes, Logged, RunsOK
      <4>2. QED
        BY <4>1, <3>0, <3>3, <1>4, AppendOther
    <3>4. QED
      BY <3>2, <3>3
  <2>2. QED
    BY <2>1, <1>1, <1>2, <1>6, LeaveKeepsViews
<1>8. QED
  BY <1>5, <1>6, <1>7 DEF Logged

\* It opens the ledger.
LEMMA OpenKeepsLogged ==
    ASSUME Logged, NEW p \in Process, NEW kinds \in {<<>>, <<"run.open">>}, NEW body,
           DOMAIN body = Fields("run.open") \/ kinds = <<>>, OpenRun(p, kinds, body)
    PROVE  Logged'
<1> DEFINE e == Stamped(clock + 1, 0, "run.open", body)
<1>1. /\ LogOK /\ RunsOK /\ ViewsOK
      /\ IsSeq(log) /\ EventsUpTo(log, clock) /\ ExpiredOf(gone, log)
  BY DEF Logged, LogOK, EventsUpTo
<1>2. /\ run[p] = NoRun
      /\ clock < MaxRuns
      /\ clock' = clock + 1
      /\ run' = [run EXCEPT ![p] = clock + 1]
      /\ gone' = gone
      /\ \/ /\ kinds = <<>>
            /\ log' = log
            /\ view' = [view EXCEPT ![p] = Readable(log)]
            /\ seq' = [seq EXCEPT ![p] = 0]
         \/ /\ kinds = <<"run.open">>
            /\ log' = Append(log, e)
            /\ view' = [view EXCEPT ![p] = Append(Readable(log), e)]
            /\ seq' = [seq EXCEPT ![p] = 1]
  BY <1>1, OpenRunLogs DEF IsOpen
<1>3. clock \in Nat /\ clock + 1 \in 0..MaxRuns /\ clock + 1 \in Nat /\ clock + 1 # NoRun
  BY <1>1, <1>2, EventLogAssumption DEF RunsOK, NoRun
<1>4. kinds # <<>> => IsEvent(e)
  BY <1>3, StampedIsEvent DEF EventKinds
<1>5. e.run = clock + 1
  BY StampedFields
<1> HIDE DEF e
<1>6. RunsOK'
  <2>1. seq' \in [Process -> Nat]
    BY <1>1, <1>2 DEF RunsOK
  <2>2. run' \in [Process -> 0..MaxRuns]
    BY <1>1, <1>2, <1>3 DEF RunsOK
  <2>3. ASSUME NEW q \in Process
        PROVE  run'[q] <= clock'
    BY <1>1, <1>2, <1>3 DEF RunsOK
  <2>4. ASSUME NEW q \in Process, NEW r \in Process, q # r, run'[q] = run'[r]
        PROVE  run'[q] = NoRun
    <3>1. \A x \in Process : run[x] # clock + 1
      BY <1>1, <1>3, EventLogAssumption DEF RunsOK
    <3>2. QED
      BY <1>1, <1>2, <2>4, <3>1 DEF RunsOK
  <2>5. QED
    BY <1>2, <1>3, <2>1, <2>2, <2>3, <2>4 DEF RunsOK
<1>7. EventsUpTo(log, clock + 1)
  <2>1. ASSUME NEW i \in DOMAIN log
        PROVE  log[i].run <= clock + 1
    <3>1. log[i].run \in Nat /\ log[i].run <= clock
      BY <1>1, EventLogAssumption DEF EventsUpTo, IsEvent
    <3>2. QED
      BY <3>1, <1>3
  <2>2. QED
    BY <1>1, <2>1 DEF EventsUpTo
<1>8. kinds # <<>> => EventsUpTo(Append(log, e), clock + 1)
  <2>1. clock + 1 <= clock + 1 /\ e.run <= clock + 1
    BY <1>3, <1>5
  <2>2. QED
    BY <2>1, <1>3, <1>4, <1>7, AppendEvents
<1>9. ExpiredOf(gone, Append(log, e))
  BY <1>1, AppendExpired
<1>10. LogOK'
  <2>1. CASE kinds = <<>>
    <3>1. log' = log
      BY <1>2, <2>1
    <3>2. QED
      BY <3>1, <1>1, <1>2, <1>7 DEF LogOK
  <2>2. CASE kinds # <<>>
    <3>1. log' = Append(log, e)
      BY <1>2, <2>2
    <3>2. QED
      BY <2>2, <3>1, <1>2, <1>8, <1>9 DEF LogOK
  <2>3. QED
    BY <2>1, <2>2
<1>11. HasRun(Readable(log), log, clock + 1)
  <2>1. ASSUME NEW j \in DOMAIN log
        PROVE  log[j].run # clock + 1
    <3>1. log[j].run \in Nat /\ log[j].run <= clock
      BY <1>1, EventLogAssumption DEF EventsUpTo, IsEvent
    <3>2. QED
      BY <3>1, <1>3
  <2>2. QED
    BY <2>1 DEF HasRun
<1>12. ReadFrom(Readable(log), log) /\ IsSeq(Readable(log))
  BY <1>1, ReadingTheLog DEF ReadFrom
<1>13. ViewsOK'
  <2>1. view' = [q \in Process |-> view'[q]]
    BY <1>1, <1>2 DEF ViewsOK
  <2>2. ASSUME NEW q \in Process
        PROVE  ReadFrom(view'[q], log') /\ (IsOpen(q)' => HasRun(view'[q], log', run'[q]))
    <3>1. CASE q = p
      <4>1. run'[q] = clock + 1
        BY <1>1, <1>2, <3>1 DEF RunsOK
      <4>2. CASE kinds = <<>>
        <5>1. log' = log /\ view'[q] = Readable(log)
          BY <1>1, <1>2, <3>1, <4>2 DEF ViewsOK
        <5>2. QED
          BY <5>1, <4>1, <1>11, <1>12
      <4>3. CASE kinds # <<>>
        <5>1. log' = Append(log, e) /\ view'[q] = Append(Readable(log), e)
          BY <1>1, <1>2, <3>1, <4>3 DEF ViewsOK
        <5>2. ReadFrom(Append(Readable(log), e), Append(log, e))
          BY <4>3, <1>1, <1>4, <1>12, AppendReadBoth
        <5>3. HasRun(Append(Readable(log), e), Append(log, e), clock + 1)
          BY <1>1, <1>11, <1>12, AppendOwn
        <5>4. QED
          BY <5>1, <5>2, <5>3, <4>1
      <4>4. QED
        BY <4>2, <4>3
    <3>2. CASE q # p
      <4>1. view'[q] = view[q] /\ run'[q] = run[q]
        BY <1>1, <1>2, <3>2 DEF ViewsOK, RunsOK
      <4>2. ReadFrom(view[q], log) /\ (IsOpen(q) => HasRun(view[q], log, run[q]))
        BY <1>1 DEF ViewsOK
      <4>3. ReadFrom(view[q], Append(log, e))
        BY <4>2, <1>1, AppendReadFrom
      <4>4. ASSUME IsOpen(q)
            PROVE  HasRun(view[q], Append(log, e), run[q])
        <5>1. e.run # run[q]
          BY <1>1, <1>3, <1>5, EventLogAssumption DEF RunsOK
        <5>2. QED
          BY <5>1, <4>2, <4>4, <1>1, AppendOther
      <4>5. log' = log \/ log' = Append(log, e)
        BY <1>2
      <4>6. QED
        BY <4>1, <4>2, <4>3, <4>4, <4>5 DEF IsOpen
    <3>3. QED
      BY <3>1, <3>2
  <2>3. QED
    BY <2>1, <2>2 DEF ViewsOK
<1>14. QED
  BY <1>6, <1>10, <1>13 DEF Logged

\* A payload expires.
LEMMA ExpireKeepsLogged ==
    ASSUME Logged, NEW i \in DOMAIN log, Expire(i)
    PROVE  Logged'
<1> DEFINE body == [event |-> i]
           e == Stamped(NoRun, 0, "retention.expire", body)
<1>1. /\ log[i].kind \in Expirable
      /\ \A p \in Process : ~IsOpen(p)
      /\ log' = Append(log, e)
      /\ gone' = gone \cup {log[i].body}
      /\ view' = view /\ run' = run /\ seq' = seq /\ clock' = clock
  BY DEF Expire
<1>2. /\ LogOK /\ RunsOK /\ ViewsOK
      /\ IsSeq(log) /\ EventsUpTo(log, clock) /\ ExpiredOf(gone, log)
      /\ clock \in Nat
  BY EventLogAssumption DEF Logged, LogOK, RunsOK, EventsUpTo
<1>3. IsEvent(e) /\ e.run = NoRun
  <2>1. DOMAIN body = Fields("retention.expire") /\ "retention.expire" \in EventKinds
    BY DEF Fields, EventKinds
  <2>2. NoRun \in 0..MaxRuns /\ 0 \in Nat
    BY EventLogAssumption DEF NoRun
  <2>3. QED
    BY <2>1, <2>2, StampedIsEvent, StampedFields
<1> HIDE DEF e
<1>4. LogOK'
  <2>1. clock <= clock /\ e.run <= clock
    BY <1>2, <1>3 DEF NoRun
  <2>2. EventsUpTo(Append(log, e), clock)
    BY <2>1, <1>2, <1>3, AppendEvents
  <2>3. ExpiredOf(gone', log)
    BY <1>1, <1>2 DEF ExpiredOf
  <2>4. ExpiredOf(gone', Append(log, e))
    BY <2>3, <1>2, AppendExpired
  <2>5. QED
    BY <2>2, <2>4, <1>1 DEF LogOK
<1>5. RunsOK'
  BY <1>1, <1>2 DEF RunsOK
<1>6. ViewsOK'
  <2>1. ASSUME NEW q \in Process
        PROVE  ReadFrom(view[q], Append(log, e))
    BY <1>2, AppendReadFrom DEF ViewsOK
  <2>2. QED
    BY <2>1, <1>1, <1>2 DEF ViewsOK, IsOpen
<1>7. QED
  BY <1>4, <1>5, <1>6 DEF Logged

LEMMA StutterKeepsLogged ==
    ASSUME Logged, UNCHANGED logVars
    PROVE  Logged'
BY DEF Logged, LogOK, RunsOK, ViewsOK, IsOpen, logVars

LEMMA InitLogged ==
    ASSUME LogInit
    PROVE  Logged
<1>1. LogOK
  BY HarnessAssumption DEF LogInit, LogOK, EventsUpTo, ExpiredOf
<1>2. RunsOK
  BY EventLogAssumption DEF LogInit, RunsOK, NoRun
<1>3. ViewsOK
  <2>1. PICK v : v = <<>>
    OBVIOUS
  <2>2. ReadFrom(v, log)
    BY <2>1, NoEventsSeq DEF ReadFrom
  <2>3. QED
    BY <2>1, <2>2 DEF LogInit, ViewsOK, IsOpen
<1>4. QED
  BY <1>1, <1>2, <1>3 DEF Logged

-----------------------------------------------------------------------------
(* What the policy decides *)

\* A set of numbers has a least one, and a number over it the greatest.
LEMMA NatMin ==
    ASSUME NEW I, I \subseteq Nat, I # {}
    PROVE  Min(I) \in I /\ \A i \in I : Min(I) <= i
<1> DEFINE R == OpToRel(<, Nat)
<1>1. \A i, j \in Nat : <<i, j>> \in R <=> i < j
  BY DEF OpToRel
<1>2. IsWellFoundedOn(R, Nat)
  BY NatLessThanWellFounded
<1> HIDE DEF R
<1>3. PICK x \in I : \A y \in I : ~(<<y, x>> \in R)
  BY <1>2, WFMin
<1>4. ASSUME NEW y \in I
      PROVE  x <= y
  <2>1. x \in Nat /\ y \in Nat /\ ~(<<y, x>> \in R)
    BY <1>3
  <2>2. ~(y < x)
    BY <1>1, <2>1
  <2>3. QED
    BY <2>1, <2>2
<1>5. QED
  BY <1>3, <1>4 DEF Min

LEMMA NatMax ==
    ASSUME NEW I, I \subseteq Nat, I # {}, NEW n \in Nat, \A i \in I : i <= n
    PROVE  Max(I) \in I /\ \A i \in I : i <= Max(I)
<1> DEFINE J == {n - i : i \in I}
<1>1. J \subseteq Nat /\ J # {}
  <2>1. ASSUME NEW i \in I
        PROVE  n - i \in Nat
    <3>1. i \in Nat /\ i <= n
      OBVIOUS
    <3>2. QED
      BY <3>1
  <2>2. QED
    BY <2>1
<1>2. Min(J) \in J /\ \A j \in J : Min(J) <= j
  BY <1>1, NatMin
<1>3. PICK x \in I : Min(J) = n - x
  BY <1>2
<1>4. \A i \in I : n - x <= n - i
  BY <1>2, <1>3
<1> HIDE DEF J
<1>5. \A i \in I : i <= x
  BY <1>4
<1>6. QED
  BY <1>3, <1>5 DEF Max

\* The rule a denial names when nothing else does has a name.
LEMMA DefaultRuleType == DefaultRule \in RuleName
<1> DEFINE J == {i \in 1..Len(Rule) : Rule[i].cap = NoCap /\ Rule[i].everyTarget}
           i == IF J # {} THEN Min(J) ELSE 0
<1>1. DefaultRule = IF i = 0 THEN "r-default" ELSE Rule[i].id
  BY DEF DefaultRule, SelectInSeq
<1>2. ASSUME i # 0
      PROVE  i \in 1..Len(Rule)
  BY <1>2, NatMin
<1> HIDE DEF i
<1>3. ASSUME i # 0
      PROVE  i \in DOMAIN Rule
  BY <1>2, <1>3, PolicyAssumption
<1>4. QED
  BY <1>1, <1>3 DEF RuleName

\* Whatever the call and the rungs, the decision is one of the three on a
\* declared capability, or a denial.
LEMMA DecideType ==
    ASSUME NEW call, NEW earned
    PROVE  /\ Decide(call, earned) \in DecisionType
           /\ Decide(call, earned).verdict # "deny" =>
                 Decide(call, earned).cap \in CapId /\ Decide(call, earned).cap # NoCap
<1> DEFINE I == {i \in 1..Len(Capability) : call \in Capability[i].calls}
           c == IF I # {} THEN Min(I) ELSE 0
           capability == Capability[c]
           J == {i \in 1..Len(Rule) : RuleMatches(Rule[i], capability.id, call)}
           r == IF J # {} THEN Min(J) ELSE 0
           gate == EffectiveGate(capability, earned[capability.id])
           verdict == IF Rule[r].action = "allow" /\ gate = "pre" THEN "hold"
                      ELSE Rule[r].action
           obligation == CASE verdict = "allow" /\ gate = "post" -> "review"
                           [] verdict = "hold"                   -> "approval"
                           [] OTHER                              -> "none"
           d == IF c = 0 THEN Decision("deny", NoCap, DefaultRule, "none")
                ELSE IF r = 0 THEN Decision("deny", capability.id, DefaultRule, "none")
                ELSE Decision(verdict, capability.id, Rule[r].id, obligation)
<1>1. Decide(call, earned) = d
  BY DEF Decide, SelectInSeq
<1>2. ASSUME c # 0
      PROVE  c \in 1..Len(Capability)
  BY <1>2, NatMin
<1> HIDE DEF c
<1>3. ASSUME r # 0
      PROVE  r \in 1..Len(Rule)
  <2> HIDE DEF capability
  <2>1. J \subseteq Nat /\ J # {}
    BY <1>3
  <2>2. Min(J) \in J
    BY <2>1, NatMin
  <2>3. QED
    BY <2>1, <2>2
<1> HIDE DEF r
<1>4. ASSUME c # 0
      PROVE  capability.id \in CapId /\ capability.id # NoCap
  BY <1>2, <1>4, PolicyAssumption DEF CapId
<1>5. ASSUME r # 0
      PROVE  Rule[r].id \in RuleName /\ Rule[r].action \in Actions
  <2>1. Rule[r] \in RuleType /\ r \in DOMAIN Rule
    BY <1>3, <1>5, PolicyAssumption
  <2>2. QED
    BY <2>1 DEF RuleType, RuleName
<1>6. verdict \in {"hold", Rule[r].action} /\ obligation \in {"none", "review", "approval"}
  OBVIOUS
<1> HIDE DEF capability, verdict, obligation
<1>7. DefaultRule \in RuleName
  BY DefaultRuleType
<1>8. CASE c = 0
  BY <1>1, <1>7, <1>8 DEF Decision, DecisionType, Actions
<1>9. CASE c # 0 /\ r = 0
  BY <1>1, <1>4, <1>7, <1>9 DEF Decision, DecisionType, Actions
<1>10. CASE c # 0 /\ r # 0
  <2>1. verdict \in Actions
    BY <1>5, <1>6, <1>10 DEF Actions
  <2>2. d = Decision(verdict, capability.id, Rule[r].id, obligation)
    BY <1>10
  <2>3. QED
    BY <1>1, <1>4, <1>5, <1>6, <1>10, <2>1, <2>2 DEF Decision, DecisionType
<1>11. QED
  BY <1>8, <1>9, <1>10

-----------------------------------------------------------------------------
(* Where the processes are *)

BrokerLabels == {"closed", "ready", "deciding", "denied", "refused", "held", "cleared", "done"}

ApproverLabels == {"closed", "answering", "answered"}

StageLabels == {"closed", "sensing", "clean", "failed", "demoting", "promoting", "promoted", "sealing"}

\* A process has a run open exactly while it is inside a command.
Control ==
    /\ pc = [p \in Broker \cup Approver |-> pc[p]]
    /\ \A p \in Broker : pc[p] \in BrokerLabels /\ (pc[p] = "closed" <=> ~IsOpen(p))
    /\ \A p \in Approver : pc[p] \in ApproverLabels /\ (pc[p] = "closed" <=> ~IsOpen(p))
    /\ stage = [o \in Orchestrators |-> stage[o]]
    /\ \A o \in Orchestrators : stage[o] \in StageLabels /\ (stage[o] = "closed" <=> ~IsOpen(o))

\* What a step of a process does to the log.
LogStep(p) ==
    \/ \E kinds \in {<<>>, <<"run.open">>} : \E body :
          /\ DOMAIN body = Fields("run.open") \/ kinds = <<>>
          /\ OpenRun(p, kinds, body)
    \/ \E kind, body : /\ kind \notin {"run.open", "run.seal"}
                        /\ Writes(p, kind, body)
                        /\ Emit(p, kind, body)
    \/ \E body : Writes(p, "run.seal", body) /\ Depart(p, "run.seal", body)
    \/ Leave(p) /\ log' = log /\ gone' = gone
    \/ UNCHANGED logVars

LEMMA LogStepKeepsLogged ==
    ASSUME Logged, NEW p \in Process, LogStep(p)
    PROVE  Logged'
BY OpenKeepsLogged, EmitKeepsLogged, DepartKeepsLogged, ExitKeepsLogged, StutterKeepsLogged
   DEF LogStep

LEMMA BrokerLogSteps ==
    ASSUME Logged, Control, NEW p \in Broker, BrokerStep(p)
    PROVE  LogStep(p)
<1>0. p \in Process /\ (pc[p] # "closed" => IsOpen(p)) /\ <<run[p], seq[p]>> \in IdType
  BY BrokerAssumption DEF Control, Logged, RunsOK, IdType
<1>1. CASE StartBroker(p)
  <2>1. DOMAIN [workload |-> "broker"] = Fields("run.open")
    BY DEF Fields
  <2>2. QED
    BY <1>1, <2>1 DEF StartBroker, LogStep
<1>2. ASSUME NEW t \in Tool, Register(p, t)
      PROVE  LogStep(p)
  <2>1. PICK verdict : Emit(p, "tool.register", [tool |-> t, verdict |-> verdict])
    BY <1>2 DEF Register
  <2>2. DOMAIN [tool |-> t, verdict |-> verdict] = Fields("tool.register")
    BY DEF Fields
  <2>3. Writes(p, "tool.register", [tool |-> t, verdict |-> verdict])
    BY <1>0, <1>2, <2>2 DEF Writes, Register, At, EventKinds
  <2>4. QED
    BY <2>1, <2>3 DEF LogStep
<1>3. ASSUME NEW s \in Scopes, DelegateScope(p, s)
      PROVE  LogStep(p)
  <2>1. DOMAIN [granted |-> s] = Fields("subagent.spawn")
    BY DEF Fields
  <2>2. Writes(p, "subagent.spawn", [granted |-> s])
    BY <1>0, <1>3, <2>1 DEF Writes, DelegateScope, At, EventKinds
  <2>3. QED
    BY <1>3, <2>2 DEF DelegateScope, LogStep
<1>4. ASSUME NEW c \in Call, Request(p, c)
      PROVE  LogStep(p)
  <2>1. Emit(p, "tool.request", [request |-> <<run[p], seq[p]>>, call |-> c])
    BY <1>4 DEF Request
  <2>2. DOMAIN [request |-> <<run[p], seq[p]>>, call |-> c] = Fields("tool.request")
    BY DEF Fields
  <2>3. Writes(p, "tool.request", [request |-> <<run[p], seq[p]>>, call |-> c])
    BY <1>0, <1>4, <2>2 DEF Writes, Request, At, EventKinds
  <2>4. QED
    BY <2>1, <2>3 DEF LogStep
<1>5. CASE MakeDecision(p)
  <2>1. PICK d : Emit(p, "policy.decision",
                  [request |-> current[p].request, call |-> current[p].call, cap |-> d.cap,
                   verdict |-> d.verdict, rule |-> d.rule, obligation |-> d.obligation])
    BY <1>5 DEF MakeDecision
  <2> DEFINE body == [request |-> current[p].request, call |-> current[p].call, cap |-> d.cap,
                   verdict |-> d.verdict, rule |-> d.rule, obligation |-> d.obligation]
  <2>2. DOMAIN body = Fields("policy.decision")
    BY DEF Fields
  <2>3. Writes(p, "policy.decision", body)
    BY <1>0, <1>5, <2>2 DEF Writes, MakeDecision, At, EventKinds
  <2>4. QED
    BY <2>1, <2>3 DEF LogStep
<1>6. CASE Demote(p)
  <2>1. PICK cap, from, to : Emit(p, "rung.change", RungChange(cap, from, to, "demotion", "none"))
    BY <1>6 DEF Demote
  <2>2. DOMAIN RungChange(cap, from, to, "demotion", "none") = Fields("rung.change")
    BY DEF Fields, RungChange
  <2>3. Writes(p, "rung.change", RungChange(cap, from, to, "demotion", "none"))
    BY <1>0, <1>6, <2>2 DEF Writes, Demote, At, EventKinds
  <2>4. QED
    BY <2>1, <2>3 DEF LogStep
<1>7. ASSUME NEW outcome, Result(p, outcome), pc[p] # "closed"
      PROVE  LogStep(p)
  <2>1. Emit(p, "tool.result", [request |-> current[p].request, outcome |-> outcome])
    BY <1>7 DEF Result
  <2>2. DOMAIN [request |-> current[p].request, outcome |-> outcome] = Fields("tool.result")
    BY DEF Fields
  <2>3. Writes(p, "tool.result", [request |-> current[p].request, outcome |-> outcome])
    BY <1>0, <1>7, <2>2 DEF Writes, EventKinds
  <2>4. QED
    BY <2>1, <2>3 DEF LogStep
<1>8. CASE Refuse(p) \/ Block(p) \/ RefuseCredential(p) \/ FailToExecute(p) \/ Finish(p)
  BY <1>7, <1>8 DEF Refuse, Block, RefuseCredential, FailToExecute, Finish, At
<1>9. CASE UseGrant(p)
  <2>1. PICK approval : Emit(p, "approval.use",
                   [grant |-> approval.grant, call |-> current[p].call, rule |-> approval.rule,
                    request |-> current[p].request, approver |-> approval.approver])
    BY <1>9 DEF UseGrant
  <2> DEFINE body == [grant |-> approval.grant, call |-> current[p].call, rule |-> approval.rule,
                    request |-> current[p].request, approver |-> approval.approver]
  <2>2. DOMAIN body = Fields("approval.use")
    BY DEF Fields
  <2>3. Writes(p, "approval.use", body)
    BY <1>0, <1>9, <2>2 DEF Writes, UseGrant, At, EventKinds
  <2>4. QED
    BY <2>1, <2>3 DEF LogStep
<1>10. CASE Execute(p)
  BY <1>10 DEF Execute, LogStep
<1>11. CASE SealBroker(p)
  <2>1. PICK outcome : SealRun(p, outcome, reviews[p])
    BY <1>11 DEF SealBroker
  <2>2. DOMAIN [outcome |-> outcome, reviews |-> reviews[p]] = Fields("run.seal")
    BY DEF Fields
  <2>3. Writes(p, "run.seal", [outcome |-> outcome, reviews |-> reviews[p]])
    BY <1>0, <1>11, <2>2 DEF Writes, SealBroker, At, EventKinds
  <2>4. QED
    BY <2>1, <2>3 DEF LogStep, SealRun
<1>12. CASE KillBroker(p)
  BY <1>12 DEF KillBroker, Die, Exit, LogStep
<1>13. QED
  BY <1>1, <1>2, <1>3, <1>4, <1>5, <1>6, <1>8, <1>9, <1>10, <1>11, <1>12 DEF BrokerStep, CallStep

LEMMA ApproverLogSteps ==
    ASSUME Logged, Control, NEW p \in Approver, ApproverStep(p)
    PROVE  LogStep(p)
<1>0. p \in Process /\ (pc[p] # "closed" => IsOpen(p)) /\ <<run[p], seq[p]>> \in IdType
  BY BrokerAssumption DEF Control, Logged, RunsOK, IdType
<1>1. CASE StartApprove(p)
  BY <1>1 DEF StartApprove, LogStep
<1>2. ASSUME NEW r, NEW v, NEW who, Answer(p, r, v, who)
      PROVE  LogStep(p)
  <2>1. PICK call, rule :
           Emit(p, "approval", Approval(<<run[p], seq[p]>>, v, call, rule, who, r))
    BY <1>2 DEF Answer
  <2> DEFINE body == Approval(<<run[p], seq[p]>>, v, call, rule, who, r)
  <2>2. DOMAIN body = Fields("approval") /\ body.grant = <<run[p], seq[p]>>
    BY DEF Fields, Approval
  <2>3. Writes(p, "approval", body)
    BY <1>0, <1>2, <2>2 DEF Writes, Answer, At, EventKinds
  <2>4. QED
    BY <2>1, <2>3 DEF LogStep
<1>3. CASE SealApprove(p)
  <2> DEFINE body == [outcome |-> "complete", reviews |-> 0]
  <2>1. Depart(p, "run.seal", body)
    BY <1>3 DEF SealApprove, SealRun
  <2>2. DOMAIN body = Fields("run.seal")
    BY DEF Fields
  <2>3. Writes(p, "run.seal", body)
    BY <1>0, <1>3, <2>2 DEF Writes, SealApprove, At, EventKinds
  <2>4. QED
    BY <2>1, <2>3 DEF LogStep
<1>4. CASE RefuseApprove(p)
  BY <1>4 DEF RefuseApprove, LogStep
<1>5. CASE KillApprove(p)
  BY <1>5 DEF KillApprove, Die, Exit, LogStep
<1>6. QED
  BY <1>1, <1>2, <1>3, <1>4, <1>5 DEF ApproverStep

LEMMA OrchestratorLogSteps ==
    ASSUME Logged, Control, NEW o \in Orchestrators, OrchestratorStep(o)
    PROVE  LogStep(o)
<1>0. o \in Process /\ (stage[o] # "closed" => IsOpen(o))
  BY OrchestratorAssumption DEF Control
<1>1. ASSUME NEW cap, StartStep(o, cap)
      PROVE  LogStep(o)
  <2>1. DOMAIN [workload |-> "orchestrate"] = Fields("run.open")
    BY DEF Fields
  <2>2. QED
    BY <1>1, <2>1 DEF StartStep, LogStep
<1>2. ASSUME NEW verdict, Sense(o, verdict)
      PROVE  LogStep(o)
  <2>1. DOMAIN [verdict |-> verdict] = Fields("sensor.verdict")
    BY DEF Fields
  <2>2. Writes(o, "sensor.verdict", [verdict |-> verdict])
    BY <1>0, <1>2, <2>1 DEF Writes, Sense, EventKinds
  <2>3. QED
    BY <1>2, <2>2 DEF Sense, LogStep
<1>3. ASSUME NEW outcome, RecordRun(o, outcome), stage[o] # "closed"
      PROVE  LogStep(o)
  <2> DEFINE body == [cap |-> task[o].cap, rung |-> Before(o), outcome |-> outcome]
  <2>1. DOMAIN body = Fields("capability.run")
    BY DEF Fields
  <2>2. Writes(o, "capability.run", body)
    BY <1>0, <1>3, <2>1 DEF Writes, EventKinds
  <2>3. QED
    BY <1>3, <2>2 DEF RecordRun, LogStep
<1>4. CASE RecordFailure(o) \/ RecordClean(o)
  BY <1>3, <1>4 DEF RecordFailure, RecordClean
<1>5. ASSUME NEW cap, NEW from, NEW to, NEW trigger, NEW who, stage[o] # "closed",
             Emit(o, "rung.change", RungChange(cap, from, to, trigger, who))
      PROVE  LogStep(o)
  <2> DEFINE body == RungChange(cap, from, to, trigger, who)
  <2>1. DOMAIN body = Fields("rung.change")
    BY DEF Fields, RungChange
  <2>2. Writes(o, "rung.change", body)
    BY <1>0, <1>5, <2>1 DEF Writes, EventKinds
  <2>3. QED
    BY <1>5, <2>2 DEF LogStep
<1>6. CASE DemoteOnFailure(o) \/ Promote(o)
  BY <1>5, <1>6 DEF DemoteOnFailure, Promote
<1>7. ASSUME NEW who, ApprovePromotion(o, who)
      PROVE  LogStep(o)
  <2> DEFINE body == Approval(<<NoRun, 0>>, "approve", "none", "none", who, <<NoRun, 0>>)
  <2>1. DOMAIN body = Fields("approval") /\ body.grant = <<NoRun, 0>>
    BY DEF Fields, Approval
  <2>2. <<NoRun, 0>> \in IdType
    BY EventLogAssumption DEF IdType, NoRun
  <2>3. Writes(o, "approval", body)
    BY <1>0, <1>7, <2>1, <2>2 DEF Writes, ApprovePromotion, EventKinds
  <2>4. QED
    BY <1>7, <2>3 DEF ApprovePromotion, LogStep
<1>8. CASE SealStep(o)
  <2> DEFINE body == [outcome |-> "complete", reviews |-> 0]
  <2>1. Depart(o, "run.seal", body)
    BY <1>8 DEF SealStep, SealRun
  <2>2. DOMAIN body = Fields("run.seal")
    BY DEF Fields
  <2>3. Writes(o, "run.seal", body)
    BY <1>0, <1>8, <2>2 DEF Writes, SealStep, EventKinds
  <2>4. QED
    BY <2>1, <2>3 DEF LogStep
<1>9. CASE FailStep(o)
  BY <1>9 DEF FailStep, LogStep
<1>10. CASE KillStep(o)
  BY <1>10 DEF KillStep, Die, Exit, LogStep
<1>11. QED
  BY <1>1, <1>2, <1>4, <1>6, <1>7, <1>8, <1>9, <1>10 DEF OrchestratorStep

\* Whoever acts, what is true of the log and of what was read of it stays true.
LEMMA NextKeepsLogged ==
    ASSUME Logged, Control, [Next]_vars
    PROVE  Logged'
<1>1. ASSUME NEW p \in Broker, BrokerStep(p)
      PROVE  Logged'
  BY <1>1, BrokerLogSteps, LogStepKeepsLogged, BrokerAssumption
<1>2. ASSUME NEW p \in Approver, ApproverStep(p)
      PROVE  Logged'
  BY <1>2, ApproverLogSteps, LogStepKeepsLogged, BrokerAssumption
<1>3. ASSUME NEW o \in Orchestrators, OrchestratorStep(o)
      PROVE  Logged'
  BY <1>3, OrchestratorLogSteps, LogStepKeepsLogged, OrchestratorAssumption
<1>4. ASSUME NEW i \in DOMAIN log, Expire(i)
      PROVE  Logged'
  BY <1>4, ExpireKeepsLogged
<1>5. CASE UNCHANGED vars
  BY <1>5, StutterKeepsLogged DEF vars
<1>6. QED
  BY <1>1, <1>2, <1>3, <1>4, <1>5 DEF Next, BrokerNext, OrchestratorNext

\* The decision on a call names a rule and, unless it denies, a capability of
\* the scope the run has been narrowed to.
LEMMA DecidedType ==
    ASSUME NEW p \in Broker
    PROVE  /\ Decided(p) \in DecisionType
           /\ Decided(p).verdict # "deny" => Decided(p).cap \in CapId \cap scope[p]
<1> DEFINE d == Decide(current[p].call, [cap \in CapId |-> EarnedRung(view[p], cap)])
           out == d.cap # NoCap /\ d.verdict # "deny" /\ d.cap \notin scope[p]
<1>1. d \in DecisionType /\ (d.verdict # "deny" => d.cap \in CapId /\ d.cap # NoCap)
  BY DecideType
<1>2. Decided(p) = IF out THEN Decision("deny", d.cap, "r-delegation", "none") ELSE d
  BY DEF Decided
<1> HIDE DEF d
<1>3. CASE out
  <2>1. Decided(p) = Decision("deny", d.cap, "r-delegation", "none")
    BY <1>2, <1>3
  <2>2. d.cap \in CapId \cup {NoCap} /\ "r-delegation" \in RuleName /\ "deny" \in Actions
    BY <1>1 DEF DecisionType, RuleName, Actions
  <2>3. QED
    BY <2>1, <2>2 DEF Decision, DecisionType
<1>4. CASE ~out
  BY <1>1, <1>2, <1>4
<1>5. QED
  BY <1>3, <1>4

-----------------------------------------------------------------------------
(* The control of the processes *)

\* The run of a process that opens one, keeps it or leaves it.
LEMMA RunMoves ==
    ASSUME Logged, NEW p \in Process
    PROVE  /\ \A kinds, body : OpenRun(p, kinds, body) =>
                 run' = [run EXCEPT ![p] = run'[p]] /\ run'[p] # NoRun
           /\ \A kind, body : Emit(p, kind, body) => run' = [run EXCEPT ![p] = run'[p]] /\ run'[p] = run[p]
           /\ \A kind, body : Depart(p, kind, body) =>
                 run' = [run EXCEPT ![p] = run'[p]] /\ run'[p] = NoRun
           /\ Leave(p) => run' = [run EXCEPT ![p] = run'[p]] /\ run'[p] = NoRun
           /\ run' = run => run' = [run EXCEPT ![p] = run'[p]]
<1>1. run \in [Process -> 0..MaxRuns] /\ clock \in Nat /\ clock + 1 # NoRun
  BY EventLogAssumption DEF Logged, RunsOK, NoRun
<1>2. ASSUME NEW kinds, NEW body, OpenRun(p, kinds, body)
      PROVE  run' = [run EXCEPT ![p] = run'[p]] /\ run'[p] # NoRun
  <2>1. clock' = clock + 1 /\ run' = [run EXCEPT ![p] = clock']
    BY <1>2 DEF OpenRun
  <2>2. QED
    BY <1>1, <2>1
<1>3. ASSUME NEW kind, NEW body, Emit(p, kind, body)
      PROVE  run' = [run EXCEPT ![p] = run'[p]] /\ run'[p] = run[p]
  BY <1>1, <1>3 DEF Emit
<1>4. Leave(p) => run' = [run EXCEPT ![p] = run'[p]] /\ run'[p] = NoRun
  BY <1>1 DEF Leave
<1>5. run' = run => run' = [run EXCEPT ![p] = run'[p]]
  BY <1>1
<1>6. QED
  BY <1>2, <1>3, <1>4, <1>5 DEF Depart

\* Where a step of a process takes it, and what becomes of its run with that.
BrokerMove(p) ==
    /\ run' = [run EXCEPT ![p] = run'[p]]
    /\ pc' = [pc EXCEPT ![p] = pc'[p]]
    /\ pc'[p] \in BrokerLabels
    /\ pc'[p] = "closed" <=> run'[p] = NoRun

ApproverMove(p) ==
    /\ run' = [run EXCEPT ![p] = run'[p]]
    /\ pc' = [pc EXCEPT ![p] = pc'[p]]
    /\ pc'[p] \in ApproverLabels
    /\ pc'[p] = "closed" <=> run'[p] = NoRun

OrchestratorMove(o) ==
    /\ run' = [run EXCEPT ![o] = run'[o]]
    /\ stage' = [stage EXCEPT ![o] = stage'[o]]
    /\ stage'[o] \in StageLabels
    /\ stage'[o] = "closed" <=> run'[o] = NoRun

LEMMA BrokerMoves ==
    ASSUME Logged, Control, NEW p \in Broker, BrokerStep(p)
    PROVE  BrokerMove(p)
<1>0. /\ p \in Process
      /\ pc = [q \in Broker \cup Approver |-> pc[q]]
      /\ p \in Broker \cup Approver
      /\ pc[p] \in BrokerLabels
      /\ pc[p] = "closed" <=> run[p] = NoRun
  BY BrokerAssumption DEF Control, IsOpen
<1>1. CASE StartBroker(p)
  <2>1. pc' = [pc EXCEPT ![p] = "ready"] /\ run' = [run EXCEPT ![p] = run'[p]] /\ run'[p] # NoRun
    BY <1>0, <1>1, RunMoves DEF StartBroker, Goto
  <2>2. QED
    BY <1>0, <2>1 DEF BrokerMove, BrokerLabels
<1>2. ASSUME pc' = pc, pc[p] # "closed", run' = [run EXCEPT ![p] = run'[p]], run'[p] = run[p]
      PROVE  BrokerMove(p)
  <2>1. pc' = [pc EXCEPT ![p] = pc'[p]]
    BY <1>0, <1>2
  <2>2. QED
    BY <1>0, <1>2, <2>1 DEF BrokerMove
<1>3. ASSUME NEW t \in Tool, Register(p, t)
      PROVE  BrokerMove(p)
  <2>1. run' = [run EXCEPT ![p] = run'[p]] /\ run'[p] = run[p] /\ pc' = pc /\ pc[p] = "ready"
    BY <1>0, <1>3, RunMoves DEF Register, At
  <2>2. QED
    BY <1>2, <2>1
<1>4. ASSUME NEW s \in Scopes, DelegateScope(p, s)
      PROVE  BrokerMove(p)
  <2>1. run' = [run EXCEPT ![p] = run'[p]] /\ run'[p] = run[p] /\ pc' = pc /\ pc[p] = "ready"
    BY <1>0, <1>4, RunMoves DEF DelegateScope, At
  <2>2. QED
    BY <1>2, <2>1
<1>5. ASSUME NEW label \in BrokerLabels \ {"closed"}, pc' = [pc EXCEPT ![p] = label],
             pc[p] # "closed", run' = [run EXCEPT ![p] = run'[p]], run'[p] = run[p]
      PROVE  BrokerMove(p)
  BY <1>0, <1>5 DEF BrokerMove
<1>6. ASSUME NEW kind, NEW body, Emit(p, kind, body), pc[p] # "closed",
             NEW label \in BrokerLabels \ {"closed"}, Goto(p, label)
      PROVE  BrokerMove(p)
  <2>1. run' = [run EXCEPT ![p] = run'[p]] /\ run'[p] = run[p]
    BY <1>0, <1>6, RunMoves
  <2>2. QED
    BY <1>5, <1>6, <2>1 DEF Goto
<1>7. ASSUME NEW c \in Call, Request(p, c)
      PROVE  BrokerMove(p)
  BY <1>6, <1>7 DEF Request, At, BrokerLabels
<1>8. CASE MakeDecision(p)
  <2>1. Decided(p).verdict \in Actions
    BY DecidedType DEF DecisionType
  <2> DEFINE label == CASE Decided(p).verdict = "deny"  -> "denied"
                        [] Decided(p).verdict = "hold"  -> "held"
                        [] Decided(p).verdict = "allow" -> "cleared"
  <2>2. label \in BrokerLabels \ {"closed"}
    BY <2>1 DEF BrokerLabels, Actions
  <2>3. Goto(p, label) /\ pc[p] = "deciding"
    BY <1>8 DEF MakeDecision, At
  <2> HIDE DEF label
  <2>4. PICK body : Emit(p, "policy.decision", body)
    BY <1>8 DEF MakeDecision
  <2>5. QED
    BY <1>6, <2>2, <2>3, <2>4
<1>9. CASE Demote(p)
  BY <1>6, <1>9 DEF Demote, At, BrokerLabels
<1>10. ASSUME NEW outcome, Result(p, outcome), pc[p] # "closed"
      PROVE  BrokerMove(p)
  BY <1>6, <1>10 DEF Result, BrokerLabels
<1>11. CASE Refuse(p) \/ Block(p) \/ RefuseCredential(p) \/ FailToExecute(p) \/ Finish(p)
  BY <1>10, <1>11 DEF Refuse, Block, RefuseCredential, FailToExecute, Finish, At
<1>12. CASE UseGrant(p)
  BY <1>6, <1>12 DEF UseGrant, At, BrokerLabels
<1>13. CASE Execute(p)
  <2>1. pc' = [pc EXCEPT ![p] = "done"] /\ run' = run /\ pc[p] = "cleared"
    BY <1>13 DEF Execute, Goto, logVars, At
  <2>2. run' = [run EXCEPT ![p] = run'[p]] /\ run'[p] = run[p]
    BY <1>0, <2>1, RunMoves
  <2>3. QED
    BY <1>5, <2>1, <2>2 DEF BrokerLabels
<1>14. ASSUME Close(p), run' = [run EXCEPT ![p] = run'[p]], run'[p] = NoRun
       PROVE  BrokerMove(p)
  <2>1. pc' = [pc EXCEPT ![p] = "closed"]
    BY <1>14 DEF Close, Goto
  <2>2. QED
    BY <1>0, <1>14, <2>1 DEF BrokerMove, BrokerLabels
<1>15. CASE SealBroker(p)
  BY <1>0, <1>14, <1>15, RunMoves DEF SealBroker, SealRun
<1>16. CASE KillBroker(p)
  BY <1>0, <1>14, <1>16, RunMoves DEF KillBroker, Die, Exit
<1>17. QED
  BY <1>1, <1>3, <1>4, <1>7, <1>8, <1>9, <1>11, <1>12, <1>13, <1>15, <1>16 DEF BrokerStep, CallStep

LEMMA ApproverMoves ==
    ASSUME Logged, Control, NEW p \in Approver, ApproverStep(p)
    PROVE  ApproverMove(p)
<1>0. /\ p \in Process
      /\ pc = [q \in Broker \cup Approver |-> pc[q]]
      /\ p \in Broker \cup Approver
      /\ pc[p] \in ApproverLabels
      /\ pc[p] = "closed" <=> run[p] = NoRun
  BY BrokerAssumption DEF Control, IsOpen
<1>1. ASSUME NEW label \in ApproverLabels, Goto(p, label), run' = [run EXCEPT ![p] = run'[p]],
             label = "closed" <=> run'[p] = NoRun
      PROVE  ApproverMove(p)
  BY <1>0, <1>1 DEF ApproverMove, Goto
<1>2. CASE StartApprove(p)
  BY <1>0, <1>1, <1>2, RunMoves DEF StartApprove, ApproverLabels
<1>3. ASSUME NEW r, NEW v, NEW who, Answer(p, r, v, who)
      PROVE  ApproverMove(p)
  BY <1>0, <1>1, <1>3, RunMoves DEF Answer, ApproverLabels, At
<1>4. CASE SealApprove(p)
  BY <1>0, <1>1, <1>4, RunMoves DEF SealApprove, SealRun, ApproverLabels
<1>5. CASE RefuseApprove(p)
  BY <1>0, <1>1, <1>5, RunMoves DEF RefuseApprove, ApproverLabels
<1>6. CASE KillApprove(p)
  BY <1>0, <1>1, <1>6, RunMoves DEF KillApprove, Die, Exit, ApproverLabels
<1>7. QED
  BY <1>2, <1>3, <1>4, <1>5, <1>6 DEF ApproverStep

LEMMA OrchestratorMoves ==
    ASSUME Logged, Control, NEW o \in Orchestrators, OrchestratorStep(o)
    PROVE  OrchestratorMove(o)
<1>0. /\ o \in Process
      /\ stage = [q \in Orchestrators |-> stage[q]]
      /\ stage[o] \in StageLabels
      /\ stage[o] = "closed" <=> run[o] = NoRun
  BY OrchestratorAssumption DEF Control, IsOpen
<1>1. ASSUME NEW label \in StageLabels, MoveTo(o, label), run' = [run EXCEPT ![o] = run'[o]],
             label = "closed" <=> run'[o] = NoRun
      PROVE  OrchestratorMove(o)
  BY <1>0, <1>1 DEF OrchestratorMove, MoveTo
<1>2. ASSUME NEW kind, NEW body, Emit(o, kind, body), stage[o] # "closed",
             NEW label \in StageLabels \ {"closed"}, MoveTo(o, label)
      PROVE  OrchestratorMove(o)
  <2>1. run' = [run EXCEPT ![o] = run'[o]] /\ run'[o] = run[o]
    BY <1>0, <1>2, RunMoves
  <2>2. QED
    BY <1>0, <1>1, <1>2, <2>1
<1>3. ASSUME NEW cap, StartStep(o, cap)
      PROVE  OrchestratorMove(o)
  BY <1>0, <1>1, <1>3, RunMoves DEF StartStep, StageLabels
<1>4. ASSUME NEW verdict, Sense(o, verdict)
      PROVE  OrchestratorMove(o)
  <2>1. PICK label \in {"clean", "failed"} : MoveTo(o, label)
    BY <1>4 DEF Sense
  <2>2. PICK body : Emit(o, "sensor.verdict", body)
    BY <1>4 DEF Sense
  <2>3. stage[o] = "sensing"
    BY <1>4 DEF Sense
  <2>4. QED
    BY <1>2, <2>1, <2>2, <2>3 DEF StageLabels
<1>5. CASE RecordFailure(o)
  <2>1. PICK label \in {"demoting", "sealing"} : MoveTo(o, label)
    BY <1>5 DEF RecordFailure
  <2>2. PICK body : Emit(o, "capability.run", body)
    BY <1>5 DEF RecordFailure, RecordRun
  <2>3. stage[o] = "failed"
    BY <1>5 DEF RecordFailure
  <2>4. QED
    BY <1>2, <2>1, <2>2, <2>3 DEF StageLabels
<1>6. CASE RecordClean(o)
  <2>1. PICK label \in {"promoting", "sealing"} : MoveTo(o, label)
    BY <1>6 DEF RecordClean
  <2>2. PICK body : Emit(o, "capability.run", body)
    BY <1>6 DEF RecordClean, RecordRun
  <2>3. stage[o] = "clean"
    BY <1>6 DEF RecordClean
  <2>4. QED
    BY <1>2, <2>1, <2>2, <2>3 DEF StageLabels
<1>7. CASE DemoteOnFailure(o)
  BY <1>2, <1>7 DEF DemoteOnFailure, StageLabels
<1>8. ASSUME NEW who, ApprovePromotion(o, who)
      PROVE  OrchestratorMove(o)
  BY <1>2, <1>8 DEF ApprovePromotion, StageLabels
<1>9. CASE Promote(o)
  BY <1>2, <1>9 DEF Promote, StageLabels
<1>10. CASE SealStep(o)
  BY <1>0, <1>1, <1>10, RunMoves DEF SealStep, SealRun, EndStep, StageLabels
<1>11. CASE FailStep(o)
  BY <1>0, <1>1, <1>11, RunMoves DEF FailStep, EndStep, StageLabels
<1>12. CASE KillStep(o)
  BY <1>0, <1>1, <1>12, RunMoves DEF KillStep, Die, Exit, EndStep, StageLabels
<1>13. QED
  BY <1>3, <1>4, <1>5, <1>6, <1>7, <1>8, <1>9, <1>10, <1>11, <1>12 DEF OrchestratorStep

LEMMA NextKeepsControl ==
    ASSUME Logged, Control, [Next]_vars
    PROVE  Control'
<1>0. /\ run = [p \in Process |-> run[p]]
      /\ Broker \subseteq Process /\ Approver \subseteq Process /\ Orchestrators \subseteq Process
      /\ Broker \cap Approver = {} /\ Orchestrators \cap (Broker \cup Approver) = {}
  BY BrokerAssumption, OrchestratorAssumption, HarnessAssumption DEF Logged, RunsOK
<1>1. ASSUME NEW p \in Broker, BrokerStep(p), stage' = stage
      PROVE  Control'
  <2>1. BrokerMove(p)
    BY <1>1, BrokerMoves
  <2>2. \A q \in Process \ {p} : run'[q] = run[q]
    BY <1>0, <2>1 DEF BrokerMove
  <2>3. \A q \in (Broker \cup Approver) \ {p} : pc'[q] = pc[q]
    BY <2>1 DEF BrokerMove, Control
  <2>4. pc' = [q \in Broker \cup Approver |-> pc'[q]]
    BY <2>1 DEF BrokerMove, Control
  <2>5. QED
    BY <1>0, <1>1, <2>1, <2>2, <2>3, <2>4 DEF Control, BrokerMove, IsOpen
<1>2. ASSUME NEW p \in Approver, ApproverStep(p), stage' = stage
      PROVE  Control'
  <2>1. ApproverMove(p)
    BY <1>2, ApproverMoves
  <2>2. \A q \in Process \ {p} : run'[q] = run[q]
    BY <1>0, <2>1 DEF ApproverMove
  <2>3. \A q \in (Broker \cup Approver) \ {p} : pc'[q] = pc[q]
    BY <2>1 DEF ApproverMove, Control
  <2>4. pc' = [q \in Broker \cup Approver |-> pc'[q]]
    BY <2>1 DEF ApproverMove, Control
  <2>5. QED
    BY <1>0, <1>2, <2>1, <2>2, <2>3, <2>4 DEF Control, ApproverMove, IsOpen
<1>3. ASSUME NEW o \in Orchestrators, OrchestratorStep(o), pc' = pc
      PROVE  Control'
  <2>1. OrchestratorMove(o)
    BY <1>3, OrchestratorMoves
  <2>2. \A q \in Process \ {o} : run'[q] = run[q]
    BY <1>0, <2>1 DEF OrchestratorMove
  <2>3. \A q \in Orchestrators \ {o} : stage'[q] = stage[q]
    BY <2>1 DEF OrchestratorMove, Control
  <2>4. stage' = [q \in Orchestrators |-> stage'[q]]
    BY <2>1 DEF OrchestratorMove, Control
  <2>5. QED
    BY <1>0, <1>3, <2>1, <2>2, <2>3, <2>4 DEF Control, OrchestratorMove, IsOpen
<1>4. ASSUME run' = run, pc' = pc, stage' = stage
      PROVE  Control'
  BY <1>4 DEF Control, IsOpen
<1>5. ASSUME NEW i \in DOMAIN log, Expire(i), UNCHANGED <<brokerVars, orchestratorVars>>
      PROVE  Control'
  BY <1>4, <1>5 DEF Expire, brokerVars, orchestratorVars
<1>6. CASE UNCHANGED vars
  BY <1>4, <1>6 DEF vars, logVars, brokerVars, orchestratorVars
<1>7. QED
  BY <1>1, <1>2, <1>3, <1>5, <1>6
     DEF Next, BrokerNext, OrchestratorNext, brokerVars, orchestratorVars

-----------------------------------------------------------------------------
(* Type correctness *)

\* The rest of the state.
Typed ==
    /\ registered \in [Broker -> SUBSET Publishable]
    /\ scope \in [Broker -> SUBSET CapId]
    /\ reviews \in [Broker -> Nat]
    /\ current \in [Broker -> CallType]
    /\ IsSeq(executed)
    /\ \A x \in DOMAIN executed : executed[x] \in CallType
    /\ task \in [Orchestrators -> [cap : CapId \cup {NoCap}, promoter : Identity \cup {"none"}]]

\* What a view says of an approval that approves is what the log says.
LEMMA ApprovalRead ==
    ASSUME Logged, NEW p \in Process, NEW i \in DOMAIN view[p],
           view[p][i].kind = "approval", view[p][i].body.verdict = "approve"
    PROVE  \E j \in DOMAIN log : view[p][i] = log[j] /\ log[j].body.grant \in IdType
<1>1. PICK j \in DOMAIN log : Reads(view[p][i], log[j])
  BY DEF Logged, ViewsOK, ReadFrom
<1>2. IsEvent(log[j])
  BY DEF Logged, LogOK, EventsUpTo
<1> DEFINE e == log[j]
           v == view[p][i]
<1>3. v = [e EXCEPT !.body = v.body] /\ e.kind = v.kind
  BY <1>1, <1>2 DEF Reads, IsEvent
<1>4. DOMAIN e.body = {"grant", "verdict", "call", "rule", "approver", "request"} /\ e.body.grant \in IdType
  BY <1>2, <1>3 DEF IsEvent, Fields
<1>5. v.body # [field \in DOMAIN e.body |-> Null]
  BY <1>4, HarnessAssumption
<1>6. v.body = e.body
  BY <1>1, <1>5 DEF Reads
<1>7. v = e
  BY <1>2, <1>3, <1>6 DEF IsEvent
<1>8. QED
  BY <1>4, <1>7

\* The grant a broker finds usable is one an approval on the log gives.
LEMMA UsableGrantFound ==
    ASSUME Logged, NEW p \in Broker, UsableGrant(p) # 0
    PROVE  LET g == UsableGrant(p)
           IN  /\ g \in DOMAIN view[p]
               /\ view[p][g].kind = "approval"
               /\ Usable(view[p][g].body, current[p].call, current[p].decision.rule, Spent(view[p]))
               /\ view[p][g].body.grant \in IdType
               /\ \E j \in DOMAIN log : view[p][g] = log[j]
<1> DEFINE h == view[p]
           Found(i) == /\ h[i].kind = "approval"
                       /\ Usable(h[i].body, current[p].call, current[p].decision.rule, Spent(h))
           I == {i \in 1..Len(h) : Found(i)}
<1>1. UsableGrant(p) = IF I # {} THEN Min(I) ELSE 0
  BY DEF UsableGrant, SelectInSeq
<1>2. p \in Process /\ IsSeq(h)
  BY BrokerAssumption DEF Logged, ViewsOK, ReadFrom
<1>3. Len(h) \in Nat /\ DOMAIN h = 1..Len(h)
  BY <1>2, SeqDomain
<1> HIDE DEF Found
<1>4. I # {} /\ I \subseteq Nat
  BY <1>1, <1>3
<1>5. UsableGrant(p) \in I
  BY <1>1, <1>4, NatMin
<1>6. UsableGrant(p) \in DOMAIN h /\ Found(UsableGrant(p))
  BY <1>3, <1>5
<1>7. /\ h[UsableGrant(p)].kind = "approval"
      /\ Usable(h[UsableGrant(p)].body, current[p].call, current[p].decision.rule, Spent(h))
  BY <1>6 DEF Found
<1>8. h[UsableGrant(p)].body.verdict = "approve"
  BY <1>7 DEF Usable
<1>9. PICK j \in DOMAIN log : h[UsableGrant(p)] = log[j] /\ log[j].body.grant \in IdType
  BY <1>2, <1>6, <1>7, <1>8, ApprovalRead
<1>10. QED
  BY <1>6, <1>7, <1>9

LEMMA NoCallType == NoCall \in CallType /\ NoCap \in CapId \cup {NoCap} /\ NoId \in IdType
<1>1. NoId \in IdType
  BY EventLogAssumption DEF NoId, IdType, NoRun
<1>2. Decision("deny", NoCap, "none", "none") \in DecisionType
  BY DEF Decision, DecisionType, Actions, RuleName
<1>3. QED
  BY <1>1, <1>2 DEF NoCall, CallType

LEMMA BrokerKeepsTyped ==
    ASSUME Logged, Control, Typed, NEW p \in Broker, BrokerStep(p), task' = task
    PROVE  Typed'
<1>0. p \in Process /\ run[p] \in 0..MaxRuns /\ seq[p] \in Nat
  BY BrokerAssumption DEF Logged, RunsOK
<1> USE DEF Typed
<1>1. CASE StartBroker(p)
  BY <1>1 DEF StartBroker
<1>2. ASSUME NEW t \in Tool, Register(p, t)
      PROVE  Typed'
  <2>1. PICK accepted \in BOOLEAN :
           /\ accepted => t \in Publishable
           /\ registered' = [registered EXCEPT ![p] = IF accepted THEN registered[p] \cup {t}
                                                      ELSE registered[p]]
    BY <1>2 DEF Register
  <2>2. registered' \in [Broker -> SUBSET Publishable]
    BY <2>1
  <2>3. QED
    BY <1>2, <2>2 DEF Register
<1>3. ASSUME NEW s \in Scopes, DelegateScope(p, s)
      PROVE  Typed'
  <2>1. s \in SUBSET CapId
    BY BrokerAssumption
  <2>2. QED
    BY <1>3, <2>1 DEF DelegateScope
<1>4. ASSUME NEW c \in Call, Request(p, c)
      PROVE  Typed'
  <2> DEFINE x == [NoCall EXCEPT !.call = c, !.request = <<run[p], seq[p]>>]
  <2>1. x \in CallType
    BY <1>0, NoCallType DEF CallType, IdType
  <2>2. current' = [current EXCEPT ![p] = x]
    BY <1>4 DEF Request
  <2> HIDE DEF x
  <2>3. current' \in [Broker -> CallType]
    BY <2>1, <2>2
  <2>4. QED
    BY <1>4, <2>3 DEF Request
<1>5. CASE MakeDecision(p)
  <2>1. Decided(p) \in DecisionType
    BY DecidedType
  <2>2. current' = [current EXCEPT ![p].decision = Decided(p)]
    BY <1>5 DEF MakeDecision
  <2>3. [current[p] EXCEPT !.decision = Decided(p)] \in CallType
    BY <2>1 DEF CallType
  <2>4. current' \in [Broker -> CallType]
    BY <2>2, <2>3
  <2>5. reviews' = [reviews EXCEPT ![p] =
                       IF Decided(p).obligation = "review" THEN reviews[p] + 1 ELSE reviews[p]]
    BY <1>5 DEF MakeDecision
  <2>6. reviews' \in [Broker -> Nat]
    BY <2>5
  <2>7. QED
    BY <1>5, <2>4, <2>6 DEF MakeDecision
<1>6. CASE Demote(p)
  BY <1>6 DEF Demote
<1>7. ASSUME NEW outcome, Result(p, outcome), executed' = executed
      PROVE  Typed'
  BY <1>7, NoCallType DEF Result
<1>8. CASE Refuse(p) \/ Block(p) \/ RefuseCredential(p) \/ FailToExecute(p) \/ Finish(p)
  BY <1>7, <1>8 DEF Refuse, Block, RefuseCredential, FailToExecute, Finish, At
<1>9. CASE UseGrant(p)
  <2> DEFINE g == view[p][UsableGrant(p)].body.grant
  <2>1. g \in IdType
    BY <1>9, UsableGrantFound DEF UseGrant
  <2>2. current' = [current EXCEPT ![p].grant = g]
    BY <1>9 DEF UseGrant
  <2> HIDE DEF g
  <2>3. [current[p] EXCEPT !.grant = g] \in CallType
    BY <2>1 DEF CallType
  <2>4. current' \in [Broker -> CallType]
    BY <2>2, <2>3
  <2>5. QED
    BY <1>9, <2>4 DEF UseGrant
<1>10. CASE Execute(p)
  <2>1. executed' = Append(executed, current[p]) /\ current[p] \in CallType
    BY <1>10 DEF Execute
  <2>2. /\ IsSeq(Append(executed, current[p]))
        /\ DOMAIN executed = 1..Len(executed)
        /\ Len(executed) \in Nat
        /\ DOMAIN Append(executed, current[p]) = 1..(Len(executed) + 1)
        /\ \A i \in DOMAIN executed : Append(executed, current[p])[i] = executed[i]
        /\ Append(executed, current[p])[Len(executed) + 1] = current[p]
    BY AppendSeq
  <2>3. PICK t : t = Append(executed, current[p])
    OBVIOUS
  <2>4. \A i \in DOMAIN t : i \in DOMAIN executed \/ i = Len(executed) + 1
    BY <2>2, <2>3
  <2>5. \A i \in DOMAIN t : t[i] \in CallType
    BY <2>1, <2>2, <2>3, <2>4
  <2>6. QED
    BY <1>10, <2>1, <2>2, <2>3, <2>5 DEF Execute
<1>11. ASSUME Close(p), executed' = executed
       PROVE  Typed'
  BY <1>11, NoCallType DEF Close
<1>12. CASE SealBroker(p) \/ KillBroker(p)
  BY <1>11, <1>12 DEF SealBroker, KillBroker
<1>13. QED
  BY <1>1, <1>2, <1>3, <1>4, <1>5, <1>6, <1>8, <1>9, <1>10, <1>12 DEF BrokerStep, CallStep

LEMMA OthersKeepTyped ==
    ASSUME Typed, UNCHANGED <<registered, scope, reviews, current, executed>>,
           \/ task' = task
           \/ \E o \in Orchestrators : OrchestratorStep(o)
    PROVE  Typed'
<1>1. CASE task' = task
  BY <1>1 DEF Typed
<1>2. ASSUME NEW o \in Orchestrators, OrchestratorStep(o)
      PROVE  task' \in [Orchestrators -> [cap : CapId \cup {NoCap}, promoter : Identity \cup {"none"}]]
  <2> USE DEF Typed
  <2>1. ASSUME NEW cap \in CapId, StartStep(o, cap)
        PROVE  task' \in [Orchestrators -> [cap : CapId \cup {NoCap}, promoter : Identity \cup {"none"}]]
    BY <2>1 DEF StartStep
  <2>2. ASSUME NEW who \in Identity, ApprovePromotion(o, who)
        PROVE  task' \in [Orchestrators -> [cap : CapId \cup {NoCap}, promoter : Identity \cup {"none"}]]
    BY <2>2 DEF ApprovePromotion
  <2>3. ASSUME EndStep(o)
        PROVE  task' \in [Orchestrators -> [cap : CapId \cup {NoCap}, promoter : Identity \cup {"none"}]]
    BY <2>3 DEF EndStep, NoTask
  <2>4. QED
    BY <1>2, <2>1, <2>2, <2>3
       DEF OrchestratorStep, Sense, RecordFailure, RecordClean, DemoteOnFailure, Promote, SealStep,
           FailStep, KillStep
<1>3. QED
  BY <1>1, <1>2 DEF Typed

\* The invariant everything below rests on.
Base == Logged /\ Control /\ Typed

LEMMA NextKeepsBase ==
    ASSUME Base, [Next]_vars
    PROVE  Base'
<1>1. Logged' /\ Control'
  BY NextKeepsLogged, NextKeepsControl DEF Base
<1>2. ASSUME NEW p \in Broker, BrokerStep(p), UNCHANGED orchestratorVars
      PROVE  Typed'
  BY <1>2, BrokerKeepsTyped DEF Base, orchestratorVars
<1>3. ASSUME NEW p \in Approver, ApproverStep(p), UNCHANGED orchestratorVars
      PROVE  Typed'
  <2>1. UNCHANGED <<registered, scope, reviews, current, executed>> /\ task' = task
    BY <1>3 DEF ApproverStep, StartApprove, Answer, SealApprove, RefuseApprove, KillApprove,
                orchestratorVars
  <2>2. QED
    BY <2>1, OthersKeepTyped DEF Base
<1>4. ASSUME NEW o \in Orchestrators, OrchestratorStep(o), UNCHANGED brokerVars
      PROVE  Typed'
  BY <1>4, OthersKeepTyped DEF Base, brokerVars
<1>5. ASSUME UNCHANGED brokerVars, UNCHANGED orchestratorVars
      PROVE  Typed'
  BY <1>5, OthersKeepTyped DEF Base, brokerVars, orchestratorVars
<1>6. QED
  BY <1>1, <1>2, <1>3, <1>4, <1>5 DEF Base, Next, BrokerNext, OrchestratorNext, vars

LEMMA InitBase == Init => Base
<1> SUFFICES ASSUME Init PROVE Base
  OBVIOUS
<1>1. Logged
  BY InitLogged DEF Init
<1>2. Control
  <2>1. \A p \in Process : ~IsOpen(p)
    BY DEF Init, LogInit, IsOpen
  <2>2. QED
    BY <2>1, BrokerAssumption, OrchestratorAssumption
       DEF Init, BrokerInit, OrchestratorInit, Control, BrokerLabels, ApproverLabels, StageLabels
<1>3. IsSeq(executed) /\ DOMAIN executed = {}
  BY NoEventsSeq DEF Init, BrokerInit
<1>4. Typed
  BY <1>3, NoCallType DEF Init, BrokerInit, OrchestratorInit, Typed, NoTask
<1>5. QED
  BY <1>1, <1>2, <1>4 DEF Base

LEMMA BaseIsTypeOK == Base => TypeOK
<1> SUFFICES ASSUME Base PROVE TypeOK
  OBVIOUS
<1>1. \A i \in DOMAIN log : IsEvent(log[i])
  BY DEF Base, Logged, LogOK, EventsUpTo
<1>2. \A p \in Process : \A i \in DOMAIN view[p] :
          \E j \in DOMAIN log :
             /\ view[p][i] = [log[j] EXCEPT !.body = view[p][i].body]
             /\ view[p][i].body \in {log[j].body, [field \in DOMAIN log[j].body |-> Null]}
  BY DEF Base, Logged, ViewsOK, ReadFrom, Reads
<1>3. gone \subseteq {log[j].body : j \in DOMAIN log}
  BY DEF Base, Logged, LogOK, ExpiredOf
<1>4. run \in [Process -> 0..MaxRuns] /\ seq \in [Process -> Nat] /\ clock \in 0..MaxRuns
  BY DEF Base, Logged, RunsOK
<1> DEFINE Labels == {"closed", "ready", "deciding", "denied", "refused", "held", "cleared",
                      "done", "answering", "answered"}
<1>5. \A p \in Broker \cup Approver : pc[p] \in Labels
  BY DEF Base, Control, BrokerLabels, ApproverLabels
<1>6. pc \in [Broker \cup Approver -> Labels]
  BY <1>5 DEF Base, Control
<1>7. stage \in [Orchestrators -> StageLabels]
  BY DEF Base, Control
<1>8. QED
  BY <1>1, <1>2, <1>3, <1>4, <1>6, <1>7 DEF Base, Typed, TypeOK, StageLabels

\* The log is one of events of runs up to the clock, every process has read it
\* or nulls in place of payloads that have expired, and the state of every
\* process has its type: for any number of processes, killed at any point.
THEOREM TypeCorrect == Spec => []TypeOK
<1>1. Spec => []Base
  BY InitBase, NextKeepsBase, PTL DEF Spec
<1>2. QED
  BY <1>1, BaseIsTypeOK, PTL

-----------------------------------------------------------------------------
(* How the log grows *)

\* A log that begins with another.
Extends(t, s) ==
    /\ DOMAIN s \subseteq Nat
    /\ DOMAIN t \subseteq Nat
    /\ \A i \in DOMAIN s : i \in DOMAIN t /\ t[i] = s[i]

\* A log with one more event.
Adds(t, s, e) ==
    /\ Extends(t, s)
    /\ Len(s) \in Nat
    /\ DOMAIN s = 1..Len(s)
    /\ DOMAIN t = 1..(Len(s) + 1)
    /\ t[Len(s) + 1] = e

LEMMA AppendAdds ==
    ASSUME NEW s, IsSeq(s), NEW e
    PROVE  Adds(Append(s, e), s, e)
BY AppendSeq DEF Adds, Extends

LEMMA ExtendsItself ==
    ASSUME NEW s, IsSeq(s)
    PROVE  Extends(s, s)
BY SeqDomain DEF Extends

LEMMA BaseLog == Base => IsSeq(log) /\ DOMAIN log \subseteq Nat
BY SeqDomain DEF Base, Logged, LogOK, EventsUpTo

\* An index of a log with one more event is one it had, or the last.
LEMMA AddedIndex ==
    ASSUME NEW s, NEW t, NEW e, Adds(t, s, e), NEW i \in DOMAIN t
    PROVE  \/ i \in DOMAIN s /\ t[i] = s[i] /\ i <= Len(s)
           \/ i = Len(s) + 1 /\ t[i] = e
BY DEF Adds, Extends

LEMMA EmitAdds ==
    ASSUME Base, NEW p, NEW kind, NEW body, Emit(p, kind, body)
    PROVE  Adds(log', log, Stamped(run[p], seq[p], kind, body))
BY BaseLog, AppendAdds DEF Emit

LEMMA DepartAdds ==
    ASSUME Base, NEW p, NEW kind, NEW body, Depart(p, kind, body)
    PROVE  Adds(log', log, Stamped(run[p], seq[p], kind, body))
BY BaseLog, AppendAdds DEF Depart

\* Nothing is ever taken off the log.
LEMMA LogStepExtends ==
    ASSUME Base, NEW p \in Process, LogStep(p)
    PROVE  Extends(log', log)
<1>0. IsSeq(log) /\ Extends(log, log)
  BY BaseLog, ExtendsItself
<1>1. ASSUME NEW kinds \in {<<>>, <<"run.open">>}, NEW body, OpenRun(p, kinds, body)
      PROVE  Extends(log', log)
  <2>1. log' = log \/ log' = Append(log, Stamped(clock + 1, 0, "run.open", body))
    BY <1>1, OpenRunLogs DEF Base, Logged
  <2>2. QED
    BY <2>1, <1>0, AppendAdds DEF Adds
<1>2. ASSUME NEW kind, NEW body, Emit(p, kind, body)
      PROVE  Extends(log', log)
  BY <1>2, EmitAdds DEF Adds
<1>3. ASSUME NEW kind, NEW body, Depart(p, kind, body)
      PROVE  Extends(log', log)
  BY <1>3, DepartAdds DEF Adds
<1>4. log' = log => Extends(log', log)
  BY <1>0
<1>5. QED
  BY <1>1, <1>2, <1>3, <1>4 DEF LogStep, logVars

LEMMA NextExtends ==
    ASSUME Base, [Next]_vars
    PROVE  Extends(log', log)
<1>1. ASSUME NEW p \in Broker, BrokerStep(p)
      PROVE  Extends(log', log)
  BY <1>1, BrokerLogSteps, LogStepExtends, BrokerAssumption DEF Base
<1>2. ASSUME NEW p \in Approver, ApproverStep(p)
      PROVE  Extends(log', log)
  BY <1>2, ApproverLogSteps, LogStepExtends, BrokerAssumption DEF Base
<1>3. ASSUME NEW o \in Orchestrators, OrchestratorStep(o)
      PROVE  Extends(log', log)
  BY <1>3, OrchestratorLogSteps, LogStepExtends, OrchestratorAssumption DEF Base
<1>4. ASSUME NEW i \in DOMAIN log, Expire(i)
      PROVE  Extends(log', log)
  BY <1>4, BaseLog, AppendAdds DEF Expire, Adds
<1>5. CASE UNCHANGED vars
  BY <1>5, BaseLog, ExtendsItself DEF vars, logVars
<1>6. QED
  BY <1>1, <1>2, <1>3, <1>4, <1>5 DEF Next, BrokerNext, OrchestratorNext

\* A step leaves the calls of the other brokers alone.
SameCall(q) ==
    /\ pc'[q] = pc[q]
    /\ current'[q] = current[q]
    /\ scope'[q] = scope[q]
    /\ reviews'[q] = reviews[q]
    /\ run'[q] = run[q]

LEMMA BrokerFrame ==
    ASSUME Base, NEW p \in Broker, BrokerStep(p), NEW q \in Broker, q # p
    PROVE  SameCall(q)
<1>1. BrokerMove(p)
  BY BrokerMoves DEF Base
<1>2. run'[q] = run[q] /\ pc'[q] = pc[q]
  BY <1>1, BrokerAssumption DEF BrokerMove, Base, Logged, RunsOK, Control
<1>3. current'[q] = current[q] /\ scope'[q] = scope[q] /\ reviews'[q] = reviews[q]
  BY DEF Base, Typed, BrokerStep, CallStep, StartBroker, Register, DelegateScope, Request,
         MakeDecision, Demote, Refuse, Block, UseGrant, RefuseCredential, Execute, FailToExecute,
         Finish, SealBroker, KillBroker, Result, Close
<1>4. QED
  BY <1>2, <1>3 DEF SameCall

LEMMA OtherFrame ==
    ASSUME Base, [Next]_vars, ~\E p \in Broker : BrokerStep(p)
    PROVE  executed' = executed /\ \A q \in Broker : SameCall(q)
<1>0. run = [p \in Process |-> run[p]] /\ Broker \subseteq Process /\ Approver \subseteq Process
      /\ Orchestrators \subseteq Process /\ Broker \cap Approver = {} /\ Broker \cap Orchestrators = {}
  BY BrokerAssumption, OrchestratorAssumption, HarnessAssumption DEF Base, Logged, RunsOK
<1>1. ASSUME NEW p \in Approver, ApproverStep(p)
      PROVE  executed' = executed /\ \A q \in Broker : SameCall(q)
  <2>1. UNCHANGED <<registered, scope, reviews, current, executed>>
    BY <1>1 DEF ApproverStep, StartApprove, Answer, SealApprove, RefuseApprove, KillApprove
  <2>2. ApproverMove(p)
    BY <1>1, ApproverMoves DEF Base
  <2>3. \A q \in Broker : q # p /\ run'[q] = run[q] /\ pc'[q] = pc[q]
    BY <1>0, <2>2 DEF ApproverMove, Base, Control
  <2>4. QED
    BY <2>1, <2>3 DEF SameCall
<1>2. ASSUME NEW o \in Orchestrators, OrchestratorStep(o), UNCHANGED brokerVars
      PROVE  executed' = executed /\ \A q \in Broker : SameCall(q)
  <2>1. OrchestratorMove(o)
    BY <1>2, OrchestratorMoves DEF Base
  <2>2. \A q \in Broker : q # o /\ run'[q] = run[q]
    BY <1>0, <2>1 DEF OrchestratorMove
  <2>3. QED
    BY <1>2, <2>2 DEF SameCall, brokerVars
<1>3. ASSUME UNCHANGED brokerVars, run' = run
      PROVE  executed' = executed /\ \A q \in Broker : SameCall(q)
  BY <1>3 DEF SameCall, brokerVars
<1>4. QED
  BY <1>1, <1>2, <1>3 DEF Next, BrokerNext, OrchestratorNext, vars, logVars, Expire

-----------------------------------------------------------------------------
(* What ran was cleared *)

\* The log carries the request of a call; then the decision on it; then what
\* clears it to run.
RequestedOn(s, x) ==
    \E r \in DOMAIN s :
        /\ s[r].kind = "tool.request"
        /\ s[r].body.request = x.request
        /\ s[r].body.call = x.call

DecisionFollows(s, x, r, d) ==
    /\ r < d
    /\ s[r].kind = "tool.request"
    /\ s[r].body.request = x.request
    /\ s[r].body.call = x.call
    /\ s[d].kind = "policy.decision"
    /\ s[d].body.request = x.request
    /\ s[d].body.call = x.call

DecidedOn(s, x) ==
    \E r, d \in DOMAIN s :
        /\ DecisionFollows(s, x, r, d)
        /\ s[d].body.verdict = x.decision.verdict
        /\ s[d].body.rule = x.decision.rule

GrantFollows(s, x, d, a, u) ==
    /\ a < u
    /\ d < u
    /\ s[u].kind = "approval.use"
    /\ s[u].body.request = x.request
    /\ s[a].kind = "approval"
    /\ s[a].body.grant = s[u].body.grant
    /\ s[a].body.verdict = "approve"
    /\ s[a].body.call = x.call
    /\ s[a].body.rule = s[d].body.rule
    /\ s[a].body.approver \in Approvers

ClearedOn(s, x) ==
    \E r, d \in DOMAIN s :
        /\ DecisionFollows(s, x, r, d)
        /\ \/ s[d].body.verdict = "allow"
           \/ /\ s[d].body.verdict = "hold"
              /\ \E a, u \in DOMAIN s : GrantFollows(s, x, d, a, u)

\* What the log carries, a longer one carries.
LEMMA ExtendsKeeps ==
    ASSUME NEW s, NEW t, Extends(t, s), NEW x
    PROVE  /\ RequestedOn(s, x) => RequestedOn(t, x)
           /\ DecidedOn(s, x) => DecidedOn(t, x)
           /\ ClearedOn(s, x) => ClearedOn(t, x)
<1>1. \A i \in DOMAIN s : i \in DOMAIN t /\ t[i] = s[i]
  BY DEF Extends
<1>2. \A r, d \in DOMAIN s : DecisionFollows(s, x, r, d) => DecisionFollows(t, x, r, d)
  BY <1>1 DEF DecisionFollows
<1>3. \A d, a, u \in DOMAIN s : GrantFollows(s, x, d, a, u) => GrantFollows(t, x, d, a, u)
  BY <1>1 DEF GrantFollows
<1>4. RequestedOn(s, x) => RequestedOn(t, x)
  BY <1>1 DEF RequestedOn
<1>5. DecidedOn(s, x) => DecidedOn(t, x)
  BY <1>1, <1>2 DEF DecidedOn
<1>6. ASSUME ClearedOn(s, x)
      PROVE  ClearedOn(t, x)
  <2>1. PICK r \in DOMAIN s, d \in DOMAIN s :
           /\ DecisionFollows(s, x, r, d)
           /\ \/ s[d].body.verdict = "allow"
              \/ /\ s[d].body.verdict = "hold"
                 /\ \E a, u \in DOMAIN s : GrantFollows(s, x, d, a, u)
    BY <1>6 DEF ClearedOn
  <2>2. (\E a, u \in DOMAIN s : GrantFollows(s, x, d, a, u)) =>
            \E a, u \in DOMAIN t : GrantFollows(t, x, d, a, u)
    BY <1>1, <1>3
  <2>3. QED
    BY <1>1, <1>2, <2>1, <2>2 DEF ClearedOn
<1>7. QED
  BY <1>4, <1>5, <1>6

\* Where a call is, the log carries what has been decided of it.
CallOnRecord(s, label, x) ==
    /\ label = "deciding" => RequestedOn(s, x)
    /\ label = "held" => DecidedOn(s, x) /\ x.decision.verdict = "hold"
    /\ label \in {"cleared", "done"} => ClearedOn(s, x)

CallsOnRecord ==
    /\ \A p \in Broker : CallOnRecord(log, pc[p], current[p])
    /\ \A i \in DOMAIN executed : ClearedOn(log, executed[i])

LEMMA BrokerCallsOnRecord ==
    ASSUME Base, CallsOnRecord, NEW p \in Broker, BrokerStep(p), Base', Extends(log', log)
    PROVE  /\ CallOnRecord(log', pc'[p], current'[p])
           /\ executed' = executed \/ (executed' = Append(executed, current[p]) /\ ClearedOn(log, current[p]))
<1>0. /\ pc = [q \in Broker \cup Approver |-> pc[q]]
      /\ pc[p] \in BrokerLabels
      /\ current \in [Broker -> CallType]
      /\ CallOnRecord(log, pc[p], current[p])
  BY DEF Base, Control, Typed, CallsOnRecord
<1>1. ASSUME pc'[p] \in {"closed", "ready", "denied", "refused"}, executed' = executed
      PROVE  /\ CallOnRecord(log', pc'[p], current'[p])
             /\ executed' = executed
  BY <1>1 DEF CallOnRecord
<1>2. CASE StartBroker(p) \/ SealBroker(p) \/ KillBroker(p) \/ Demote(p)
  <2>1. pc'[p] \in {"closed", "ready", "denied", "refused"}
    BY <1>0, <1>2 DEF StartBroker, SealBroker, KillBroker, Demote, Goto, Close
  <2>2. executed' = executed
    BY <1>2 DEF StartBroker, SealBroker, KillBroker, Demote
  <2>3. QED
    BY <1>1, <2>1, <2>2
<1>3. CASE \/ \E t \in Tool : Register(p, t)
           \/ \E s \in Scopes : DelegateScope(p, s)
  <2>1. pc'[p] = "ready" /\ executed' = executed
    BY <1>3 DEF Register, DelegateScope, At
  <2>2. QED
    BY <1>1, <2>1
<1>4. CASE Refuse(p) \/ Block(p) \/ RefuseCredential(p) \/ FailToExecute(p) \/ Finish(p)
  <2>1. pc'[p] = "ready" /\ executed' = executed
    BY <1>0, <1>4 DEF Refuse, Block, RefuseCredential, FailToExecute, Finish, Result, Goto
  <2>2. QED
    BY <1>1, <2>1
<1>5. ASSUME NEW c \in Call, Request(p, c)
      PROVE  CallOnRecord(log', pc'[p], current'[p]) /\ executed' = executed
  <2> DEFINE request == <<run[p], seq[p]>>
             body == [request |-> request, call |-> c]
             n == Len(log) + 1
  <2>1. Emit(p, "tool.request", body)
    BY <1>5 DEF Request
  <2>2. Adds(log', log, Stamped(run[p], seq[p], "tool.request", body))
    BY <2>1, EmitAdds
  <2>3. n \in DOMAIN log' /\ log'[n] = Stamped(run[p], seq[p], "tool.request", body)
    BY <2>2 DEF Adds
  <2>4. log'[n].kind = "tool.request" /\ log'[n].body.request = request /\ log'[n].body.call = c
    BY <2>3, StampedFields
  <2>5. current' = [current EXCEPT ![p] = [NoCall EXCEPT !.call = c, !.request = request]]
    BY <1>5 DEF Request
  <2>6. current'[p].request = request /\ current'[p].call = c
    BY <1>0, <2>5 DEF NoCall
  <2>7. pc'[p] = "deciding" /\ executed' = executed
    BY <1>0, <1>5 DEF Request, Goto
  <2>8. RequestedOn(log', current'[p])
    BY <2>3, <2>4, <2>6 DEF RequestedOn
  <2>9. QED
    BY <2>7, <2>8 DEF CallOnRecord
<1>6. CASE MakeDecision(p)
  <2> DEFINE d == Decided(p)
             x == current[p]
             body == [request |-> x.request, call |-> x.call, cap |-> d.cap,
                      verdict |-> d.verdict, rule |-> d.rule, obligation |-> d.obligation]
             e == Stamped(run[p], seq[p], "policy.decision", body)
             n == Len(log) + 1
  <2>1. /\ Emit(p, "policy.decision", body)
        /\ current' = [current EXCEPT ![p].decision = d]
        /\ pc[p] = "deciding"
        /\ executed' = executed
        /\ Goto(p, CASE d.verdict = "deny"  -> "denied"
                     [] d.verdict = "hold"  -> "held"
                     [] d.verdict = "allow" -> "cleared")
    BY <1>6 DEF MakeDecision, At
  <2>2. d.verdict \in Actions
    BY DecidedType DEF DecisionType
  <2>3. e.kind = "policy.decision" /\ e.body = body
    BY StampedFields
  <2>4. Adds(log', log, e)
    BY <2>1, EmitAdds
  <2>5. body.request = x.request /\ body.call = x.call /\ body.verdict = d.verdict /\ body.rule = d.rule
    OBVIOUS
  <2>6. current'[p].request = x.request /\ current'[p].call = x.call /\ current'[p].decision = d
    BY <1>0, <2>1 DEF CallType
  <2>7. \/ d.verdict = "deny" /\ pc'[p] = "denied"
        \/ d.verdict = "hold" /\ pc'[p] = "held"
        \/ d.verdict = "allow" /\ pc'[p] = "cleared"
    BY <1>0, <2>1, <2>2 DEF Goto, Actions
  <2> HIDE DEF d, e, body
  <2>8. PICK r \in DOMAIN log : /\ log[r].kind = "tool.request"
                                /\ log[r].body.request = x.request
                                /\ log[r].body.call = x.call
    BY <1>0, <2>1 DEF CallOnRecord, RequestedOn
  <2>9. /\ r < n /\ r \in DOMAIN log' /\ log'[r] = log[r]
        /\ n \in DOMAIN log' /\ log'[n] = e
    BY <2>4 DEF Adds, Extends
  <2>10. DecisionFollows(log', current'[p], r, n)
    BY <2>3, <2>5, <2>6, <2>8, <2>9 DEF DecisionFollows
  <2>11. log'[n].body.verdict = d.verdict /\ log'[n].body.rule = d.rule
    BY <2>3, <2>5, <2>9
  <2>12. DecidedOn(log', current'[p])
    BY <2>6, <2>9, <2>10, <2>11 DEF DecidedOn
  <2>13. d.verdict = "allow" => ClearedOn(log', current'[p])
    BY <2>9, <2>10, <2>11 DEF ClearedOn
  <2>14. QED
    BY <2>1, <2>6, <2>7, <2>12, <2>13 DEF CallOnRecord
<1>7. CASE UseGrant(p)
  <2> DEFINE g == UsableGrant(p)
             approval == view[p][g].body
             x == current[p]
             body == [grant |-> approval.grant, call |-> x.call, rule |-> approval.rule,
                      request |-> x.request, approver |-> approval.approver]
             e == Stamped(run[p], seq[p], "approval.use", body)
             n == Len(log) + 1
  <2>1. /\ Emit(p, "approval.use", body)
        /\ current' = [current EXCEPT ![p].grant = approval.grant]
        /\ pc[p] = "held" /\ g # 0 /\ Goto(p, "cleared")
        /\ executed' = executed
    BY <1>7 DEF UseGrant, At
  <2>2. e.kind = "approval.use" /\ e.body = body
    BY StampedFields
  <2>3. Adds(log', log, e)
    BY <2>1, EmitAdds
  <2>4. body.grant = approval.grant /\ body.request = x.request
    OBVIOUS
  <2>5. current'[p].request = x.request /\ current'[p].call = x.call
    BY <1>0, <2>1 DEF CallType
  <2>6. /\ view[p][g].kind = "approval"
        /\ Usable(approval, x.call, x.decision.rule, Spent(view[p]))
        /\ \E j \in DOMAIN log : view[p][g] = log[j]
    BY <2>1, UsableGrantFound DEF Base
  <2>7. PICK a \in DOMAIN log : view[p][g] = log[a]
    BY <2>6
  <2>8. PICK r \in DOMAIN log, d \in DOMAIN log :
           /\ DecisionFollows(log, x, r, d)
           /\ log[d].body.verdict = "hold"
           /\ log[d].body.rule = x.decision.rule
    BY <1>0, <2>1 DEF CallOnRecord, DecidedOn
  <2> HIDE DEF e, body, g, n
  <2>9. /\ a < n /\ d < n /\ n \in DOMAIN log' /\ log'[n] = e
        /\ a \in DOMAIN log' /\ log'[a] = log[a]
        /\ d \in DOMAIN log' /\ log'[d] = log[d]
        /\ r \in DOMAIN log' /\ log'[r] = log[r]
    BY <2>3 DEF Adds, Extends, n
  <2>10. DecisionFollows(log', current'[p], r, d)
    BY <2>5, <2>8, <2>9 DEF DecisionFollows
  <2>11. GrantFollows(log', current'[p], d, a, n)
    BY <2>2, <2>4, <2>5, <2>6, <2>7, <2>8, <2>9 DEF GrantFollows, Usable
  <2>12. ClearedOn(log', current'[p])
    BY <2>8, <2>9, <2>10, <2>11 DEF ClearedOn
  <2>13. pc'[p] = "cleared"
    BY <1>0, <2>1 DEF Goto
  <2>14. QED
    BY <2>1, <2>12, <2>13 DEF CallOnRecord
<1>8. CASE Execute(p)
  <2>1. /\ pc[p] = "cleared" /\ pc'[p] = "done" /\ current' = current /\ log' = log
        /\ executed' = Append(executed, current[p])
    BY <1>0, <1>8 DEF Execute, Goto, At, logVars
  <2>2. QED
    BY <1>0, <2>1 DEF CallOnRecord
<1>9. QED
  BY <1>2, <1>3, <1>4, <1>5, <1>6, <1>7, <1>8 DEF BrokerStep, CallStep

LEMMA NextKeepsCallsOnRecord ==
    ASSUME Base, CallsOnRecord, [Next]_vars
    PROVE  CallsOnRecord'
<1>0. Base' /\ Extends(log', log)
  BY NextKeepsBase, NextExtends
<1>1. ASSUME NEW q \in Broker, SameCall(q)
      PROVE  CallOnRecord(log', pc'[q], current'[q])
  BY <1>0, <1>1, ExtendsKeeps DEF SameCall, CallsOnRecord, CallOnRecord
<1>2. \A i \in DOMAIN executed : ClearedOn(log', executed[i])
  BY <1>0, ExtendsKeeps DEF CallsOnRecord
<1>3. ASSUME NEW p \in Broker, BrokerStep(p)
      PROVE  CallsOnRecord'
  <2>1. /\ CallOnRecord(log', pc'[p], current'[p])
        /\ executed' = executed \/ (executed' = Append(executed, current[p]) /\ ClearedOn(log, current[p]))
    BY <1>0, <1>3, BrokerCallsOnRecord
  <2>2. \A q \in Broker : CallOnRecord(log', pc'[q], current'[q])
    BY <1>1, <1>3, <2>1, BrokerFrame
  <2>3. CASE executed' = executed
    BY <1>2, <2>2, <2>3 DEF CallsOnRecord
  <2>4. CASE executed' = Append(executed, current[p]) /\ ClearedOn(log, current[p])
    <3>1. Adds(Append(executed, current[p]), executed, current[p])
      BY AppendAdds DEF Base, Typed
    <3>2. ClearedOn(log', current[p])
      BY <1>0, <2>4, ExtendsKeeps
    <3>3. \A i \in DOMAIN executed' : ClearedOn(log', executed'[i])
      BY <1>2, <2>4, <3>1, <3>2, AddedIndex
    <3>4. QED
      BY <2>2, <3>3 DEF CallsOnRecord
  <2>5. QED
    BY <2>1, <2>3, <2>4
<1>4. CASE ~\E p \in Broker : BrokerStep(p)
  BY <1>1, <1>2, <1>4, OtherFrame DEF CallsOnRecord
<1>5. QED
  BY <1>3, <1>4

LEMMA InitCallsOnRecord == Init => CallsOnRecord
<1>1. Init => DOMAIN executed = {} /\ \A p \in Broker : pc[p] = "closed"
  BY NoEventsSeq DEF Init, BrokerInit
<1>2. QED
  BY <1>1 DEF CallsOnRecord, CallOnRecord

LEMMA OnRecordIsCleared == Base /\ CallsOnRecord => ExecutedWasCleared
<1> SUFFICES ASSUME Base, CallsOnRecord, NEW i \in DOMAIN executed
             PROVE  LET x == executed[i]
                    IN  \E r \in RequestOf(x.request), d \in DecisionOf(x.request) :
                            /\ r < d
                            /\ log[r].body.call = x.call
                            /\ log[d].body.call = x.call
                            /\ \/ log[d].body.verdict = "allow"
                               \/ /\ log[d].body.verdict = "hold"
                                  /\ \E a \in OfKind(log, "approval"), u \in OfKind(log, "approval.use") :
                                        /\ a < u /\ d < u
                                        /\ log[u].body.request = x.request
                                        /\ Approves(a, log[u].body.grant, x.call, log[d].body.rule)
  BY DEF ExecutedWasCleared
<1> DEFINE x == executed[i]
<1>1. PICK r \in DOMAIN log, d \in DOMAIN log :
           /\ DecisionFollows(log, x, r, d)
           /\ \/ log[d].body.verdict = "allow"
              \/ /\ log[d].body.verdict = "hold"
                 /\ \E a, u \in DOMAIN log : GrantFollows(log, x, d, a, u)
  BY DEF CallsOnRecord, ClearedOn
<1> HIDE DEF x
<1>2. r \in RequestOf(x.request) /\ d \in DecisionOf(x.request)
  BY <1>1 DEF DecisionFollows, RequestOf, DecisionOf, OfKind
<1>3. r < d /\ log[r].body.call = x.call /\ log[d].body.call = x.call
  BY <1>1 DEF DecisionFollows
<1>4. (\E a, u \in DOMAIN log : GrantFollows(log, x, d, a, u)) =>
          \E a \in OfKind(log, "approval"), u \in OfKind(log, "approval.use") :
              /\ a < u /\ d < u
              /\ log[u].body.request = x.request
              /\ Approves(a, log[u].body.grant, x.call, log[d].body.rule)
  BY DEF GrantFollows, Approves, OfKind
<1>5. QED
  BY <1>1, <1>2, <1>3, <1>4 DEF x

\* Nothing runs that the ledger does not already show cleared: its request,
\* then an allow of it, or a hold and the use of a permitted approver's grant
\* for that call and rule.  For any number of brokers at once, whatever else
\* goes on and whatever payloads expire.
THEOREM RunsAreCleared == Spec => []ExecutedWasCleared
<1>1. Init => Base /\ CallsOnRecord
  BY InitBase, InitCallsOnRecord
<1>2. Base /\ CallsOnRecord /\ [Next]_vars => (Base /\ CallsOnRecord)'
  BY NextKeepsBase, NextKeepsCallsOnRecord
<1>3. QED
  BY <1>1, <1>2, OnRecordIsCleared, PTL DEF Spec


-----------------------------------------------------------------------------
(* What the steps of others come to, as a broker sees it *)

\* A step of a process leaves what the others have in memory alone.
LEMMA LogStepFrame ==
    ASSUME Base, NEW p \in Process, LogStep(p)
    PROVE  /\ \A q \in Process : q # p => view'[q] = view[q] /\ seq'[q] = seq[q]
           /\ clock' \in Nat /\ clock \in Nat /\ clock <= clock'
<1>1. /\ view = [q \in Process |-> view[q]]
      /\ seq = [q \in Process |-> seq[q]]
      /\ clock \in Nat
  BY EventLogAssumption DEF Base, Logged, ViewsOK, RunsOK
<1>2. ASSUME NEW kinds, NEW body, OpenRun(p, kinds, body)
      PROVE  /\ \A q \in Process : q # p => view'[q] = view[q] /\ seq'[q] = seq[q]
             /\ clock' = clock + 1
  <2>1. PICK v : view' = [view EXCEPT ![p] = v]
    BY <1>2 DEF OpenRun
  <2>2. PICK n : seq' = [seq EXCEPT ![p] = n]
    BY <1>2 DEF OpenRun
  <2>3. clock' = clock + 1
    BY <1>2 DEF OpenRun
  <2>4. QED
    BY <1>1, <2>1, <2>2, <2>3
<1>3. ASSUME NEW kind, NEW body, Emit(p, kind, body)
      PROVE  /\ \A q \in Process : q # p => view'[q] = view[q] /\ seq'[q] = seq[q]
             /\ clock' = clock
  BY <1>1, <1>3 DEF Emit
<1>4. ASSUME Leave(p)
      PROVE  /\ \A q \in Process : q # p => view'[q] = view[q] /\ seq'[q] = seq[q]
             /\ clock' = clock
  BY <1>1, <1>4 DEF Leave
<1>5. QED
  BY <1>1, <1>2, <1>3, <1>4 DEF LogStep, Depart, logVars

\* The kinds of event only brokers append.
BrokerKinds ==
    {"tool.register", "tool.request", "tool.result", "policy.decision", "approval.use",
     "subagent.spawn"}

\* An event of somebody who is no broker: none of a run that a broker has open.
OthersEvent(e) ==
    /\ e.kind \notin BrokerKinds
    /\ \A q \in Broker : IsOpen(q) => e.run # run[q]
    /\ e.kind = "run.seal" => \E o \in Process \ Broker :
          IsOpen(o) /\ e.run = run[o] /\ e.body = [outcome |-> "complete", reviews |-> 0]

LEMMA OthersOwn ==
    ASSUME Base, NEW o \in Process \ Broker, IsOpen(o), NEW kind, kind \notin BrokerKinds, NEW body,
           kind = "run.seal" => body = [outcome |-> "complete", reviews |-> 0]
    PROVE  OthersEvent(Stamped(run[o], seq[o], kind, body))
<1> DEFINE e == Stamped(run[o], seq[o], kind, body)
<1>1. e.run = run[o] /\ e.kind = kind /\ e.body = body
  BY StampedFields
<1> HIDE DEF e
<1>2. \A q \in Broker : IsOpen(q) => run[o] # run[q]
  BY BrokerAssumption DEF Base, Logged, RunsOK, IsOpen
<1>3. QED
  BY <1>1, <1>2 DEF OthersEvent, e

LEMMA OthersOpening ==
    ASSUME Base, NEW n, NEW body
    PROVE  OthersEvent(Stamped(clock + 1, n, "run.open", body))
<1> DEFINE e == Stamped(clock + 1, n, "run.open", body)
<1>1. e.run = clock + 1 /\ e.kind = "run.open"
  BY StampedFields
<1> HIDE DEF e
<1>2. \A q \in Broker : run[q] \in Nat /\ run[q] <= clock /\ clock \in Nat
  BY BrokerAssumption, EventLogAssumption DEF Base, Logged, RunsOK
<1>3. \A q \in Broker : clock + 1 # run[q]
  BY <1>2
<1>4. QED
  BY <1>1, <1>3 DEF OthersEvent, BrokerKinds, e

LEMMA ApproverAdds ==
    ASSUME Base, NEW p \in Approver, ApproverStep(p)
    PROVE  log' = log \/ \E e : OthersEvent(e) /\ Adds(log', log, e)
<1>0. p \in Process \ Broker /\ (pc[p] # "closed" => IsOpen(p))
  BY BrokerAssumption DEF Base, Control
<1>1. CASE StartApprove(p)
  <2>1. OpenRun(p, <<>>, <<>>)
    BY <1>1 DEF StartApprove
  <2>2. log' = log
    BY <2>1, OpenRunLogs DEF Base, Logged
  <2>3. QED
    BY <2>2
<1>2. ASSUME NEW r, NEW v, NEW who, Answer(p, r, v, who)
      PROVE  \E e : OthersEvent(e) /\ Adds(log', log, e)
  <2>1. PICK body : Emit(p, "approval", body)
    BY <1>2 DEF Answer
  <2>2. OthersEvent(Stamped(run[p], seq[p], "approval", body))
    BY <1>0, <1>2, OthersOwn DEF Answer, At, BrokerKinds
  <2>3. QED
    BY <2>1, <2>2, EmitAdds
<1>3. CASE SealApprove(p)
  <2> DEFINE body == [outcome |-> "complete", reviews |-> 0]
  <2>1. Depart(p, "run.seal", body)
    BY <1>3 DEF SealApprove, SealRun
  <2>2. OthersEvent(Stamped(run[p], seq[p], "run.seal", body))
    BY <1>0, <1>3, OthersOwn DEF SealApprove, At, BrokerKinds
  <2>3. QED
    BY <2>1, <2>2, DepartAdds
<1>4. CASE RefuseApprove(p) \/ KillApprove(p)
  BY <1>4 DEF RefuseApprove, KillApprove, Die, Exit
<1>5. QED
  BY <1>1, <1>2, <1>3, <1>4 DEF ApproverStep

LEMMA OrchestratorAdds ==
    ASSUME Base, NEW o \in Orchestrators, OrchestratorStep(o)
    PROVE  log' = log \/ \E e : OthersEvent(e) /\ Adds(log', log, e)
<1>0. o \in Process \ Broker /\ (stage[o] # "closed" => IsOpen(o))
  BY OrchestratorAssumption, HarnessAssumption DEF Base, Control
<1>1. ASSUME NEW cap, StartStep(o, cap)
      PROVE  \E e : OthersEvent(e) /\ Adds(log', log, e)
  <2> DEFINE body == [workload |-> "orchestrate"]
             e == Stamped(clock + 1, 0, "run.open", body)
  <2>1. OpenRun(o, <<"run.open">>, body)
    BY <1>1 DEF StartStep
  <2>2. log' = Append(log, e)
    BY <2>1, OpenRunLogs DEF Base, Logged
  <2>3. Adds(log', log, e)
    BY <2>2, BaseLog, AppendAdds
  <2>4. OthersEvent(e)
    BY OthersOpening
  <2>5. QED
    BY <2>3, <2>4
<1>2. ASSUME NEW kind \in {"sensor.verdict", "capability.run", "rung.change", "approval"}, NEW body,
             Emit(o, kind, body), stage[o] # "closed"
      PROVE  \E e : OthersEvent(e) /\ Adds(log', log, e)
  <2>1. OthersEvent(Stamped(run[o], seq[o], kind, body))
    BY <1>0, <1>2, OthersOwn DEF BrokerKinds
  <2>2. QED
    BY <1>2, <2>1, EmitAdds
<1>3. CASE \/ \E verdict \in {"pass", "fail"} : Sense(o, verdict)
           \/ RecordFailure(o) \/ RecordClean(o) \/ DemoteOnFailure(o) \/ Promote(o)
           \/ \E who \in Identity : ApprovePromotion(o, who)
  <2>1. stage[o] # "closed"
    BY <1>3 DEF Sense, RecordFailure, RecordClean, DemoteOnFailure, Promote, ApprovePromotion
  <2>2. \E kind \in {"sensor.verdict", "capability.run", "rung.change", "approval"} :
           \E body : Emit(o, kind, body)
    BY <1>3 DEF Sense, RecordFailure, RecordClean, RecordRun, DemoteOnFailure, Promote, ApprovePromotion
  <2>3. QED
    BY <1>2, <2>1, <2>2
<1>4. CASE SealStep(o)
  <2> DEFINE body == [outcome |-> "complete", reviews |-> 0]
  <2>1. Depart(o, "run.seal", body) /\ stage[o] # "closed"
    BY <1>4 DEF SealStep, SealRun
  <2>2. OthersEvent(Stamped(run[o], seq[o], "run.seal", body))
    BY <1>0, <2>1, OthersOwn DEF BrokerKinds
  <2>3. QED
    BY <2>1, <2>2, DepartAdds
<1>5. CASE FailStep(o) \/ KillStep(o)
  BY <1>5 DEF FailStep, KillStep, Die, Exit
<1>6. QED
  BY <1>1, <1>3, <1>4, <1>5 DEF OrchestratorStep

\* A step of no broker adds at most such an event, and leaves the memory of the
\* brokers as it was.
LEMMA OthersAdd ==
    ASSUME Base, [Next]_vars, ~\E p \in Broker : BrokerStep(p)
    PROVE  /\ log' = log \/ \E e : OthersEvent(e) /\ Adds(log', log, e)
           /\ \A q \in Broker : view'[q] = view[q] /\ seq'[q] = seq[q]
           /\ clock' \in Nat /\ clock \in Nat /\ clock <= clock'
<1>0. /\ Broker \subseteq Process /\ clock \in Nat
      /\ \A p \in Approver : p \in Process \ Broker
      /\ \A o \in Orchestrators : o \in Process \ Broker
  BY BrokerAssumption, OrchestratorAssumption, HarnessAssumption, EventLogAssumption
     DEF Base, Logged, RunsOK
<1>1. ASSUME NEW p \in Approver, ApproverStep(p)
      PROVE  /\ log' = log \/ \E e : OthersEvent(e) /\ Adds(log', log, e)
             /\ \A q \in Broker : view'[q] = view[q] /\ seq'[q] = seq[q]
             /\ clock' \in Nat /\ clock \in Nat /\ clock <= clock'
  <2>1. LogStep(p)
    BY <1>1, ApproverLogSteps DEF Base
  <2>2. QED
    BY <1>0, <1>1, <2>1, ApproverAdds, LogStepFrame
<1>2. ASSUME NEW o \in Orchestrators, OrchestratorStep(o)
      PROVE  /\ log' = log \/ \E e : OthersEvent(e) /\ Adds(log', log, e)
             /\ \A q \in Broker : view'[q] = view[q] /\ seq'[q] = seq[q]
             /\ clock' \in Nat /\ clock \in Nat /\ clock <= clock'
  <2>1. LogStep(o)
    BY <1>2, OrchestratorLogSteps DEF Base
  <2>2. QED
    BY <1>0, <1>2, <2>1, OrchestratorAdds, LogStepFrame
<1>3. ASSUME NEW i \in DOMAIN log, Expire(i)
      PROVE  /\ \E e : OthersEvent(e) /\ Adds(log', log, e)
             /\ view' = view /\ seq' = seq /\ clock' = clock
  <2> DEFINE e == Stamped(NoRun, 0, "retention.expire", [event |-> i])
  <2>1. e.kind = "retention.expire" /\ e.run = NoRun
    BY StampedFields
  <2>2. log' = Append(log, e) /\ view' = view /\ seq' = seq /\ clock' = clock
    BY <1>3 DEF Expire
  <2> HIDE DEF e
  <2>3. OthersEvent(e)
    BY <2>1 DEF OthersEvent, BrokerKinds, IsOpen
  <2>4. QED
    BY <2>2, <2>3, BaseLog, AppendAdds
<1>4. CASE UNCHANGED vars
  BY <1>0, <1>4 DEF vars, logVars
<1>5. QED
  BY <1>0, <1>1, <1>2, <1>3, <1>4 DEF Next, BrokerNext, OrchestratorNext

-----------------------------------------------------------------------------
(* A grant is used once *)

\* Brokers do not overlap, and no use of a grant is forgotten.
OneBroker ==
    /\ OneAtATime \/ \A p, q \in Broker : p = q
    /\ "approval.use" \notin Expirable

Alone == \A p, q \in Broker : IsOpen(p) /\ IsOpen(q) => p = q

LEMMA NextKeepsAlone ==
    ASSUME OneBroker, Base, Alone, [Next]_vars
    PROVE  Alone'
<1>0. Broker \subseteq Process
  BY BrokerAssumption
<1>1. ASSUME NEW p \in Broker, BrokerStep(p)
      PROVE  Alone'
  <2>1. \A q \in Broker : q # p => run'[q] = run[q]
    BY <1>1, BrokerFrame DEF SameCall
  <2>2. CASE IsOpen(p) \/ ~IsOpen(p)'
    BY <2>1, <2>2 DEF Alone, IsOpen
  <2>3. CASE ~IsOpen(p) /\ IsOpen(p)'
    <3>1. pc[p] = "closed"
      BY <2>3 DEF Base, Control
    <3>2. StartBroker(p)
      <4>1. ~KillBroker(p)
        BY <2>3 DEF KillBroker, Die, Exit
      <4>2. QED
        BY <3>1, <4>1, <1>1
           DEF BrokerStep, CallStep, Register, DelegateScope, Request, MakeDecision, Demote, Refuse,
               Block, UseGrant, RefuseCredential, Execute, FailToExecute, Finish, SealBroker, At
    <3>3. OneAtATime => \A q \in Process : ~IsOpen(q)
      BY <3>2 DEF StartBroker, OpenRun
    <3>4. QED
      BY <1>0, <2>1, <3>3 DEF Alone, IsOpen, OneBroker
  <2>4. QED
    BY <2>2, <2>3
<1>2. CASE ~\E p \in Broker : BrokerStep(p)
  BY <1>2, OtherFrame DEF Alone, IsOpen, SameCall
<1>3. QED
  BY <1>1, <1>2

\* The grants a log says are spent, when it grows.
LEMMA SpentAdds ==
    ASSUME NEW s, NEW t, NEW e, Adds(t, s, e)
    PROVE  /\ Spent(s) \subseteq Spent(t)
           /\ e.kind = "approval.use" => Spent(t) = Spent(s) \cup {e.body.grant}
           /\ e.kind # "approval.use" => Spent(t) = Spent(s)
<1>1. /\ \A i \in DOMAIN s : i \in DOMAIN t /\ t[i] = s[i]
      /\ Len(s) + 1 \in DOMAIN t /\ t[Len(s) + 1] = e
  BY DEF Adds, Extends
<1>2. \A i \in DOMAIN t : i \in DOMAIN s \/ i = Len(s) + 1
  BY AddedIndex
<1>3. Spent(s) \subseteq Spent(t)
  BY <1>1 DEF Spent, OfKind
<1>4. Spent(t) \subseteq Spent(s) \cup IF e.kind = "approval.use" THEN {e.body.grant} ELSE {}
  BY <1>1, <1>2 DEF Spent, OfKind
<1>5. e.kind = "approval.use" => e.body.grant \in Spent(t)
  BY <1>1 DEF Spent, OfKind
<1>6. QED
  BY <1>3, <1>4, <1>5

LEMMA SpentExtends ==
    ASSUME NEW s, NEW t, Extends(t, s)
    PROVE  Spent(s) \subseteq Spent(t)
BY DEF Spent, OfKind, Extends

\* Nothing else has the fields of an approval.use.
LEMMA UseFields ==
    ASSUME NEW kind \in EventKinds, Fields(kind) = Fields("approval.use")
    PROVE  kind = "approval.use"
<1>1. Fields("approval.use") = {"grant", "call", "rule", "request", "approver"}
  BY DEF Fields
<1>2. "grant" \in Fields(kind) /\ "verdict" \notin Fields(kind)
  BY <1>1
<1>3. QED
  BY <1>2 DEF Fields, EventKinds

\* Who opens the ledger reads of every grant that was used.
LEMMA OpeningReadsSpent ==
    ASSUME OneBroker, LogOK
    PROVE  Spent(log) \subseteq Spent(Readable(log))
<1> SUFFICES ASSUME NEW i \in DOMAIN log, log[i].kind = "approval.use"
             PROVE  log[i].body.grant \in Spent(Readable(log))
  BY DEF Spent, OfKind
<1>1. IsEvent(log[i])
  BY DEF LogOK, EventsUpTo
<1>2. log[i].body \notin gone
  <2>1. SUFFICES ASSUME NEW j \in DOMAIN log, log[j].kind \in Expirable, log[j].body = log[i].body
                 PROVE  FALSE
    BY DEF LogOK, ExpiredOf
  <2>2. IsEvent(log[j])
    BY DEF LogOK, EventsUpTo
  <2>3. Fields(log[j].kind) = Fields("approval.use") /\ log[j].kind \in EventKinds
    BY <1>1, <2>1, <2>2 DEF IsEvent
  <2>4. log[j].kind = "approval.use"
    BY <2>3, UseFields
  <2>5. QED
    BY <2>1, <2>4 DEF OneBroker
<1>3. Readable(log)[i] = log[i] /\ i \in DOMAIN Readable(log)
  BY <1>2, ReadingTheLog
<1>4. QED
  BY <1>3 DEF Spent, OfKind

\* Where a call is, the grant that clears it is spent, and no call ran on it.
GrantIsNew(s, ran, label, x) ==
    /\ label = "deciding" => x.grant = NoId
    /\ label = "cleared" /\ x.grant # NoId =>
          x.grant \in Spent(s) /\ \A i \in DOMAIN ran : ran[i].grant # x.grant

\* The grants calls ran on are spent, and different.
GrantsRanOnce(s, ran) ==
    \A i \in DOMAIN ran : ran[i].grant # NoId =>
        ran[i].grant \in Spent(s) /\ \A j \in DOMAIN ran : i # j => ran[i].grant # ran[j].grant

GrantsOnce ==
    /\ Alone
    /\ \A p \in Broker : IsOpen(p) => Spent(log) \subseteq Spent(view[p])
    /\ \A p \in Broker : GrantIsNew(log, executed, pc[p], current[p])
    /\ GrantsRanOnce(log, executed)

LEMMA GrowthKeepsOnce ==
    ASSUME NEW s, NEW t, Extends(t, s), NEW ran
    PROVE  /\ GrantsRanOnce(s, ran) => GrantsRanOnce(t, ran)
           /\ \A label, x : GrantIsNew(s, ran, label, x) => GrantIsNew(t, ran, label, x)
BY SpentExtends DEF GrantsRanOnce, GrantIsNew

\* What a broker has read of the grants that were used, after its step.
LEMMA BrokerSeesSpent ==
    ASSUME OneBroker, Base, Base', NEW p \in Broker, BrokerStep(p),
           IsOpen(p) => Spent(log) \subseteq Spent(view[p])
    PROVE  IsOpen(p)' => Spent(log') \subseteq Spent(view'[p])
<1>0. /\ p \in Process /\ IsSeq(log) /\ IsSeq(view[p]) /\ LogOK
      /\ view = [q \in Process |-> view[q]]
      /\ run \in [Process -> 0..MaxRuns]
  BY BrokerAssumption, BaseLog DEF Base, Logged, ViewsOK, RunsOK, ReadFrom
<1>1. ASSUME NEW kinds \in {<<>>, <<"run.open">>}, NEW body, OpenRun(p, kinds, body)
      PROVE  Spent(log') \subseteq Spent(view'[p])
  <2> DEFINE e == Stamped(clock + 1, 0, "run.open", body)
  <2>1. \/ log' = log /\ view' = [view EXCEPT ![p] = Readable(log)]
        \/ log' = Append(log, e) /\ view' = [view EXCEPT ![p] = Append(Readable(log), e)]
    BY <1>0, <1>1, OpenRunLogs
  <2>2. Spent(log) \subseteq Spent(Readable(log))
    BY <1>0, OpeningReadsSpent
  <2>3. e.kind = "run.open"
    BY StampedFields
  <2> HIDE DEF e
  <2>4. Adds(Append(log, e), log, e) /\ Adds(Append(Readable(log), e), Readable(log), e)
    BY <1>0, ReadingTheLog, AppendAdds
  <2>5. Spent(Append(log, e)) = Spent(log) /\ Spent(Append(Readable(log), e)) = Spent(Readable(log))
    BY <2>3, <2>4, SpentAdds
  <2>6. QED
    BY <1>0, <2>1, <2>2, <2>5
<1>2. ASSUME NEW kind, NEW body, Writes(p, kind, body), Emit(p, kind, body)
      PROVE  Spent(log') \subseteq Spent(view'[p])
  <2> DEFINE e == Stamped(run[p], seq[p], kind, body)
  <2>1. log' = Append(log, e) /\ view'[p] = Append(view[p], e)
    BY <1>0, <1>2 DEF Emit
  <2>2. Spent(log) \subseteq Spent(view[p])
    BY <1>2 DEF Writes
  <2> HIDE DEF e
  <2>3. Adds(Append(log, e), log, e) /\ Adds(Append(view[p], e), view[p], e)
    BY <1>0, AppendAdds
  <2>4. QED
    BY <2>1, <2>2, <2>3, SpentAdds
<1>3. Leave(p) => ~IsOpen(p)'
  BY <1>0 DEF Leave, IsOpen
<1>4. CASE UNCHANGED logVars
  BY <1>4 DEF logVars, IsOpen
<1>5. QED
  BY <1>1, <1>2, <1>3, <1>4, BrokerLogSteps DEF Base, LogStep, Depart

LEMMA BrokerUsesOnce ==
    ASSUME Base, GrantsOnce, NEW p \in Broker, BrokerStep(p), Extends(log', log)
    PROVE  /\ GrantIsNew(log', executed', pc'[p], current'[p])
           /\ GrantsRanOnce(log', executed')
           /\ executed' = executed \/ IsOpen(p)
<1>0. /\ pc = [q \in Broker \cup Approver |-> pc[q]]
      /\ pc[p] \in BrokerLabels
      /\ pc[p] = "closed" <=> ~IsOpen(p)
      /\ current \in [Broker -> CallType]
      /\ GrantIsNew(log, executed, pc[p], current[p])
      /\ GrantsRanOnce(log, executed)
  BY DEF Base, Control, Typed, GrantsOnce
<1>1. executed' = executed => GrantsRanOnce(log', executed')
  BY <1>0, GrowthKeepsOnce
<1>2. ASSUME pc'[p] \in {"closed", "ready", "denied", "refused"}, executed' = executed
      PROVE  GrantIsNew(log', executed', pc'[p], current'[p]) /\ executed' = executed
  BY <1>2 DEF GrantIsNew
<1>3. CASE StartBroker(p) \/ SealBroker(p) \/ KillBroker(p) \/ Demote(p)
  <2>1. pc'[p] \in {"closed", "ready", "denied", "refused"}
    BY <1>0, <1>3 DEF StartBroker, SealBroker, KillBroker, Demote, Goto, Close
  <2>2. executed' = executed
    BY <1>3 DEF StartBroker, SealBroker, KillBroker, Demote
  <2>3. QED
    BY <1>1, <1>2, <2>1, <2>2
<1>4. CASE \/ \E t \in Tool : Register(p, t)
           \/ \E s \in Scopes : DelegateScope(p, s)
  <2>1. pc'[p] = "ready" /\ executed' = executed
    BY <1>4 DEF Register, DelegateScope, At
  <2>2. QED
    BY <1>1, <1>2, <2>1
<1>5. CASE Refuse(p) \/ Block(p) \/ RefuseCredential(p) \/ FailToExecute(p) \/ Finish(p)
  <2>1. pc'[p] = "ready" /\ executed' = executed
    BY <1>0, <1>5 DEF Refuse, Block, RefuseCredential, FailToExecute, Finish, Result, Goto
  <2>2. QED
    BY <1>1, <1>2, <2>1
<1>6. ASSUME NEW c \in Call, Request(p, c)
      PROVE  GrantIsNew(log', executed', pc'[p], current'[p]) /\ executed' = executed
  <2>1. current' = [current EXCEPT ![p] = [NoCall EXCEPT !.call = c, !.request = <<run[p], seq[p]>>]]
    BY <1>6 DEF Request
  <2>2. current'[p].grant = NoId
    BY <1>0, <2>1 DEF NoCall
  <2>3. pc'[p] = "deciding" /\ executed' = executed
    BY <1>0, <1>6 DEF Request, Goto
  <2>4. QED
    BY <2>2, <2>3 DEF GrantIsNew
<1>7. CASE MakeDecision(p)
  <2>1. /\ current' = [current EXCEPT ![p].decision = Decided(p)]
        /\ pc[p] = "deciding"
        /\ executed' = executed
    BY <1>7 DEF MakeDecision, At
  <2>2. current'[p].grant = NoId
    BY <1>0, <2>1 DEF CallType, GrantIsNew
  <2>3. pc'[p] # "deciding" \/ current'[p].grant = NoId
    BY <2>2
  <2>4. QED
    BY <1>1, <2>1, <2>2 DEF GrantIsNew
<1>8. CASE UseGrant(p)
  <2> DEFINE approval == view[p][UsableGrant(p)].body
             body == [grant |-> approval.grant, call |-> current[p].call, rule |-> approval.rule,
                      request |-> current[p].request, approver |-> approval.approver]
             e == Stamped(run[p], seq[p], "approval.use", body)
  <2>1. /\ Emit(p, "approval.use", body)
        /\ current' = [current EXCEPT ![p].grant = approval.grant]
        /\ pc[p] = "held" /\ UsableGrant(p) # 0 /\ Goto(p, "cleared")
        /\ executed' = executed
    BY <1>8 DEF UseGrant, At
  <2>2. e.kind = "approval.use" /\ e.body = body /\ body.grant = approval.grant
    BY StampedFields
  <2>3. Adds(log', log, e)
    BY <2>1, EmitAdds
  <2>4. Usable(approval, current[p].call, current[p].decision.rule, Spent(view[p]))
    BY <2>1, UsableGrantFound DEF Base
  <2> HIDE DEF e, body, approval
  <2>5. current'[p].grant = approval.grant
    BY <1>0, <2>1 DEF CallType
  <2>6. approval.grant \in Spent(log')
    BY <2>2, <2>3, SpentAdds
  <2>7. approval.grant \notin Spent(log)
    BY <1>0, <2>1, <2>4 DEF Usable, GrantsOnce
  <2>8. approval.grant # NoId => \A i \in DOMAIN executed : executed[i].grant # approval.grant
    BY <1>0, <2>7 DEF GrantsRanOnce
  <2>9. pc'[p] = "cleared"
    BY <1>0, <2>1 DEF Goto
  <2>10. QED
    BY <1>1, <2>1, <2>5, <2>6, <2>8, <2>9 DEF GrantIsNew
<1>9. CASE Execute(p)
  <2>1. /\ pc[p] = "cleared" /\ pc'[p] = "done" /\ log' = log
        /\ executed' = Append(executed, current[p])
    BY <1>0, <1>9 DEF Execute, Goto, At, logVars
  <2>2. Adds(executed', executed, current[p])
    BY <2>1, AppendAdds DEF Base, Typed
  <2>3. \A i \in DOMAIN executed' :
           \/ i \in DOMAIN executed /\ executed'[i] = executed[i]
           \/ i = Len(executed) + 1 /\ executed'[i] = current[p]
    BY <2>2, AddedIndex
  <2>4. current[p].grant # NoId => /\ current[p].grant \in Spent(log)
                                   /\ \A i \in DOMAIN executed : executed[i].grant # current[p].grant
    BY <1>0, <2>1 DEF GrantIsNew
  <2>5. GrantsRanOnce(log', executed')
    BY <1>0, <2>1, <2>3, <2>4 DEF GrantsRanOnce
  <2>6. QED
    BY <1>0, <2>1, <2>5 DEF GrantIsNew
<1>10. QED
  BY <1>1, <1>3, <1>4, <1>5, <1>6, <1>7, <1>8, <1>9 DEF BrokerStep, CallStep

LEMMA NextKeepsGrantsOnce ==
    ASSUME OneBroker, Base, GrantsOnce, [Next]_vars
    PROVE  GrantsOnce'
<1>0. Base' /\ Extends(log', log) /\ Alone'
  BY NextKeepsBase, NextExtends, NextKeepsAlone DEF GrantsOnce
<1>1. ASSUME NEW p \in Broker, BrokerStep(p)
      PROVE  GrantsOnce'
  <2>1. /\ GrantIsNew(log', executed', pc'[p], current'[p])
        /\ GrantsRanOnce(log', executed')
        /\ executed' = executed \/ IsOpen(p)
    BY <1>0, <1>1, BrokerUsesOnce
  <2>2. IsOpen(p)' => Spent(log') \subseteq Spent(view'[p])
    BY <1>0, <1>1, BrokerSeesSpent DEF GrantsOnce
  <2>3. ASSUME NEW q \in Broker, q # p
        PROVE  GrantIsNew(log', executed', pc'[q], current'[q])
    <3>1. SameCall(q) /\ GrantIsNew(log, executed, pc[q], current[q])
      BY <1>1, <2>3, BrokerFrame DEF GrantsOnce
    <3>2. CASE executed' = executed
      BY <1>0, <3>1, <3>2, GrowthKeepsOnce DEF SameCall
    <3>3. CASE IsOpen(p)
      <4>1. pc[q] = "closed"
        BY <2>3, <3>3 DEF GrantsOnce, Alone, Base, Control
      <4>2. QED
        BY <3>1, <4>1 DEF SameCall, GrantIsNew
    <3>4. QED
      BY <2>1, <3>2, <3>3
  <2>4. ASSUME NEW q \in Broker, q # p, IsOpen(q)'
        PROVE  Spent(log') \subseteq Spent(view'[q])
    <3>1. SameCall(q) /\ IsOpen(q)
      BY <1>1, <2>4, BrokerFrame DEF SameCall, IsOpen
    <3>2. pc[p] = "closed" /\ ~IsOpen(p)'
      BY <1>0, <2>4, <3>1 DEF GrantsOnce, Alone, Base, Control
    <3>3. KillBroker(p)
      <4>1. ~StartBroker(p)
        <5>1. ASSUME OpenRun(p, <<"run.open">>, [workload |-> "broker"])
              PROVE  FALSE
          BY <3>2, <5>1, RunMoves, BrokerAssumption DEF Base, IsOpen
        <5>2. QED
          BY <5>1 DEF StartBroker
      <4>2. QED
        BY <3>2, <4>1, <1>1
           DEF BrokerStep, CallStep, Register, DelegateScope, Request, MakeDecision, Demote, Refuse,
               Block, UseGrant, RefuseCredential, Execute, FailToExecute, Finish, SealBroker, At
    <3>4. QED
      BY <3>2, <3>3 DEF KillBroker, Die, Exit, Base, Control
  <2>5. QED
    BY <1>0, <2>1, <2>2, <2>3, <2>4 DEF GrantsOnce
<1>2. CASE ~\E p \in Broker : BrokerStep(p)
  <2>1. executed' = executed /\ \A q \in Broker : SameCall(q) /\ view'[q] = view[q]
    BY <1>2, OtherFrame, OthersAdd
  <2>2. Spent(log') = Spent(log)
    <3>1. log' = log \/ \E e : OthersEvent(e) /\ Adds(log', log, e)
      BY <1>2, OthersAdd
    <3>2. ASSUME NEW e, OthersEvent(e), Adds(log', log, e)
          PROVE  Spent(log') = Spent(log)
      <4>1. e.kind # "approval.use"
        BY <3>2 DEF OthersEvent, BrokerKinds
      <4>2. QED
        BY <3>2, <4>1, SpentAdds
    <3>3. QED
      BY <3>1, <3>2
  <2>3. QED
    BY <1>0, <2>1, <2>2, GrowthKeepsOnce DEF GrantsOnce, SameCall, IsOpen
<1>3. QED
  BY <1>1, <1>2

\* A grant clears one call and never a second, when brokers do not overlap and
\* no use of a grant expires: across kills and new runs, and whoever else is at
\* work on the ledger meanwhile.
THEOREM OneCallPerGrant == OneBroker /\ Spec => []GrantReleasesOneCall
<1>1. Init => Base /\ GrantsOnce
  <2> SUFFICES ASSUME Init PROVE Base /\ GrantsOnce
    OBVIOUS
  <2>1. Base /\ \A p \in Broker : ~IsOpen(p) /\ pc[p] = "closed"
    BY InitBase, BrokerAssumption DEF Init, BrokerInit, Base, Control
  <2>2. DOMAIN executed = {}
    BY NoEventsSeq DEF Init, BrokerInit
  <2>3. QED
    BY <2>1, <2>2 DEF GrantsOnce, Alone, GrantIsNew, GrantsRanOnce
<1>2. OneBroker /\ Base /\ GrantsOnce /\ [Next]_vars => (Base /\ GrantsOnce)'
  BY NextKeepsBase, NextKeepsGrantsOnce
<1>3. Base /\ GrantsOnce => GrantReleasesOneCall
  BY DEF GrantsOnce, GrantsRanOnce, GrantReleasesOneCall
<1>4. CASE OneBroker
  BY <1>1, <1>2, <1>3, <1>4, PTL DEF Spec
<1>5. QED
  BY <1>4


-----------------------------------------------------------------------------
(* A delegated run stays inside its grant *)

\* The grants a run puts on the record are what it is narrowed to.
Narrowed(s, id, granted) ==
    \A j \in DOMAIN s :
        s[j].kind = "subagent.spawn" /\ s[j].run = id => s[j].body.granted = granted

HasRequest(s, id) == \E r \in DOMAIN s : s[r].kind = "tool.request" /\ s[r].run = id

\* Where a call is, it is one of its run, and of a capability the run may use.
InScope(s, label, x, id, granted) ==
    /\ label \in {"deciding", "denied", "refused", "held", "cleared", "done"} =>
          x.request[1] = id /\ HasRequest(s, id)
    /\ label \in {"held", "cleared"} => x.decision.cap \in granted

RanInScope(s, x) ==
    /\ HasRequest(s, x.request[1])
    /\ \A j \in DOMAIN s :
          s[j].kind = "subagent.spawn" /\ s[j].run = x.request[1] =>
              x.decision.cap \in s[j].body.granted

ScopesKept ==
    /\ \A p \in Broker : IsOpen(p) => Narrowed(log, run[p], scope[p])
    /\ \A p \in Broker : InScope(log, pc[p], current[p], run[p], scope[p])
    /\ \A i \in DOMAIN executed : RanInScope(log, executed[i])

\* An event that delegates nothing changes none of this.
LEMMA GrowthKeepsScopes ==
    ASSUME NEW s, NEW t, NEW e, Adds(t, s, e)
    PROVE  /\ \A id : HasRequest(s, id) => HasRequest(t, id)
           /\ \A label, x, id, granted : InScope(s, label, x, id, granted) => InScope(t, label, x, id, granted)
           /\ \A id, granted : (e.kind = "subagent.spawn" => e.run # id) /\ Narrowed(s, id, granted) =>
                 Narrowed(t, id, granted)
           /\ \A x : (e.kind = "subagent.spawn" => e.run # x.request[1]) /\ RanInScope(s, x) => RanInScope(t, x)
<1>1. \A i \in DOMAIN s : i \in DOMAIN t /\ t[i] = s[i]
  BY DEF Adds, Extends
<1>2. \A i \in DOMAIN t : (i \in DOMAIN s /\ t[i] = s[i]) \/ t[i] = e
  BY AddedIndex
<1>3. \A id : HasRequest(s, id) => HasRequest(t, id)
  BY <1>1 DEF HasRequest
<1>4. \A label, x, id, granted : InScope(s, label, x, id, granted) => InScope(t, label, x, id, granted)
  BY <1>3 DEF InScope
<1>5. \A id, granted : (e.kind = "subagent.spawn" => e.run # id) /\ Narrowed(s, id, granted) =>
         Narrowed(t, id, granted)
  BY <1>2 DEF Narrowed
<1>6. \A x : (e.kind = "subagent.spawn" => e.run # x.request[1]) /\ RanInScope(s, x) => RanInScope(t, x)
  BY <1>2, <1>3 DEF RanInScope
<1>7. QED
  BY <1>3, <1>4, <1>5, <1>6

\* What a broker writes.
LEMMA BrokerAdds ==
    ASSUME Base, NEW p \in Broker, BrokerStep(p)
    PROVE  \/ log' = log
           \/ \E e : /\ Adds(log', log, e)
                     /\ e.run = run[p] /\ IsOpen(p)
                     /\ e.kind = "subagent.spawn" => \E granted \in Scopes : DelegateScope(p, granted)
           \/ \E e : Adds(log', log, e) /\ e.kind = "run.open" /\ e.run = clock + 1 /\ StartBroker(p)
<1>0. p \in Process /\ (pc[p] # "closed" => IsOpen(p))
  BY BrokerAssumption DEF Base, Control
<1>1. ASSUME NEW kind, NEW body, Emit(p, kind, body) \/ Depart(p, kind, body), pc[p] # "closed",
             kind = "subagent.spawn" => \E granted \in Scopes : DelegateScope(p, granted)
      PROVE  \E e : /\ Adds(log', log, e)
                    /\ e.run = run[p] /\ IsOpen(p)
                    /\ e.kind = "subagent.spawn" => \E granted \in Scopes : DelegateScope(p, granted)
  <2>1. Adds(log', log, Stamped(run[p], seq[p], kind, body))
    BY <1>1, EmitAdds, DepartAdds
  <2>2. Stamped(run[p], seq[p], kind, body).run = run[p] /\ Stamped(run[p], seq[p], kind, body).kind = kind
    BY StampedFields
  <2>3. QED
    BY <1>0, <1>1, <2>1, <2>2
<1>2. CASE StartBroker(p)
  <2> DEFINE body == [workload |-> "broker"]
             e == Stamped(clock + 1, 0, "run.open", body)
  <2>1. log' = Append(log, e)
    BY <1>2, OpenRunLogs DEF StartBroker, Base, Logged
  <2>2. e.run = clock + 1 /\ e.kind = "run.open"
    BY StampedFields
  <2>3. QED
    BY <1>2, <2>1, <2>2, BaseLog, AppendAdds
<1>3. ASSUME NEW granted \in Scopes, DelegateScope(p, granted)
      PROVE  \E e : /\ Adds(log', log, e)
                    /\ e.run = run[p] /\ IsOpen(p)
                    /\ e.kind = "subagent.spawn" => \E g \in Scopes : DelegateScope(p, g)
  BY <1>1, <1>3 DEF DelegateScope, At
<1>4. ASSUME NEW kind, kind # "subagent.spawn",
             \E body : Emit(p, kind, body) \/ Depart(p, kind, body), pc[p] # "closed"
      PROVE  \E e : /\ Adds(log', log, e)
                    /\ e.run = run[p] /\ IsOpen(p)
                    /\ e.kind = "subagent.spawn" => \E granted \in Scopes : DelegateScope(p, granted)
  BY <1>1, <1>4
<1>5. CASE \E t \in Tool : Register(p, t)
  BY <1>4, <1>5 DEF Register, At
<1>6. CASE \E c \in Call : Request(p, c)
  BY <1>4, <1>6 DEF Request, At
<1>7. CASE MakeDecision(p) \/ Demote(p) \/ UseGrant(p)
  BY <1>4, <1>7 DEF MakeDecision, Demote, UseGrant, At
<1>8. CASE Refuse(p) \/ Block(p) \/ RefuseCredential(p) \/ FailToExecute(p) \/ Finish(p)
  <2>1. pc[p] # "closed" /\ \E outcome : Result(p, outcome)
    BY <1>8 DEF Refuse, Block, RefuseCredential, FailToExecute, Finish, At
  <2>2. QED
    BY <1>4, <2>1 DEF Result
<1>9. CASE SealBroker(p)
  BY <1>4, <1>9 DEF SealBroker, SealRun, At
<1>10. CASE Execute(p) \/ KillBroker(p)
  BY <1>10 DEF Execute, KillBroker, Die, Exit, logVars
<1>11. QED
  BY <1>2, <1>3, <1>5, <1>6, <1>7, <1>8, <1>9, <1>10 DEF BrokerStep, CallStep

\* Where its step takes the call of a broker.
LEMMA BrokerCallInScope ==
    ASSUME Base, ScopesKept, NEW p \in Broker, BrokerStep(p), Extends(log', log)
    PROVE  /\ InScope(log', pc'[p], current'[p], run'[p], scope'[p])
           /\ \/ executed' = executed
              \/ /\ log' = log
                 /\ Adds(executed', executed, current[p])
                 /\ RanInScope(log, current[p])
<1>0. /\ pc = [q \in Broker \cup Approver |-> pc[q]]
      /\ pc[p] \in BrokerLabels
      /\ pc[p] = "closed" <=> ~IsOpen(p)
      /\ current \in [Broker -> CallType]
      /\ InScope(log, pc[p], current[p], run[p], scope[p])
      /\ IsOpen(p) => Narrowed(log, run[p], scope[p])
      /\ HasRequest(log, run[p]) => HasRequest(log', run[p])
      /\ p \in Process
  BY BrokerAssumption DEF Base, Control, Typed, ScopesKept, Extends, HasRequest
<1>1. ASSUME pc'[p] \in {"closed", "ready"}, executed' = executed
      PROVE  /\ InScope(log', pc'[p], current'[p], run'[p], scope'[p])
             /\ executed' = executed
  BY <1>1 DEF InScope
<1>2. ASSUME pc[p] \in {"deciding", "denied", "refused", "held", "cleared", "done"}, run'[p] = run[p],
             scope'[p] = scope[p], current'[p].request = current[p].request,
             pc'[p] \in {"held", "cleared"} => current'[p].decision.cap \in scope[p]
      PROVE  InScope(log', pc'[p], current'[p], run'[p], scope'[p])
  BY <1>0, <1>2 DEF InScope
<1>3. ASSUME NEW kind, NEW body, Emit(p, kind, body)
      PROVE  run'[p] = run[p]
  BY <1>0, <1>3, RunMoves DEF Base
<1>4. CASE StartBroker(p) \/ SealBroker(p) \/ KillBroker(p)
  <2>1. pc'[p] \in {"closed", "ready"}
    BY <1>0, <1>4 DEF StartBroker, SealBroker, KillBroker, Goto, Close
  <2>2. executed' = executed
    BY <1>4 DEF StartBroker, SealBroker, KillBroker
  <2>3. QED
    BY <1>1, <2>1, <2>2
<1>5. CASE \/ \E t \in Tool : Register(p, t)
           \/ \E s \in Scopes : DelegateScope(p, s)
  <2>1. pc'[p] = "ready" /\ executed' = executed
    BY <1>5 DEF Register, DelegateScope, At
  <2>2. QED
    BY <1>1, <2>1
<1>6. CASE Refuse(p) \/ Block(p) \/ RefuseCredential(p) \/ FailToExecute(p) \/ Finish(p)
  <2>1. pc'[p] = "ready" /\ executed' = executed
    BY <1>0, <1>6 DEF Refuse, Block, RefuseCredential, FailToExecute, Finish, Result, Goto
  <2>2. QED
    BY <1>1, <2>1
<1>7. ASSUME NEW c \in Call, Request(p, c)
      PROVE  InScope(log', pc'[p], current'[p], run'[p], scope'[p]) /\ executed' = executed
  <2> DEFINE id == <<run[p], seq[p]>>
             body == [request |-> id, call |-> c]
             n == Len(log) + 1
  <2>1. Emit(p, "tool.request", body)
    BY <1>7 DEF Request
  <2>2. n \in DOMAIN log' /\ log'[n] = Stamped(run[p], seq[p], "tool.request", body)
    BY <2>1, EmitAdds DEF Adds
  <2>3. log'[n].kind = "tool.request" /\ log'[n].run = run[p]
    BY <2>2, StampedFields
  <2>4. current' = [current EXCEPT ![p] = [NoCall EXCEPT !.call = c, !.request = id]]
    BY <1>7 DEF Request
  <2>5. current'[p].request[1] = run[p]
    BY <1>0, <2>4 DEF NoCall
  <2>6. pc'[p] = "deciding" /\ executed' = executed
    BY <1>0, <1>7 DEF Request, Goto
  <2>7. run'[p] = run[p]
    BY <1>3, <2>1
  <2>8. HasRequest(log', run[p])
    BY <2>2, <2>3 DEF HasRequest
  <2>9. QED
    BY <2>5, <2>6, <2>7, <2>8 DEF InScope
<1>8. CASE MakeDecision(p)
  <2> DEFINE d == Decided(p)
  <2>1. /\ current' = [current EXCEPT ![p].decision = d]
        /\ pc[p] = "deciding"
        /\ executed' = executed
        /\ scope' = scope
        /\ Goto(p, CASE d.verdict = "deny"  -> "denied"
                     [] d.verdict = "hold"  -> "held"
                     [] d.verdict = "allow" -> "cleared")
    BY <1>8 DEF MakeDecision, At
  <2>2. d.verdict \in Actions /\ (d.verdict # "deny" => d.cap \in scope[p])
    BY DecidedType DEF DecisionType
  <2>3. current'[p].request = current[p].request /\ current'[p].decision = d
    BY <1>0, <2>1 DEF CallType
  <2>4. pc'[p] = CASE d.verdict = "deny"  -> "denied"
                   [] d.verdict = "hold"  -> "held"
                   [] d.verdict = "allow" -> "cleared"
    BY <1>0, <2>1 DEF Goto
  <2>5. run'[p] = run[p]
    BY <1>3, <1>8 DEF MakeDecision
  <2> HIDE DEF d
  <2>6. pc'[p] \in {"held", "cleared"} => d.verdict # "deny"
    BY <2>2, <2>4 DEF Actions
  <2>7. QED
    BY <1>2, <2>1, <2>2, <2>3, <2>5, <2>6
<1>9. CASE Demote(p)
  <2>1. /\ pc[p] = "denied" /\ pc'[p] = "refused" /\ current' = current /\ scope' = scope
        /\ executed' = executed
    BY <1>0, <1>9 DEF Demote, Goto, At
  <2>2. run'[p] = run[p]
    BY <1>3, <1>9 DEF Demote
  <2>3. QED
    BY <1>2, <2>1, <2>2
<1>10. CASE UseGrant(p)
  <2>1. PICK g : current' = [current EXCEPT ![p].grant = g]
    BY <1>10 DEF UseGrant
  <2>2. /\ current'[p].request = current[p].request
        /\ current'[p].decision = current[p].decision
    BY <1>0, <2>1 DEF CallType
  <2>3. pc[p] = "held" /\ scope' = scope /\ executed' = executed
    BY <1>10 DEF UseGrant, At
  <2>4. run'[p] = run[p]
    BY <1>3, <1>10 DEF UseGrant
  <2>5. current[p].decision.cap \in scope[p]
    BY <1>0, <2>3 DEF InScope
  <2>6. QED
    BY <1>2, <2>2, <2>3, <2>4, <2>5
<1>11. CASE Execute(p)
  <2>1. /\ pc[p] = "cleared" /\ pc'[p] = "done" /\ UNCHANGED <<log, current, scope, run>>
        /\ executed' = Append(executed, current[p])
    BY <1>0, <1>11 DEF Execute, Goto, At, logVars
  <2>2. Adds(executed', executed, current[p])
    BY <2>1, AppendAdds DEF Base, Typed
  <2>3. /\ current[p].request[1] = run[p] /\ HasRequest(log, run[p])
        /\ current[p].decision.cap \in scope[p]
    BY <1>0, <2>1 DEF InScope
  <2>4. RanInScope(log, current[p])
    BY <1>0, <2>1, <2>3 DEF RanInScope, Narrowed
  <2>5. QED
    BY <1>2, <2>1, <2>2, <2>4
<1>12. QED
  BY <1>4, <1>5, <1>6, <1>7, <1>8, <1>9, <1>10, <1>11 DEF BrokerStep, CallStep

LEMMA BrokerScope ==
    ASSUME Base, NEW p \in Broker, BrokerStep(p), IsOpen(p)'
    PROVE  \/ StartBroker(p)
           \/ \E granted \in Scopes : DelegateScope(p, granted)
           \/ IsOpen(p) /\ run'[p] = run[p] /\ scope'[p] = scope[p]
<1>0. p \in Process /\ (pc[p] = "closed" <=> ~IsOpen(p))
  BY BrokerAssumption DEF Base, Control
<1>1. ASSUME NEW kind, NEW body, Emit(p, kind, body), scope' = scope
      PROVE  IsOpen(p) /\ run'[p] = run[p] /\ scope'[p] = scope[p]
  <2>1. run'[p] = run[p]
    BY <1>0, <1>1, RunMoves DEF Base
  <2>2. QED
    BY <1>1, <2>1 DEF IsOpen
<1>2. CASE Execute(p)
  BY <1>2 DEF Execute, logVars, IsOpen
<1>3. CASE SealBroker(p) \/ KillBroker(p)
  BY <1>0, <1>3, RunMoves DEF SealBroker, SealRun, KillBroker, Die, Exit, Base, IsOpen
<1>4. CASE Refuse(p) \/ Block(p) \/ RefuseCredential(p) \/ FailToExecute(p) \/ Finish(p)
  <2>1. scope' = scope /\ \E body : Emit(p, "tool.result", body)
    BY <1>4 DEF Refuse, Block, RefuseCredential, FailToExecute, Finish, Result
  <2>2. QED
    BY <1>1, <2>1
<1>5. CASE \/ \E t \in Tool : Register(p, t)
           \/ \E c \in Call : Request(p, c)
           \/ MakeDecision(p) \/ Demote(p) \/ UseGrant(p)
  <2>1. scope' = scope /\ \E kind, body : Emit(p, kind, body)
    BY <1>5 DEF Register, Request, MakeDecision, Demote, UseGrant
  <2>2. QED
    BY <1>1, <2>1
<1>6. QED
  BY <1>2, <1>3, <1>4, <1>5 DEF BrokerStep, CallStep

LEMMA BrokerKeepsScopes ==
    ASSUME Base, ScopesKept, NEW p \in Broker, BrokerStep(p), Extends(log', log)
    PROVE  ScopesKept'
<1>0. /\ p \in Process
      /\ \A q \in Broker : q # p => SameCall(q)
      /\ \A q \in Broker : IsOpen(q) /\ q # p /\ IsOpen(p) => run[q] # run[p]
  BY BrokerFrame, BrokerAssumption DEF Base, Logged, RunsOK, IsOpen
<1>1. /\ InScope(log', pc'[p], current'[p], run'[p], scope'[p])
      /\ \/ executed' = executed
         \/ log' = log /\ Adds(executed', executed, current[p]) /\ RanInScope(log, current[p])
  BY BrokerCallInScope
<1>2. ASSUME NEW e, Adds(log', log, e)
      PROVE  /\ executed' = executed
             /\ \A q \in Broker : q # p => InScope(log', pc'[q], current'[q], run'[q], scope'[q])
  <2>1. log' # log
    BY <1>2 DEF Adds
  <2>2. QED
    BY <1>0, <1>1, <1>2, <2>1, GrowthKeepsScopes DEF ScopesKept, SameCall
<1>3. ASSUME NEW e, Adds(log', log, e), e.kind = "subagent.spawn" => e.run = run[p] /\ IsOpen(p)
      PROVE  \A q \in Broker : q # p /\ IsOpen(q)' => Narrowed(log', run'[q], scope'[q])
  BY <1>0, <1>3, GrowthKeepsScopes DEF ScopesKept, SameCall, IsOpen
<1>4. CASE log' = log
  <2>1. ASSUME IsOpen(p)'
        PROVE  Narrowed(log', run'[p], scope'[p])
    <3>1. ~StartBroker(p)
      <4>1. ASSUME StartBroker(p)
            PROVE  Adds(log', log, Stamped(clock + 1, 0, "run.open", [workload |-> "broker"]))
        <5>1. log' = Append(log, Stamped(clock + 1, 0, "run.open", [workload |-> "broker"]))
          BY <4>1, OpenRunLogs DEF StartBroker, Base, Logged
        <5>2. QED
          BY <5>1, BaseLog, AppendAdds
      <4>2. QED
        BY <1>4, <4>1 DEF Adds
    <3>2. ~\E granted \in Scopes : DelegateScope(p, granted)
      <4>1. ASSUME NEW granted \in Scopes, DelegateScope(p, granted)
            PROVE  Adds(log', log, Stamped(run[p], seq[p], "subagent.spawn", [granted |-> granted]))
        BY <4>1, EmitAdds DEF DelegateScope
      <4>2. \A e : ~Adds(log', log, e)
        BY <1>4 DEF Adds
      <4>3. QED
        BY <4>1, <4>2
    <3>3. QED
      BY <1>4, <2>1, <3>1, <3>2, BrokerScope DEF ScopesKept
  <2>2. \A i \in DOMAIN executed' : RanInScope(log, executed'[i])
    <3>1. \A i \in DOMAIN executed : RanInScope(log, executed[i])
      BY DEF ScopesKept
    <3>2. CASE Adds(executed', executed, current[p]) /\ RanInScope(log, current[p])
      BY <3>1, <3>2, AddedIndex
    <3>3. QED
      BY <1>1, <3>1, <3>2
  <2>3. QED
    BY <1>0, <1>1, <1>4, <2>1, <2>2 DEF ScopesKept, SameCall, IsOpen
<1>5. ASSUME NEW e, Adds(log', log, e), e.run = run[p], IsOpen(p), e.kind # "subagent.spawn"
      PROVE  ScopesKept'
  <2>1. ASSUME IsOpen(p)'
        PROVE  Narrowed(log', run'[p], scope'[p])
    <3>1. ~StartBroker(p)
      BY <1>5 DEF StartBroker, OpenRun
    <3>2. ~\E granted \in Scopes : DelegateScope(p, granted)
      <4>1. SUFFICES ASSUME NEW granted, DelegateScope(p, granted)
                     PROVE  FALSE
        OBVIOUS
      <4>2. Adds(log', log, Stamped(run[p], seq[p], "subagent.spawn", [granted |-> granted]))
        BY <4>1, EmitAdds DEF DelegateScope
      <4>3. e.kind = "subagent.spawn"
        BY <4>2, <1>5, StampedFields DEF Adds
      <4>4. QED
        BY <4>3, <1>5
    <3>3. run'[p] = run[p] /\ scope'[p] = scope[p]
      BY <2>1, <3>1, <3>2, BrokerScope
    <3>4. QED
      BY <1>5, <3>3, GrowthKeepsScopes DEF ScopesKept
  <2>2. \A i \in DOMAIN executed : RanInScope(log', executed[i])
    BY <1>5, GrowthKeepsScopes DEF ScopesKept
  <2>3. QED
    BY <1>1, <1>2, <1>3, <1>5, <2>1, <2>2 DEF ScopesKept
<1>6. ASSUME NEW e, Adds(log', log, e), e.run = clock + 1, e.kind = "run.open", StartBroker(p)
      PROVE  ScopesKept'
  <2>1. run'[p] = clock + 1
    BY <1>0, <1>6, OpenRunLogs DEF StartBroker, Base, Logged, RunsOK
  <2>2. \A j \in DOMAIN log : log[j].run # clock + 1
    <3>1. \A j \in DOMAIN log : log[j].run \in Nat /\ log[j].run <= clock /\ clock \in Nat
      BY EventLogAssumption DEF Base, Logged, LogOK, EventsUpTo, RunsOK, IsEvent
    <3>2. QED
      BY <3>1
  <2>3. Narrowed(log', run'[p], scope'[p])
    <3>1. \A j \in DOMAIN log' : log'[j] = e \/ (j \in DOMAIN log /\ log'[j] = log[j])
      BY <1>6, AddedIndex
    <3>2. QED
      BY <1>6, <2>1, <2>2, <3>1 DEF Narrowed
  <2>4. \A i \in DOMAIN executed : RanInScope(log', executed[i])
    BY <1>6, GrowthKeepsScopes DEF ScopesKept
  <2>5. QED
    BY <1>1, <1>2, <1>3, <1>6, <2>3, <2>4 DEF ScopesKept
<1>7. ASSUME NEW granted \in Scopes, DelegateScope(p, granted)
      PROVE  ScopesKept'
  <2> DEFINE e == Stamped(run[p], seq[p], "subagent.spawn", [granted |-> granted])
  <2>1. /\ Adds(log', log, e)
        /\ scope' = [scope EXCEPT ![p] = granted]
        /\ At(p, "ready")
        /\ \A i \in DOMAIN view[p] :
              view[p][i].kind \in {"subagent.spawn", "tool.request"} => view[p][i].run # run[p]
    BY <1>7, EmitAdds DEF DelegateScope
  <2>2. e.kind = "subagent.spawn" /\ e.run = run[p] /\ e.body.granted = granted
    BY StampedFields
  <2> HIDE DEF e
  <2>3. IsOpen(p)
    BY <2>1 DEF At, Base, Control
  <2>4. run'[p] = run[p] /\ scope'[p] = granted
    BY <1>0, <1>7, <2>1, RunMoves DEF DelegateScope, Base, Typed
  <2>5. \A j \in DOMAIN log : log[j].kind \in {"subagent.spawn", "tool.request"} => log[j].run # run[p]
    BY <1>0, <2>1, <2>3 DEF Base, Logged, ViewsOK, HasRun
  <2>6. Narrowed(log', run'[p], scope'[p])
    <3>1. \A j \in DOMAIN log' : log'[j] = e \/ (j \in DOMAIN log /\ log'[j] = log[j])
      BY <2>1, AddedIndex
    <3>2. QED
      BY <2>2, <2>4, <2>5, <3>1 DEF Narrowed
  <2>7. ASSUME NEW i \in DOMAIN executed
        PROVE  RanInScope(log', executed[i])
    <3>1. RanInScope(log, executed[i])
      BY DEF ScopesKept
    <3>2. executed[i].request[1] # run[p]
      BY <2>5, <3>1 DEF RanInScope, HasRequest
    <3>3. QED
      BY <2>1, <2>2, <3>1, <3>2, GrowthKeepsScopes
  <2>8. QED
    BY <1>1, <1>2, <1>3, <2>1, <2>2, <2>3, <2>6, <2>7 DEF ScopesKept
<1>8. QED
  BY <1>4, <1>5, <1>6, <1>7, BrokerAdds

LEMMA NextKeepsScopes ==
    ASSUME Base, ScopesKept, [Next]_vars
    PROVE  ScopesKept'
<1>1. ASSUME NEW p \in Broker, BrokerStep(p)
      PROVE  ScopesKept'
  BY <1>1, BrokerKeepsScopes, NextExtends
<1>2. CASE ~\E p \in Broker : BrokerStep(p)
  <2>1. executed' = executed /\ \A q \in Broker : SameCall(q)
    BY <1>2, OtherFrame
  <2>2. ASSUME NEW e, OthersEvent(e), Adds(log', log, e)
        PROVE  ScopesKept'
    <3>1. e.kind # "subagent.spawn"
      BY <2>2 DEF OthersEvent, BrokerKinds
    <3>2. QED
      BY <2>1, <2>2, <3>1, GrowthKeepsScopes DEF ScopesKept, SameCall, IsOpen
  <2>3. log' = log => ScopesKept'
    BY <2>1 DEF ScopesKept, SameCall, IsOpen
  <2>4. QED
    BY <1>2, <2>2, <2>3, OthersAdd
<1>3. QED
  BY <1>1, <1>2

\* A run that was given a narrower grant runs nothing outside of it, whatever
\* the policy allows and whoever approves, in any run of any log.
THEOREM DelegationHolds == Spec => []DelegationNarrows
<1>1. Init => Base /\ ScopesKept
  <2> SUFFICES ASSUME Init PROVE Base /\ ScopesKept
    OBVIOUS
  <2>1. Base /\ \A p \in Broker : ~IsOpen(p) /\ pc[p] = "closed"
    BY InitBase, BrokerAssumption DEF Init, BrokerInit, Base, Control
  <2>2. DOMAIN executed = {}
    BY NoEventsSeq DEF Init, BrokerInit
  <2>3. QED
    BY <2>1, <2>2 DEF ScopesKept, InScope
<1>2. Base /\ ScopesKept /\ [Next]_vars => (Base /\ ScopesKept)'
  BY NextKeepsBase, NextKeepsScopes
<1>3. ScopesKept => DelegationNarrows
  BY DEF ScopesKept, RanInScope, DelegationNarrows, OfKind
<1>4. QED
  BY <1>1, <1>2, <1>3, PTL DEF Spec


-----------------------------------------------------------------------------
(* A sealed run accounts for itself *)

\* The events of a call that carry its request.
CallKinds == {"tool.request", "policy.decision", "tool.result"}

\* A request is named by its run and its number in it, and what is said of it
\* comes in the same run.
OwnIds(s) ==
    \A j \in DOMAIN s : s[j].kind \in CallKinds =>
        /\ s[j].body.request[1] = s[j].run
        /\ s[j].body.request[2] <= s[j].seq
        /\ s[j].body.request[2] \in Nat

SeqBelow(s, id, n) == \A j \in DOMAIN s : s[j].run = id => s[j].seq < n

Requests(s, id) == {r \in DOMAIN s : s[r].kind = "tool.request" /\ s[r].run = id}

Decisions(s, x) == {d \in DOMAIN s : s[d].kind = "policy.decision" /\ s[d].body.request = x}

Results(s, x) == {t \in DOMAIN s : s[t].kind = "tool.result" /\ s[t].body.request = x}

Owed(s, id) ==
    {d \in DOMAIN s : s[d].kind = "policy.decision" /\ s[d].run = id /\ s[d].body.obligation = "review"}

\* A request has its one decision and after it its one result.
Answered(s, r) ==
    \E d, t \in DOMAIN s :
        /\ r < d
        /\ d < t
        /\ Decisions(s, s[r].body.request) = {d}
        /\ Results(s, s[r].body.request) = {t}

AllAnswered(s, id) == \A r \in Requests(s, id) : Answered(s, r)

SealHolds(s, j) ==
    /\ \A r \in Requests(s, s[j].run) :
          Answered(s, r) /\ \A t \in Results(s, s[r].body.request) : t <= j
    /\ s[j].body.reviews = Cardinality(Owed(s, s[j].run))
    /\ s[j].body.outcome = "complete" => Owed(s, s[j].run) = {}

\* The call in progress is the one request of its run that has no result.
CallStands(s, label, x, id) ==
    /\ label = "ready" => AllAnswered(s, id)
    /\ label \in {"deciding", "denied", "refused", "held", "cleared", "done"} =>
          \E r \in Requests(s, id) :
              /\ s[r].body.request = x.request
              /\ \A q \in Requests(s, id) : q # r => Answered(s, q)
              /\ Results(s, x.request) = {}
              /\ label = "deciding" => Decisions(s, x.request) = {}
              /\ label # "deciding" => \E d \in DOMAIN s : r < d /\ Decisions(s, x.request) = {d}

ReviewsCounted(s, label, id, n) ==
    /\ label = "closed" => n = 0
    /\ label # "closed" => IsFiniteSet(Owed(s, id)) /\ n = Cardinality(Owed(s, id))

Accounts ==
    /\ OwnIds(log)
    /\ \A p \in Broker : IsOpen(p) => SeqBelow(log, run[p], seq[p])
    /\ \A p \in Broker : CallStands(log, pc[p], current[p], run[p])
    /\ \A p \in Broker : ReviewsCounted(log, pc[p], run[p], reviews[p])
    /\ \A j \in DOMAIN log, o \in Process \ Broker :
          log[j].kind \in CallKinds /\ IsOpen(o) => log[j].run # run[o]
    /\ \A j \in DOMAIN log : log[j].kind = "run.seal" =>
          SealHolds(log, j) /\ \A q \in Process : IsOpen(q) => log[j].run # run[q]

-----------------------------------------------------------------------------
\* An event that is none of a call, or one of another run, changes nothing of
\* what the log says of a run.
LEMMA GrowthKeepsRun ==
    ASSUME NEW s, NEW t, NEW e, Adds(t, s, e), OwnIds(s), NEW id,
           e.kind \in CallKinds => e.run # id /\ e.body.request[1] = e.run
    PROVE  /\ Requests(t, id) = Requests(s, id)
           /\ Owed(t, id) = Owed(s, id)
           /\ \A r \in Requests(s, id) : t[r] = s[r] /\ r \in DOMAIN s
           /\ \A x : x[1] = id => Decisions(t, x) = Decisions(s, x) /\ Results(t, x) = Results(s, x)
           /\ \A r \in Requests(s, id) : Answered(s, r) => Answered(t, r)
           /\ AllAnswered(s, id) => AllAnswered(t, id)
<1>1. \A i \in DOMAIN s : i \in DOMAIN t /\ t[i] = s[i]
  BY DEF Adds, Extends
<1>2. \A i \in DOMAIN t : (i \in DOMAIN s /\ t[i] = s[i]) \/ t[i] = e
  BY AddedIndex
<1>3. Requests(t, id) = Requests(s, id)
  BY <1>1, <1>2 DEF Requests, CallKinds
<1>4. Owed(t, id) = Owed(s, id)
  BY <1>1, <1>2 DEF Owed, CallKinds
<1>5. ASSUME NEW x, x[1] = id
      PROVE  Decisions(t, x) = Decisions(s, x) /\ Results(t, x) = Results(s, x)
  <2>1. e.kind \in CallKinds => e.body.request # x
    BY <1>5
  <2>2. QED
    BY <1>1, <1>2, <2>1 DEF Decisions, Results, CallKinds
<1>6. \A r \in Requests(s, id) : t[r] = s[r] /\ r \in DOMAIN s
  BY <1>1 DEF Requests
<1>7. ASSUME NEW r \in Requests(s, id), Answered(s, r)
      PROVE  Answered(t, r)
  <2>1. s[r].body.request[1] = id
    BY DEF OwnIds, Requests, CallKinds
  <2>2. QED
    BY <1>1, <1>5, <1>6, <1>7, <2>1 DEF Answered
<1>8. QED
  BY <1>3, <1>4, <1>5, <1>6, <1>7 DEF AllAnswered

LEMMA GrowthKeepsCall ==
    ASSUME NEW s, NEW t, NEW e, Adds(t, s, e), OwnIds(s), NEW id,
           e.kind \in CallKinds => e.run # id /\ e.body.request[1] = e.run,
           NEW label, NEW x, NEW n
    PROVE  /\ CallStands(s, label, x, id) => CallStands(t, label, x, id)
           /\ ReviewsCounted(s, label, id, n) => ReviewsCounted(t, label, id, n)
<1>1. /\ Requests(t, id) = Requests(s, id)
      /\ Owed(t, id) = Owed(s, id)
      /\ \A r \in Requests(s, id) : t[r] = s[r]
      /\ \A y : y[1] = id => Decisions(t, y) = Decisions(s, y) /\ Results(t, y) = Results(s, y)
      /\ \A r \in Requests(s, id) : Answered(s, r) => Answered(t, r)
      /\ AllAnswered(s, id) => AllAnswered(t, id)
  BY GrowthKeepsRun
<1>2. \A r \in Requests(s, id) : s[r].body.request[1] = id
  BY DEF OwnIds, Requests, CallKinds
<1>3. DOMAIN s \subseteq DOMAIN t
  BY DEF Adds, Extends
<1>4. ASSUME CallStands(s, label, x, id), label \in {"deciding", "denied", "refused", "held", "cleared", "done"}
      PROVE  CallStands(t, label, x, id)
  <2>1. PICK r \in Requests(s, id) :
              /\ s[r].body.request = x.request
              /\ \A q \in Requests(s, id) : q # r => Answered(s, q)
              /\ Results(s, x.request) = {}
              /\ label = "deciding" => Decisions(s, x.request) = {}
              /\ label # "deciding" => \E d \in DOMAIN s : r < d /\ Decisions(s, x.request) = {d}
    BY <1>4 DEF CallStands
  <2>2. x.request[1] = id
    BY <1>2, <2>1
  <2>3. Decisions(t, x.request) = Decisions(s, x.request) /\ Results(t, x.request) = Results(s, x.request)
    BY <1>1, <2>2
  <2>4. label # "deciding" => \E d \in DOMAIN t : r < d /\ Decisions(t, x.request) = {d}
    BY <1>3, <2>1, <2>3
  <2>5. QED
    BY <1>1, <1>4, <2>1, <2>3, <2>4 DEF CallStands
<1>5. CallStands(s, label, x, id) => CallStands(t, label, x, id)
  BY <1>1, <1>4 DEF CallStands
<1>6. QED
  BY <1>1, <1>5 DEF ReviewsCounted

LEMMA GrowthKeepsSeal ==
    ASSUME NEW s, NEW t, NEW e, Adds(t, s, e), OwnIds(s), NEW j \in DOMAIN s, SealHolds(s, j),
           e.kind \in CallKinds => e.run # s[j].run /\ e.body.request[1] = e.run
    PROVE  SealHolds(t, j)
<1> DEFINE id == s[j].run
<1>1. /\ Requests(t, id) = Requests(s, id)
      /\ Owed(t, id) = Owed(s, id)
      /\ \A r \in Requests(s, id) : t[r] = s[r]
      /\ \A y : y[1] = id => Decisions(t, y) = Decisions(s, y) /\ Results(t, y) = Results(s, y)
      /\ \A r \in Requests(s, id) : Answered(s, r) => Answered(t, r)
  BY GrowthKeepsRun
<1>2. \A r \in Requests(s, id) : s[r].body.request[1] = id
  BY DEF OwnIds, Requests, CallKinds
<1>3. t[j] = s[j]
  BY DEF Adds, Extends
<1>4. QED
  BY <1>1, <1>2, <1>3 DEF SealHolds

LEMMA OwnIdsAdds ==
    ASSUME NEW s, NEW t, NEW e, Adds(t, s, e), OwnIds(s),
           e.kind \in CallKinds => /\ e.body.request[1] = e.run
                                   /\ e.body.request[2] <= e.seq
                                   /\ e.body.request[2] \in Nat
    PROVE  OwnIds(t)
<1>1. \A i \in DOMAIN t : (i \in DOMAIN s /\ t[i] = s[i]) \/ t[i] = e
  BY AddedIndex
<1>2. QED
  BY <1>1 DEF OwnIds

LEMMA SeqBelowAdds ==
    ASSUME NEW s, NEW t, NEW e, Adds(t, s, e), \A j \in DOMAIN s : s[j].seq \in Nat,
           NEW id, NEW n \in Nat, SeqBelow(s, id, n)
    PROVE  /\ e.run # id => SeqBelow(t, id, n)
           /\ e.seq = n => SeqBelow(t, id, n + 1)
<1>1. \A i \in DOMAIN t : (i \in DOMAIN s /\ t[i] = s[i]) \/ t[i] = e
  BY AddedIndex
<1>2. \A j \in DOMAIN s : s[j].run = id => s[j].seq \in Nat /\ s[j].seq < n
  BY DEF SeqBelow
<1>3. \A j \in DOMAIN s : s[j].run = id => s[j].seq < n + 1
  BY <1>2
<1>4. QED
  BY <1>1, <1>2, <1>3 DEF SeqBelow

\* A run with one call at a time: its request, the decision on it, its result.
LEMMA RequestAdds ==
    ASSUME NEW s, NEW t, NEW e, Adds(t, s, e), OwnIds(s), NEW id, NEW n \in Nat, SeqBelow(s, id, n),
           \A j \in DOMAIN s : s[j].seq \in Nat,
           AllAnswered(s, id), e.kind = "tool.request", e.run = id, e.body.request = <<id, n>>,
           NEW x, x.request = <<id, n>>
    PROVE  CallStands(t, "deciding", x, id) /\ Owed(t, id) = Owed(s, id)
<1> DEFINE r == Len(s) + 1
<1>1. /\ \A i \in DOMAIN s : i \in DOMAIN t /\ t[i] = s[i]
      /\ r \in DOMAIN t /\ t[r] = e
  BY DEF Adds, Extends
<1>2. \A i \in DOMAIN t : (i \in DOMAIN s /\ t[i] = s[i]) \/ (i = r /\ t[i] = e)
  BY AddedIndex
<1> HIDE DEF r
<1>3. Owed(t, id) = Owed(s, id)
  BY <1>1, <1>2 DEF Owed
<1>4. \A y : Decisions(t, y) = Decisions(s, y) /\ Results(t, y) = Results(s, y)
  BY <1>1, <1>2 DEF Decisions, Results
<1>5. Decisions(s, <<id, n>>) = {} /\ Results(s, <<id, n>>) = {}
  <2>1. ASSUME NEW j \in DOMAIN s, s[j].kind \in CallKinds, s[j].body.request = <<id, n>>
        PROVE  FALSE
    <3>1. s[j].run = id /\ n <= s[j].seq /\ s[j].seq \in Nat
      BY <2>1 DEF OwnIds
    <3>2. s[j].seq < n
      BY <3>1 DEF SeqBelow
    <3>3. QED
      BY <3>1, <3>2
  <2>2. QED
    BY <2>1 DEF Decisions, Results, CallKinds
<1>6. r \in Requests(t, id) /\ t[r].body.request = x.request
  BY <1>1 DEF Requests
<1>7. ASSUME NEW q \in Requests(t, id), q # r
      PROVE  Answered(t, q)
  <2>1. q \in Requests(s, id) /\ t[q] = s[q]
    BY <1>2, <1>7 DEF Requests
  <2>2. Answered(s, q)
    BY <2>1 DEF AllAnswered
  <2>3. QED
    BY <1>1, <1>4, <2>1, <2>2 DEF Answered
<1>8. QED
  BY <1>3, <1>4, <1>5, <1>6, <1>7 DEF CallStands

LEMMA DecisionAdds ==
    ASSUME NEW s, NEW t, NEW e, Adds(t, s, e), OwnIds(s), NEW id, NEW x,
           CallStands(s, "deciding", x, id),
           e.kind = "policy.decision", e.run = id, e.body.request = x.request,
           NEW label \in {"denied", "held", "cleared"}
    PROVE  /\ CallStands(t, label, x, id)
           /\ e.body.obligation = "review" => Owed(t, id) = Owed(s, id) \cup {Len(s) + 1}
           /\ e.body.obligation # "review" => Owed(t, id) = Owed(s, id)
<1> DEFINE n == Len(s) + 1
<1>1. /\ \A i \in DOMAIN s : i \in DOMAIN t /\ t[i] = s[i] /\ i < n
      /\ n \in DOMAIN t /\ t[n] = e
  BY DEF Adds, Extends
<1>2. \A i \in DOMAIN t : (i \in DOMAIN s /\ t[i] = s[i]) \/ (i = n /\ t[i] = e)
  BY AddedIndex
<1>3. PICK r \in Requests(s, id) :
              /\ s[r].body.request = x.request
              /\ \A q \in Requests(s, id) : q # r => Answered(s, q)
              /\ Results(s, x.request) = {}
              /\ Decisions(s, x.request) = {}
  BY DEF CallStands
<1> HIDE DEF n
<1>4. Requests(t, id) = Requests(s, id) /\ \A q \in Requests(s, id) : t[q] = s[q] /\ q < n
  BY <1>1, <1>2 DEF Requests
<1>5. \A z : Results(t, z) = Results(s, z)
  BY <1>1, <1>2 DEF Results
<1>6. /\ Decisions(t, x.request) = {n}
      /\ \A z : z # x.request => Decisions(t, z) = Decisions(s, z)
  BY <1>1, <1>2, <1>3 DEF Decisions
<1>7. ASSUME NEW q \in Requests(s, id), Answered(s, q)
      PROVE  Answered(t, q)
  <2>1. s[q].body.request # x.request
    BY <1>3, <1>7 DEF Answered
  <2>2. QED
    BY <1>1, <1>4, <1>5, <1>6, <1>7, <2>1 DEF Answered
<1>8. CallStands(t, label, x, id)
  BY <1>1, <1>3, <1>4, <1>5, <1>6, <1>7 DEF CallStands
<1>9. /\ e.body.obligation = "review" => Owed(t, id) = Owed(s, id) \cup {n}
      /\ e.body.obligation # "review" => Owed(t, id) = Owed(s, id)
  BY <1>1, <1>2 DEF Owed
<1>10. QED
  BY <1>8, <1>9 DEF n

LEMMA ResultAdds ==
    ASSUME NEW s, NEW t, NEW e, Adds(t, s, e), OwnIds(s), NEW id, NEW x,
           NEW label \in {"denied", "refused", "held", "cleared", "done"},
           CallStands(s, label, x, id),
           e.kind = "tool.result", e.run = id, e.body.request = x.request
    PROVE  AllAnswered(t, id) /\ Owed(t, id) = Owed(s, id)
<1> DEFINE n == Len(s) + 1
<1>1. /\ \A i \in DOMAIN s : i \in DOMAIN t /\ t[i] = s[i] /\ i < n
      /\ n \in DOMAIN t /\ t[n] = e
  BY DEF Adds, Extends
<1>2. \A i \in DOMAIN t : (i \in DOMAIN s /\ t[i] = s[i]) \/ (i = n /\ t[i] = e)
  BY AddedIndex
<1>3. PICK r \in Requests(s, id) :
              /\ s[r].body.request = x.request
              /\ \A q \in Requests(s, id) : q # r => Answered(s, q)
              /\ Results(s, x.request) = {}
              /\ \E d \in DOMAIN s : r < d /\ Decisions(s, x.request) = {d}
  BY DEF CallStands
<1> HIDE DEF n
<1>4. Requests(t, id) = Requests(s, id) /\ \A q \in Requests(s, id) : t[q] = s[q]
  BY <1>1, <1>2 DEF Requests
<1>5. \A z : Decisions(t, z) = Decisions(s, z)
  BY <1>1, <1>2 DEF Decisions
<1>6. /\ Results(t, x.request) = {n}
      /\ \A z : z # x.request => Results(t, z) = Results(s, z)
  BY <1>1, <1>2, <1>3 DEF Results
<1>7. ASSUME NEW q \in Requests(s, id), q # r
      PROVE  Answered(t, q)
  <2>1. Answered(s, q) /\ s[q].body.request # x.request
    BY <1>3, <1>7 DEF Answered
  <2>2. QED
    BY <1>1, <1>4, <1>5, <1>6, <1>7, <2>1 DEF Answered
<1>8. Answered(t, r)
  BY <1>1, <1>3, <1>4, <1>5, <1>6 DEF Answered
<1>9. Owed(t, id) = Owed(s, id)
  BY <1>1, <1>2 DEF Owed
<1>10. QED
  BY <1>4, <1>7, <1>8, <1>9 DEF AllAnswered


LEMMA SealAdds ==
    ASSUME NEW s, NEW t, NEW e, Adds(t, s, e), OwnIds(s), NEW id, AllAnswered(s, id),
           e.kind = "run.seal", e.run = id, e.body.reviews = Cardinality(Owed(s, id)),
           e.body.outcome = "complete" => Owed(s, id) = {}
    PROVE  SealHolds(t, Len(s) + 1)
<1> DEFINE n == Len(s) + 1
<1>1. t[n] = e /\ n \in Nat /\ DOMAIN t = 1..n
  BY DEF Adds
<1>2. /\ Requests(t, id) = Requests(s, id)
      /\ Owed(t, id) = Owed(s, id)
      /\ AllAnswered(t, id)
  BY GrowthKeepsRun DEF CallKinds
<1> HIDE DEF n
<1>3. \A r \in Requests(t, id) : Answered(t, r) /\ \A i \in Results(t, t[r].body.request) : i <= n
  BY <1>1, <1>2 DEF AllAnswered, Results
<1>4. SealHolds(t, n)
  BY <1>1, <1>2, <1>3 DEF SealHolds
<1>5. QED
  BY <1>4 DEF n

-----------------------------------------------------------------------------
\* What a broker appends, and its counter with it.
LEMMA EmitFields ==
    ASSUME Base, NEW p \in Broker, NEW kind, NEW body, Emit(p, kind, body)
    PROVE  \E e : /\ Adds(log', log, e)
                  /\ e.kind = kind
                  /\ e.run = run[p]
                  /\ e.seq = seq[p]
                  /\ e.body = body
                  /\ run'[p] = run[p]
                  /\ seq'[p] = seq[p] + 1
<1> DEFINE e == Stamped(run[p], seq[p], kind, body)
<1>1. p \in Process /\ seq \in [Process -> Nat] /\ run \in [Process -> 0..MaxRuns]
  BY BrokerAssumption DEF Base, Logged, RunsOK
<1>2. Adds(log', log, e)
  BY EmitAdds
<1>3. e.kind = kind /\ e.run = run[p] /\ e.seq = seq[p] /\ e.body = body
  BY StampedFields
<1>4. run'[p] = run[p] /\ seq'[p] = seq[p] + 1
  BY <1>1 DEF Emit
<1>5. QED
  BY <1>2, <1>3, <1>4

\* An event a broker may leave on the log.
OwnEvent(p, e) ==
    /\ e.kind \in CallKinds \cup {"run.seal"} => e.run = run[p] /\ IsOpen(p)
    /\ e.kind \in CallKinds =>
          e.body.request[1] = e.run /\ e.body.request[2] <= e.seq /\ e.body.request[2] \in Nat
    /\ e.kind = "run.seal" => SealHolds(log', Len(log) + 1)

\* A broker after its step, as the accounts have it.
BrokerInOrder(p) ==
    /\ CallStands(log', pc'[p], current'[p], run'[p])
    /\ ReviewsCounted(log', pc'[p], run'[p], reviews'[p])
    /\ IsOpen(p)' => SeqBelow(log', run'[p], seq'[p])
    /\ log' = log \/ \E e : Adds(log', log, e) /\ OwnEvent(p, e)

LEMMA BrokerOpensInOrder ==
    ASSUME Base, Accounts, NEW p \in Broker, StartBroker(p)
    PROVE  BrokerInOrder(p)
<1> DEFINE e == Stamped(clock + 1, 0, "run.open", [workload |-> "broker"])
           id == clock + 1
<1>1. /\ p \in Process
      /\ pc = [q \in Broker \cup Approver |-> pc[q]]
      /\ ReviewsCounted(log, pc[p], run[p], reviews[p])
      /\ OwnIds(log)
      /\ run \in [Process -> 0..MaxRuns] /\ seq \in [Process -> Nat]
  BY BrokerAssumption DEF Base, Control, Logged, RunsOK, Accounts
<1>2. /\ log' = Append(log, e)
      /\ run'[p] = id
      /\ seq'[p] = 1
      /\ pc'[p] = "ready"
      /\ reviews'[p] = 0
  <2>1. At(p, "closed") /\ Goto(p, "ready") /\ reviews' = reviews
    BY DEF StartBroker
  <2>2. /\ run' = [run EXCEPT ![p] = id]
        /\ log' = Append(log, e)
        /\ seq' = [seq EXCEPT ![p] = 1]
    BY OpenRunLogs DEF StartBroker, Base, Logged
  <2>3. QED
    BY <1>1, <2>1, <2>2 DEF At, Goto, ReviewsCounted
<1>3. e.kind = "run.open" /\ e.run = id /\ e.seq = 0
  BY StampedFields
<1> HIDE DEF e
<1>4. Adds(log', log, e)
  BY <1>2, BaseLog, AppendAdds
<1>5. \A j \in DOMAIN log : log[j].run # id
  <2>1. \A j \in DOMAIN log : log[j].run \in Nat /\ log[j].run <= clock /\ clock \in Nat
    BY EventLogAssumption DEF Base, Logged, LogOK, EventsUpTo, RunsOK, IsEvent
  <2>2. QED
    BY <2>1
<1>6. Requests(log, id) = {} /\ Owed(log, id) = {}
  BY <1>5 DEF Requests, Owed
<1>7. Requests(log', id) = {} /\ Owed(log', id) = {}
  BY <1>1, <1>3, <1>4, <1>6, GrowthKeepsRun DEF CallKinds
<1>8. CallStands(log', "ready", current'[p], id)
  BY <1>7 DEF CallStands, AllAnswered
<1>9. ReviewsCounted(log', "ready", id, 0)
  BY <1>7, FS_EmptySet DEF ReviewsCounted
<1>10. SeqBelow(log', id, 1)
  <2>1. \A i \in DOMAIN log' : (i \in DOMAIN log /\ log'[i] = log[i]) \/ log'[i] = e
    BY <1>4, AddedIndex
  <2>2. QED
    BY <1>3, <1>5, <2>1 DEF SeqBelow
<1>11. OwnEvent(p, e)
  BY <1>3 DEF OwnEvent, CallKinds
<1>12. QED
  BY <1>2, <1>4, <1>8, <1>9, <1>10, <1>11 DEF BrokerInOrder

LEMMA BrokerLeavesInOrder ==
    ASSUME Base, Accounts, NEW p \in Broker, SealBroker(p) \/ KillBroker(p)
    PROVE  BrokerInOrder(p)
<1>1. p \in Process /\ pc = [q \in Broker \cup Approver |-> pc[q]] /\ reviews \in [Broker -> Nat]
  BY BrokerAssumption DEF Base, Control, Typed
<1>2. pc'[p] = "closed" /\ reviews'[p] = 0
  BY <1>1 DEF SealBroker, KillBroker, Close, Goto
<1>3. ~IsOpen(p)'
  BY <1>1, RunMoves DEF SealBroker, SealRun, KillBroker, Die, Exit, Base, IsOpen
<1>4. CASE KillBroker(p)
  BY <1>2, <1>3, <1>4 DEF BrokerInOrder, CallStands, ReviewsCounted, KillBroker, Die, Exit
<1>5. CASE SealBroker(p)
  <2> DEFINE outcome == IF reviews[p] > 0 /\ Outcome(p) = "complete"
                        THEN "complete-with-outstanding-review" ELSE Outcome(p)
             body == [outcome |-> outcome, reviews |-> reviews[p]]
             e == Stamped(run[p], seq[p], "run.seal", body)
  <2>1. At(p, "ready") /\ Depart(p, "run.seal", body)
    BY <1>5 DEF SealBroker, SealRun
  <2>2. Adds(log', log, e)
    BY <2>1, DepartAdds
  <2>3. e.kind = "run.seal" /\ e.run = run[p] /\ e.body = body
    BY StampedFields
  <2>4. body.reviews = reviews[p] /\ (body.outcome = "complete" => ~(reviews[p] > 0))
    OBVIOUS
  <2> HIDE DEF e, body
  <2>5. /\ OwnIds(log)
        /\ AllAnswered(log, run[p])
        /\ IsFiniteSet(Owed(log, run[p]))
        /\ reviews[p] = Cardinality(Owed(log, run[p]))
    BY <2>1 DEF Accounts, CallStands, ReviewsCounted, At
  <2>6. body.outcome = "complete" => Owed(log, run[p]) = {}
    <3>1. body.outcome = "complete" => reviews[p] = 0
      BY <1>1, <2>4
    <3>2. QED
      BY <2>5, <3>1, FS_EmptySet
  <2>7. SealHolds(log', Len(log) + 1)
    BY <2>2, <2>3, <2>4, <2>5, <2>6, SealAdds
  <2>8. IsOpen(p)
    BY <2>1 DEF At, Base, Control
  <2>9. OwnEvent(p, e)
    BY <2>3, <2>7, <2>8 DEF OwnEvent, CallKinds
  <2>10. QED
    BY <1>2, <1>3, <2>2, <2>9 DEF BrokerInOrder, CallStands, ReviewsCounted
<1>6. QED
  BY <1>4, <1>5


\* An event that is none of a call leaves the call where it was.
LEMMA BrokerNotesInOrder ==
    ASSUME Base, Accounts, NEW p \in Broker, pc[p] # "closed",
           NEW kind, kind \notin CallKinds \cup {"run.seal"}, NEW body, Emit(p, kind, body),
           NEW label \in BrokerLabels, pc'[p] = label,
           \/ label = pc[p]
           \/ pc[p] = "denied" /\ label = "refused"
           \/ pc[p] = "held" /\ label = "cleared",
           pc[p] # "ready" => current'[p].request = current[p].request, reviews'[p] = reviews[p]
    PROVE  BrokerInOrder(p)
<1>1. PICK e : /\ Adds(log', log, e)
               /\ e.kind = kind
               /\ e.run = run[p]
               /\ e.seq = seq[p]
               /\ e.body = body
               /\ run'[p] = run[p]
               /\ seq'[p] = seq[p] + 1
  BY EmitFields
<1>2. /\ IsOpen(p)
      /\ OwnIds(log)
      /\ SeqBelow(log, run[p], seq[p])
      /\ seq[p] \in Nat
      /\ \A j \in DOMAIN log : log[j].seq \in Nat
      /\ CallStands(log, pc[p], current[p], run[p])
      /\ ReviewsCounted(log, pc[p], run[p], reviews[p])
  BY BrokerAssumption DEF Base, Control, Logged, LogOK, EventsUpTo, RunsOK, IsEvent, Accounts
<1>3. SeqBelow(log', run'[p], seq'[p])
  BY <1>1, <1>2, SeqBelowAdds
<1>4. CallStands(log', pc[p], current[p], run[p]) /\ ReviewsCounted(log', pc[p], run[p], reviews[p])
  BY <1>1, <1>2, GrowthKeepsCall
<1>5. CallStands(log', label, current'[p], run[p])
  BY <1>4 DEF CallStands, BrokerLabels
<1>6. ReviewsCounted(log', label, run[p], reviews'[p])
  BY <1>4 DEF ReviewsCounted
<1>7. OwnEvent(p, e)
  BY <1>1, <1>2 DEF OwnEvent, CallKinds
<1>8. QED
  BY <1>1, <1>3, <1>5, <1>6, <1>7 DEF BrokerInOrder

\* What the number of a request is, by the time the call is decided.
LEMMA RequestNumber ==
    ASSUME Base, Accounts, NEW p \in Broker, pc[p] \notin {"closed", "ready"}
    PROVE  /\ current[p].request[1] = run[p]
           /\ current[p].request[2] <= seq[p]
           /\ current[p].request[2] \in Nat
<1>1. /\ pc[p] \in BrokerLabels
      /\ CallStands(log, pc[p], current[p], run[p])
      /\ IsOpen(p)
  BY DEF Base, Control, Accounts
<1>2. PICK r \in Requests(log, run[p]) : log[r].body.request = current[p].request
  BY <1>1 DEF CallStands, BrokerLabels
<1>3. r \in DOMAIN log /\ log[r].kind = "tool.request" /\ log[r].run = run[p]
  BY DEF Requests
<1>4. /\ current[p].request[1] = run[p]
      /\ current[p].request[2] <= log[r].seq
      /\ current[p].request[2] \in Nat
  BY <1>2, <1>3 DEF Accounts, OwnIds, CallKinds
<1>5. log[r].seq < seq[p]
  BY <1>1, <1>3 DEF Accounts, SeqBelow
<1>6. log[r].seq \in Nat /\ seq[p] \in Nat
  BY <1>3, BrokerAssumption DEF Base, Logged, LogOK, EventsUpTo, RunsOK, IsEvent
<1>7. QED
  BY <1>4, <1>5, <1>6

LEMMA BrokerRequestsInOrder ==
    ASSUME Base, Accounts, NEW p \in Broker, NEW c \in Call, Request(p, c)
    PROVE  BrokerInOrder(p)
<1> DEFINE id == <<run[p], seq[p]>>
           body == [request |-> id, call |-> c]
<1>1. /\ Emit(p, "tool.request", body)
      /\ current' = [current EXCEPT ![p] = [NoCall EXCEPT !.call = c, !.request = id]]
      /\ At(p, "ready") /\ Goto(p, "deciding")
      /\ reviews' = reviews
  BY DEF Request
<1>2. body.request = id
  OBVIOUS
<1> HIDE DEF body
<1>3. PICK e : /\ Adds(log', log, e)
               /\ e.kind = "tool.request"
               /\ e.run = run[p]
               /\ e.seq = seq[p]
               /\ e.body = body
               /\ run'[p] = run[p]
               /\ seq'[p] = seq[p] + 1
  BY <1>1, EmitFields
<1>4. /\ IsOpen(p)
      /\ OwnIds(log)
      /\ SeqBelow(log, run[p], seq[p])
      /\ seq[p] \in Nat
      /\ \A j \in DOMAIN log : log[j].seq \in Nat
      /\ AllAnswered(log, run[p])
      /\ ReviewsCounted(log, "ready", run[p], reviews[p])
  BY <1>1, BrokerAssumption
     DEF Base, Control, Logged, LogOK, EventsUpTo, RunsOK, IsEvent, Accounts, At, CallStands
<1>5. SeqBelow(log', run'[p], seq'[p])
  BY <1>3, <1>4, SeqBelowAdds
<1>6. pc'[p] = "deciding" /\ current'[p].request = id
  BY <1>1 DEF Goto, NoCall, Base, Control, Typed
<1>7. CallStands(log', "deciding", current'[p], run[p]) /\ Owed(log', run[p]) = Owed(log, run[p])
  BY <1>2, <1>3, <1>4, <1>6, RequestAdds
<1>8. ReviewsCounted(log', "deciding", run[p], reviews'[p])
  BY <1>1, <1>4, <1>7 DEF ReviewsCounted
<1>9. OwnEvent(p, e)
  BY <1>2, <1>3, <1>4 DEF OwnEvent, CallKinds
<1>10. QED
  BY <1>3, <1>5, <1>6, <1>7, <1>8, <1>9 DEF BrokerInOrder

LEMMA BrokerDecidesInOrder ==
    ASSUME Base, Accounts, NEW p \in Broker, MakeDecision(p)
    PROVE  BrokerInOrder(p)
<1> DEFINE d == Decided(p)
           body == [request |-> current[p].request, call |-> current[p].call, cap |-> d.cap,
                    verdict |-> d.verdict, rule |-> d.rule, obligation |-> d.obligation]
           label == CASE d.verdict = "deny"  -> "denied"
                      [] d.verdict = "hold"  -> "held"
                      [] d.verdict = "allow" -> "cleared"
<1>1. /\ Emit(p, "policy.decision", body)
      /\ current' = [current EXCEPT ![p].decision = d]
      /\ At(p, "deciding") /\ Goto(p, label)
      /\ reviews' = [reviews EXCEPT ![p] = IF d.obligation = "review" THEN reviews[p] + 1 ELSE reviews[p]]
  BY DEF MakeDecision
<1>2. body.request = current[p].request /\ body.obligation = d.obligation
  OBVIOUS
<1>3. label \in {"denied", "held", "cleared"}
  BY DecidedType DEF DecisionType, Actions
<1> HIDE DEF body, d, label
<1>4. PICK e : /\ Adds(log', log, e)
               /\ e.kind = "policy.decision"
               /\ e.run = run[p]
               /\ e.seq = seq[p]
               /\ e.body = body
               /\ run'[p] = run[p]
               /\ seq'[p] = seq[p] + 1
  BY <1>1, EmitFields
<1>5. /\ IsOpen(p)
      /\ OwnIds(log)
      /\ SeqBelow(log, run[p], seq[p])
      /\ seq[p] \in Nat /\ reviews[p] \in Nat
      /\ \A j \in DOMAIN log : log[j].seq \in Nat
      /\ CallStands(log, "deciding", current[p], run[p])
      /\ ReviewsCounted(log, "deciding", run[p], reviews[p])
  BY <1>1, BrokerAssumption
     DEF Base, Control, Typed, Logged, LogOK, EventsUpTo, RunsOK, IsEvent, Accounts, At
<1>6. SeqBelow(log', run'[p], seq'[p])
  BY <1>4, <1>5, SeqBelowAdds
<1>7. /\ pc'[p] = label /\ current'[p].request = current[p].request
      /\ reviews'[p] = IF d.obligation = "review" THEN reviews[p] + 1 ELSE reviews[p]
  BY <1>1 DEF Goto, Base, Control, Typed, CallType
<1>8. /\ CallStands(log', label, current'[p], run[p])
      /\ d.obligation = "review" => Owed(log', run[p]) = Owed(log, run[p]) \cup {Len(log) + 1}
      /\ d.obligation # "review" => Owed(log', run[p]) = Owed(log, run[p])
  <2>1. /\ Adds(log', log, e) /\ OwnIds(log) /\ CallStands(log, "deciding", current[p], run[p])
        /\ e.kind = "policy.decision" /\ e.run = run[p] /\ e.body.request = current[p].request
        /\ current'[p].request = current[p].request
    BY <1>2, <1>4, <1>5, <1>7
  <2>2. /\ CallStands(log', label, current[p], run[p])
        /\ e.body.obligation = "review" => Owed(log', run[p]) = Owed(log, run[p]) \cup {Len(log) + 1}
        /\ e.body.obligation # "review" => Owed(log', run[p]) = Owed(log, run[p])
    BY <1>3, <2>1, DecisionAdds
  <2>3. e.body.obligation = d.obligation
    BY <1>2, <1>4
  <2>4. CallStands(log', label, current'[p], run[p])
    BY <1>3, <2>1, <2>2 DEF CallStands
  <2>5. QED
    BY <2>2, <2>3, <2>4
<1>9. ReviewsCounted(log', label, run[p], reviews'[p])
  <2>1. IsFiniteSet(Owed(log, run[p])) /\ reviews[p] = Cardinality(Owed(log, run[p]))
    BY <1>5 DEF ReviewsCounted
  <2>2. Len(log) + 1 \notin Owed(log, run[p])
    BY <1>4 DEF Owed, Adds
  <2>3. /\ IsFiniteSet(Owed(log, run[p]) \cup {Len(log) + 1})
        /\ Cardinality(Owed(log, run[p]) \cup {Len(log) + 1}) = Cardinality(Owed(log, run[p])) + 1
    BY <2>1, <2>2, FS_AddElement
  <2>4. QED
    BY <1>3, <1>7, <1>8, <2>1, <2>3 DEF ReviewsCounted
<1>10. OwnEvent(p, e)
  <2>1. /\ current[p].request[1] = run[p]
        /\ current[p].request[2] <= seq[p]
        /\ current[p].request[2] \in Nat
    BY <1>1, RequestNumber DEF At
  <2>2. QED
    BY <1>2, <1>4, <1>5, <2>1 DEF OwnEvent, CallKinds
<1>11. QED
  BY <1>4, <1>6, <1>7, <1>8, <1>9, <1>10 DEF BrokerInOrder

LEMMA BrokerAnswersInOrder ==
    ASSUME Base, Accounts, NEW p \in Broker, NEW outcome, Result(p, outcome),
           pc[p] \in {"denied", "refused", "held", "cleared", "done"}
    PROVE  BrokerInOrder(p)
<1> DEFINE body == [request |-> current[p].request, outcome |-> outcome]
<1>1. /\ Emit(p, "tool.result", body)
      /\ Goto(p, "ready")
      /\ reviews' = reviews
  BY DEF Result
<1>2. body.request = current[p].request
  OBVIOUS
<1> HIDE DEF body
<1>3. PICK e : /\ Adds(log', log, e)
               /\ e.kind = "tool.result"
               /\ e.run = run[p]
               /\ e.seq = seq[p]
               /\ e.body = body
               /\ run'[p] = run[p]
               /\ seq'[p] = seq[p] + 1
  BY <1>1, EmitFields
<1>4. /\ IsOpen(p)
      /\ OwnIds(log)
      /\ SeqBelow(log, run[p], seq[p])
      /\ seq[p] \in Nat
      /\ \A j \in DOMAIN log : log[j].seq \in Nat
      /\ CallStands(log, pc[p], current[p], run[p])
      /\ ReviewsCounted(log, pc[p], run[p], reviews[p])
  BY BrokerAssumption DEF Base, Control, Logged, LogOK, EventsUpTo, RunsOK, IsEvent, Accounts
<1>5. SeqBelow(log', run'[p], seq'[p])
  BY <1>3, <1>4, SeqBelowAdds
<1>6. pc'[p] = "ready"
  BY <1>1 DEF Goto, Base, Control
<1>7. AllAnswered(log', run[p]) /\ Owed(log', run[p]) = Owed(log, run[p])
  BY <1>2, <1>3, <1>4, ResultAdds
<1>8. CallStands(log', "ready", current'[p], run[p])
  BY <1>7 DEF CallStands
<1>9. ReviewsCounted(log', "ready", run[p], reviews'[p])
  BY <1>1, <1>4, <1>7 DEF ReviewsCounted
<1>10. OwnEvent(p, e)
  <2>1. /\ current[p].request[1] = run[p]
        /\ current[p].request[2] <= seq[p]
        /\ current[p].request[2] \in Nat
    BY RequestNumber
  <2>2. QED
    BY <1>2, <1>3, <1>4, <2>1 DEF OwnEvent, CallKinds
<1>11. QED
  BY <1>3, <1>5, <1>6, <1>8, <1>9, <1>10 DEF BrokerInOrder


LEMMA BrokerStepInOrder ==
    ASSUME Base, Accounts, NEW p \in Broker, BrokerStep(p)
    PROVE  BrokerInOrder(p)
<1>0. pc = [q \in Broker \cup Approver |-> pc[q]] /\ current \in [Broker -> CallType]
      /\ reviews \in [Broker -> Nat]
  BY DEF Base, Control, Typed
<1>1. CASE StartBroker(p)
  BY <1>1, BrokerOpensInOrder
<1>2. CASE SealBroker(p) \/ KillBroker(p)
  BY <1>2, BrokerLeavesInOrder
<1>3. ASSUME NEW c \in Call, Request(p, c)
      PROVE  BrokerInOrder(p)
  BY <1>3, BrokerRequestsInOrder
<1>4. CASE MakeDecision(p)
  BY <1>4, BrokerDecidesInOrder
<1>5. CASE Refuse(p) \/ Block(p) \/ RefuseCredential(p) \/ FailToExecute(p) \/ Finish(p)
  <2>1. /\ pc[p] \in {"denied", "refused", "held", "cleared", "done"}
        /\ \E outcome : Result(p, outcome)
    BY <1>5 DEF Refuse, Block, RefuseCredential, FailToExecute, Finish, At
  <2>2. QED
    BY <2>1, BrokerAnswersInOrder
<1>6. CASE \/ \E t \in Tool : Register(p, t)
           \/ \E s \in Scopes : DelegateScope(p, s)
  <2>1. /\ \E kind \in {"tool.register", "subagent.spawn"} : \E body : Emit(p, kind, body)
        /\ pc[p] = "ready" /\ pc'[p] = "ready" /\ reviews' = reviews
    BY <1>6 DEF Register, DelegateScope, At
  <2>2. QED
    BY <2>1, BrokerNotesInOrder DEF CallKinds, BrokerLabels
<1>7. CASE Demote(p)
  <2>1. /\ \E body : Emit(p, "rung.change", body)
        /\ pc[p] = "denied" /\ pc'[p] = "refused" /\ reviews' = reviews /\ current' = current
    BY <1>0, <1>7 DEF Demote, At, Goto
  <2>2. QED
    BY <2>1, BrokerNotesInOrder DEF CallKinds, BrokerLabels
<1>8. CASE UseGrant(p)
  <2>1. PICK g : current' = [current EXCEPT ![p].grant = g]
    BY <1>8 DEF UseGrant
  <2>2. current'[p].request = current[p].request
    BY <1>0, <2>1 DEF CallType
  <2>3. /\ \E body : Emit(p, "approval.use", body)
        /\ pc[p] = "held" /\ pc'[p] = "cleared" /\ reviews' = reviews
    BY <1>0, <1>8 DEF UseGrant, At, Goto
  <2>4. QED
    BY <2>2, <2>3, BrokerNotesInOrder DEF CallKinds, BrokerLabels
<1>9. CASE Execute(p)
  <2>1. /\ pc[p] = "cleared" /\ pc'[p] = "done"
        /\ UNCHANGED <<log, run, seq, current, reviews>>
    BY <1>0, <1>9 DEF Execute, At, Goto, logVars
  <2>2. /\ IsOpen(p)
        /\ SeqBelow(log, run[p], seq[p])
        /\ CallStands(log, "cleared", current[p], run[p])
        /\ ReviewsCounted(log, "cleared", run[p], reviews[p])
    BY <2>1 DEF Base, Control, Accounts
  <2>3. CallStands(log, "done", current[p], run[p]) /\ ReviewsCounted(log, "done", run[p], reviews[p])
    BY <2>2 DEF CallStands, ReviewsCounted
  <2>4. QED
    BY <2>1, <2>2, <2>3 DEF BrokerInOrder
<1>10. QED
  BY <1>1, <1>2, <1>3, <1>4, <1>5, <1>6, <1>7, <1>8, <1>9 DEF BrokerStep, CallStep

\* A run that is open after a step was so before, or has a new id; and the
\* event that seals one is the last of a process that leaves.
LEMMA NextRuns ==
    ASSUME Base, [Next]_vars
    PROVE  /\ \A q \in Process : IsOpen(q)' => (IsOpen(q) /\ run'[q] = run[q]) \/ run'[q] = clock + 1
           /\ \A e : Adds(log', log, e) /\ e.kind = "run.seal" =>
                 \A q \in Process : IsOpen(q)' => run'[q] # e.run
<1>0. run \in [Process -> 0..MaxRuns] /\ \A p, q \in Process : p # q /\ run[p] = run[q] => run[p] = NoRun
  BY DEF Base, Logged, RunsOK
<1>1. \A e, f : Adds(log', log, e) /\ Adds(log', log, f) => e = f
  BY DEF Adds
<1>2. \A e : log' = log => ~Adds(log', log, e)
  BY DEF Adds
<1>3. ASSUME NEW p \in Process, LogStep(p)
      PROVE  /\ \A q \in Process : IsOpen(q)' => (IsOpen(q) /\ run'[q] = run[q]) \/ run'[q] = clock + 1
             /\ \A e : Adds(log', log, e) /\ e.kind = "run.seal" =>
                   \A q \in Process : IsOpen(q)' => run'[q] # e.run
  <2>1. ASSUME NEW kinds \in {<<>>, <<"run.open">>}, NEW body, OpenRun(p, kinds, body)
        PROVE  /\ run' = [run EXCEPT ![p] = clock + 1]
               /\ \A e : Adds(log', log, e) => e.kind # "run.seal"
    <3>1. /\ run' = [run EXCEPT ![p] = clock + 1]
          /\ log' = log \/ log' = Append(log, Stamped(clock + 1, 0, "run.open", body))
      BY <2>1, OpenRunLogs DEF Base, Logged
    <3>2. Stamped(clock + 1, 0, "run.open", body).kind = "run.open"
      BY StampedFields
    <3>3. Adds(Append(log, Stamped(clock + 1, 0, "run.open", body)), log,
               Stamped(clock + 1, 0, "run.open", body))
      BY BaseLog, AppendAdds
    <3>4. QED
      BY <1>1, <1>2, <3>1, <3>2, <3>3
  <2>2. ASSUME NEW kind, NEW body, kind # "run.seal", Emit(p, kind, body)
        PROVE  run' = run /\ \A e : Adds(log', log, e) => e.kind # "run.seal"
    <3>1. Adds(log', log, Stamped(run[p], seq[p], kind, body))
      BY <2>2, EmitAdds
    <3>2. Stamped(run[p], seq[p], kind, body).kind = kind
      BY StampedFields
    <3>3. QED
      BY <1>1, <2>2, <3>1, <3>2 DEF Emit
  <2>3. ASSUME NEW body, Depart(p, "run.seal", body)
        PROVE  run' = [run EXCEPT ![p] = NoRun] /\ \A e : Adds(log', log, e) => e.run = run[p]
    <3>1. Adds(log', log, Stamped(run[p], seq[p], "run.seal", body))
      BY <2>3, DepartAdds
    <3>2. Stamped(run[p], seq[p], "run.seal", body).run = run[p]
      BY StampedFields
    <3>3. QED
      BY <1>1, <2>3, <3>1, <3>2 DEF Depart, Leave
  <2>4. ASSUME Leave(p), log' = log
        PROVE  run' = [run EXCEPT ![p] = NoRun]
    BY <2>4 DEF Leave
  <2>5. QED
    BY <1>0, <1>2, <1>3, <2>1, <2>2, <2>3, <2>4 DEF LogStep, logVars, IsOpen
<1>4. ASSUME NEW i \in DOMAIN log, Expire(i)
      PROVE  run' = run /\ \A e : Adds(log', log, e) => e.kind = "retention.expire"
  <2>1. Adds(Append(log, Stamped(NoRun, 0, "retention.expire", [event |-> i])), log,
             Stamped(NoRun, 0, "retention.expire", [event |-> i]))
    BY BaseLog, AppendAdds
  <2>2. Stamped(NoRun, 0, "retention.expire", [event |-> i]).kind = "retention.expire"
    BY StampedFields
  <2>3. QED
    BY <1>1, <1>4, <2>1, <2>2 DEF Expire
<1>5. CASE UNCHANGED vars
  BY <1>2, <1>5 DEF vars, logVars, IsOpen
<1>6. CASE \E i \in DOMAIN log : Expire(i)
  BY <1>4, <1>6 DEF IsOpen
<1>7. QED
  BY <1>3, <1>5, <1>6, BrokerLogSteps, ApproverLogSteps, OrchestratorLogSteps, BrokerAssumption,
     OrchestratorAssumption
     DEF Base, Next, BrokerNext, OrchestratorNext

\* The accounts that do not depend on whose step it is.
LEMMA GrowthKeepsAccounts ==
    ASSUME Base, Accounts, [Next]_vars, NEW e, Adds(log', log, e),
           e.kind \in CallKinds => /\ e.body.request[1] = e.run
                                   /\ e.body.request[2] <= e.seq
                                   /\ e.body.request[2] \in Nat
                                   /\ \E p \in Broker : IsOpen(p) /\ e.run = run[p],
           e.kind = "run.seal" => SealHolds(log', Len(log) + 1)
    PROVE  /\ OwnIds(log')
           /\ \A j \in DOMAIN log', o \in Process \ Broker :
                 log'[j].kind \in CallKinds /\ IsOpen(o)' => log'[j].run # run'[o]
           /\ \A j \in DOMAIN log' : log'[j].kind = "run.seal" =>
                 SealHolds(log', j) /\ \A q \in Process : IsOpen(q)' => log'[j].run # run'[q]
<1>1. OwnIds(log')
  BY OwnIdsAdds DEF Accounts
<1>2. /\ \A q \in Process : IsOpen(q)' => (IsOpen(q) /\ run'[q] = run[q]) \/ run'[q] = clock + 1
      /\ e.kind = "run.seal" => \A q \in Process : IsOpen(q)' => run'[q] # e.run
  BY NextRuns
<1>3. \A i \in DOMAIN log' :
         \/ i \in DOMAIN log /\ log'[i] = log[i]
         \/ i = Len(log) + 1 /\ log'[i] = e
  BY AddedIndex
<1>4. /\ \A j \in DOMAIN log : log[j].run # clock + 1
      /\ \A q \in Process : run[q] # clock + 1
  <2>1. \A j \in DOMAIN log : log[j].run \in Nat /\ log[j].run <= clock /\ clock \in Nat
    BY EventLogAssumption DEF Base, Logged, LogOK, EventsUpTo, RunsOK, IsEvent
  <2>2. \A q \in Process : run[q] \in Nat /\ run[q] <= clock /\ clock \in Nat
    BY EventLogAssumption DEF Base, Logged, RunsOK
  <2>3. QED
    BY <2>1, <2>2
<1>5. ASSUME NEW j \in DOMAIN log', NEW o \in Process \ Broker, log'[j].kind \in CallKinds, IsOpen(o)'
      PROVE  log'[j].run # run'[o]
  <2>1. CASE j \in DOMAIN log /\ log'[j] = log[j]
    BY <1>2, <1>4, <1>5, <2>1 DEF Accounts
  <2>2. CASE log'[j] = e
    <3>1. PICK p \in Broker : IsOpen(p) /\ e.run = run[p]
      BY <1>5, <2>2
    <3>2. p \in Process /\ p # o
      BY BrokerAssumption
    <3>3. QED
      BY <1>2, <1>4, <1>5, <2>2, <3>1, <3>2 DEF Base, Logged, RunsOK, IsOpen
  <2>3. QED
    BY <1>3, <2>1, <2>2
<1>6. ASSUME NEW j \in DOMAIN log', log'[j].kind = "run.seal"
      PROVE  SealHolds(log', j) /\ \A q \in Process : IsOpen(q)' => log'[j].run # run'[q]
  <2>1. CASE j \in DOMAIN log /\ log'[j] = log[j]
    <3>1. SealHolds(log, j) /\ \A q \in Process : IsOpen(q) => log[j].run # run[q]
      BY <1>6, <2>1 DEF Accounts
    <3>2. e.kind \in CallKinds => e.run # log[j].run /\ e.body.request[1] = e.run
      BY <3>1, BrokerAssumption
    <3>3. SealHolds(log', j)
      BY <2>1, <3>1, <3>2, GrowthKeepsSeal DEF Accounts
    <3>4. QED
      BY <1>2, <1>4, <2>1, <3>1, <3>3
  <2>2. CASE j = Len(log) + 1 /\ log'[j] = e
    BY <1>2, <1>6, <2>2
  <2>3. QED
    BY <1>3, <2>1, <2>2
<1>7. QED
  BY <1>1, <1>5, <1>6

LEMMA PauseKeepsAccounts ==
    ASSUME Base, Accounts, [Next]_vars, log' = log
    PROVE  /\ OwnIds(log')
           /\ \A j \in DOMAIN log', o \in Process \ Broker :
                 log'[j].kind \in CallKinds /\ IsOpen(o)' => log'[j].run # run'[o]
           /\ \A j \in DOMAIN log' : log'[j].kind = "run.seal" =>
                 SealHolds(log', j) /\ \A q \in Process : IsOpen(q)' => log'[j].run # run'[q]
<1>1. \A q \in Process : IsOpen(q)' => (IsOpen(q) /\ run'[q] = run[q]) \/ run'[q] = clock + 1
  BY NextRuns
<1>2. \A j \in DOMAIN log : log[j].run # clock + 1
  <2>1. \A j \in DOMAIN log : log[j].run \in Nat /\ log[j].run <= clock /\ clock \in Nat
    BY EventLogAssumption DEF Base, Logged, LogOK, EventsUpTo, RunsOK, IsEvent
  <2>2. QED
    BY <2>1
<1>3. QED
  BY <1>1, <1>2 DEF Accounts

\* A broker whose step it is not.
LEMMA OthersStand ==
    ASSUME Base, Accounts, NEW q \in Broker, SameCall(q), seq'[q] = seq[q],
           \/ log' = log
           \/ \E e : /\ Adds(log', log, e)
                     /\ e.kind \in CallKinds => e.body.request[1] = e.run
                     /\ IsOpen(q) => e.run # run[q]
    PROVE  /\ CallStands(log', pc'[q], current'[q], run'[q])
           /\ ReviewsCounted(log', pc'[q], run'[q], reviews'[q])
           /\ IsOpen(q)' => SeqBelow(log', run'[q], seq'[q])
<1>1. /\ CallStands(log, pc[q], current[q], run[q])
      /\ ReviewsCounted(log, pc[q], run[q], reviews[q])
      /\ IsOpen(q) => SeqBelow(log, run[q], seq[q])
      /\ OwnIds(log)
      /\ seq[q] \in Nat
      /\ \A j \in DOMAIN log : log[j].seq \in Nat
      /\ pc[q] = "closed" <=> ~IsOpen(q)
  BY BrokerAssumption DEF Base, Control, Logged, LogOK, EventsUpTo, RunsOK, IsEvent, Accounts
<1>2. CASE log' = log
  BY <1>1, <1>2 DEF SameCall, IsOpen
<1>3. CASE IsOpen(q)
  <2>1. ASSUME NEW e, Adds(log', log, e), e.kind \in CallKinds => e.body.request[1] = e.run, e.run # run[q]
        PROVE  /\ CallStands(log', pc[q], current[q], run[q])
               /\ ReviewsCounted(log', pc[q], run[q], reviews[q])
               /\ SeqBelow(log', run[q], seq[q])
    BY <1>1, <1>3, <2>1, GrowthKeepsCall, SeqBelowAdds
  <2>2. QED
    BY <1>2, <1>3, <2>1 DEF SameCall
<1>4. CASE ~IsOpen(q)
  BY <1>1, <1>4 DEF SameCall, IsOpen, CallStands, ReviewsCounted
<1>5. QED
  BY <1>3, <1>4

LEMMA BrokerKeepsAccounts ==
    ASSUME Base, Accounts, [Next]_vars, NEW p \in Broker, BrokerStep(p)
    PROVE  Accounts'
<1>0. /\ Broker \subseteq Process
      /\ \A q \in Broker : IsOpen(q) /\ q # p /\ IsOpen(p) => run[q] # run[p]
      /\ \A j \in Process : run[j] # clock + 1
  <2>1. \A q \in Process : run[q] \in Nat /\ run[q] <= clock /\ clock \in Nat
    BY EventLogAssumption DEF Base, Logged, RunsOK
  <2>2. \A q \in Process : run[q] # clock + 1
    BY <2>1
  <2>3. QED
    BY <2>2, BrokerAssumption DEF Base, Logged, RunsOK, IsOpen
<1>1. BrokerInOrder(p)
  BY BrokerStepInOrder
<1>2. \A q \in Broker : q # p => SameCall(q) /\ seq'[q] = seq[q]
  <2>1. LogStep(p)
    BY BrokerLogSteps DEF Base
  <2>2. QED
    BY <1>0, <2>1, BrokerFrame, LogStepFrame
<1>3. CASE log' = log
  <2>1. ASSUME NEW q \in Broker, q # p
        PROVE  /\ CallStands(log', pc'[q], current'[q], run'[q])
               /\ ReviewsCounted(log', pc'[q], run'[q], reviews'[q])
               /\ IsOpen(q)' => SeqBelow(log', run'[q], seq'[q])
    BY <1>2, <1>3, <2>1, OthersStand
  <2>2. QED
    BY <1>1, <1>3, <2>1, PauseKeepsAccounts DEF Accounts, BrokerInOrder
<1>4. ASSUME NEW e, Adds(log', log, e), OwnEvent(p, e)
      PROVE  Accounts'
  <2>1. \A f : Adds(log', log, f) => f = e
    BY <1>4 DEF Adds
  <2>2. \A q \in Broker : q # p /\ IsOpen(q) => e.run # run[q]
    <3>1. (e.run = run[p] /\ IsOpen(p)) \/ e.run = clock + 1
      <4>1. log' # log
        BY <1>4 DEF Adds
      <4>2. QED
        BY <2>1, <4>1, BrokerAdds
    <3>2. QED
      BY <1>0, <3>1
  <2>3. e.kind \in CallKinds => e.body.request[1] = e.run
    BY <1>4 DEF OwnEvent
  <2>4. ASSUME NEW q \in Broker, q # p
        PROVE  /\ CallStands(log', pc'[q], current'[q], run'[q])
               /\ ReviewsCounted(log', pc'[q], run'[q], reviews'[q])
               /\ IsOpen(q)' => SeqBelow(log', run'[q], seq'[q])
    <3>1. IsOpen(q) => e.run # run[q]
      BY <2>2, <2>4
    <3>2. QED
      BY <1>2, <1>4, <2>3, <2>4, <3>1, OthersStand
  <2>5. /\ OwnIds(log')
        /\ \A j \in DOMAIN log', o \in Process \ Broker :
              log'[j].kind \in CallKinds /\ IsOpen(o)' => log'[j].run # run'[o]
        /\ \A j \in DOMAIN log' : log'[j].kind = "run.seal" =>
              SealHolds(log', j) /\ \A q \in Process : IsOpen(q)' => log'[j].run # run'[q]
    <3>1. /\ e.kind \in CallKinds => /\ e.body.request[1] = e.run
                                     /\ e.body.request[2] <= e.seq
                                     /\ e.body.request[2] \in Nat
                                     /\ \E x \in Broker : IsOpen(x) /\ e.run = run[x]
          /\ e.kind = "run.seal" => SealHolds(log', Len(log) + 1)
      BY <1>4 DEF OwnEvent
    <3>2. QED
      BY <1>4, <3>1, GrowthKeepsAccounts
  <2>6. QED
    BY <1>1, <2>4, <2>5 DEF Accounts, BrokerInOrder
<1>5. QED
  BY <1>1, <1>3, <1>4 DEF BrokerInOrder

\* The seal of an approver or an orchestrator: its run has no calls.
LEMMA OthersSealHolds ==
    ASSUME Base, Accounts, NEW e, OthersEvent(e), Adds(log', log, e), e.kind = "run.seal"
    PROVE  SealHolds(log', Len(log) + 1)
<1>1. PICK o \in Process \ Broker :
          IsOpen(o) /\ e.run = run[o] /\ e.body = [outcome |-> "complete", reviews |-> 0]
  BY DEF OthersEvent
<1>2. \A j \in DOMAIN log : log[j].kind \in CallKinds => log[j].run # e.run
  BY <1>1 DEF Accounts
<1>3. Requests(log, e.run) = {} /\ Owed(log, e.run) = {}
  BY <1>2 DEF Requests, Owed, CallKinds
<1>4. e.body.reviews = Cardinality(Owed(log, e.run))
  BY <1>1, <1>3, FS_EmptySet
<1>5. AllAnswered(log, e.run) /\ OwnIds(log)
  BY <1>3 DEF AllAnswered, Accounts
<1>6. QED
  BY <1>3, <1>4, <1>5, SealAdds

LEMMA NextKeepsAccounts ==
    ASSUME Base, Accounts, [Next]_vars
    PROVE  Accounts'
<1>1. CASE \E p \in Broker : BrokerStep(p)
  BY <1>1, BrokerKeepsAccounts
<1>2. CASE ~\E p \in Broker : BrokerStep(p)
  <2>1. \A q \in Broker : SameCall(q) /\ seq'[q] = seq[q]
    BY <1>2, OtherFrame, OthersAdd
  <2>2. CASE log' = log
    <3>1. ASSUME NEW q \in Broker
          PROVE  /\ CallStands(log', pc'[q], current'[q], run'[q])
                 /\ ReviewsCounted(log', pc'[q], run'[q], reviews'[q])
                 /\ IsOpen(q)' => SeqBelow(log', run'[q], seq'[q])
      BY <2>1, <2>2, OthersStand
    <3>2. QED
      BY <2>2, <3>1, PauseKeepsAccounts DEF Accounts
  <2>3. ASSUME NEW e, OthersEvent(e), Adds(log', log, e)
        PROVE  Accounts'
    <3>1. e.kind \notin CallKinds
      BY <2>3 DEF OthersEvent, BrokerKinds, CallKinds
    <3>2. ASSUME NEW q \in Broker
          PROVE  /\ CallStands(log', pc'[q], current'[q], run'[q])
                 /\ ReviewsCounted(log', pc'[q], run'[q], reviews'[q])
                 /\ IsOpen(q)' => SeqBelow(log', run'[q], seq'[q])
      <4>1. IsOpen(q) => e.run # run[q]
        BY <2>3 DEF OthersEvent
      <4>2. QED
        BY <2>1, <2>3, <3>1, <4>1, OthersStand
    <3>3. e.kind = "run.seal" => SealHolds(log', Len(log) + 1)
      BY <2>3, OthersSealHolds
    <3>4. /\ OwnIds(log')
          /\ \A j \in DOMAIN log', o \in Process \ Broker :
                log'[j].kind \in CallKinds /\ IsOpen(o)' => log'[j].run # run'[o]
          /\ \A j \in DOMAIN log' : log'[j].kind = "run.seal" =>
                SealHolds(log', j) /\ \A q \in Process : IsOpen(q)' => log'[j].run # run'[q]
      BY <2>3, <3>1, <3>3, GrowthKeepsAccounts
    <3>5. QED
      BY <3>2, <3>4 DEF Accounts
  <2>4. QED
    BY <1>2, <2>2, <2>3, OthersAdd
<1>3. QED
  BY <1>1, <1>2

LEMMA AccountsForRuns ==
    ASSUME Base, Accounts
    PROVE  SealAccountsForRun
<1>1. /\ DOMAIN log \subseteq Nat
      /\ \A x : RequestOf(x) \subseteq DOMAIN log
      /\ \A x : DecisionOf(x) = Decisions(log, x) /\ ResultOf(x) = Results(log, x)
  BY BaseLog DEF RequestOf, DecisionOf, ResultOf, OfKind, Decisions, Results
<1>2. SUFFICES ASSUME NEW s \in OfKind(log, "run.seal")
               PROVE  LET Of(kind) == {j \in OfKind(log, kind) : log[j].run = log[s].run}
                          owed == {d \in Of("policy.decision") : log[d].body.obligation = "review"}
                      IN  /\ \A r \in Of("tool.request") :
                                \E d, t \in r..s : /\ DecisionOf(log[r].body.request) = {d}
                                                   /\ ResultOf(log[r].body.request) = {t}
                                                   /\ d < t
                          /\ log[s].body.reviews = Cardinality(owed)
                          /\ log[s].body.outcome = "complete" => owed = {}
  BY DEF SealAccountsForRun
<1> DEFINE Of(kind) == {j \in OfKind(log, kind) : log[j].run = log[s].run}
           owed == {d \in Of("policy.decision") : log[d].body.obligation = "review"}
<1>3. s \in DOMAIN log /\ SealHolds(log, s)
  BY <1>2 DEF Accounts, OfKind
<1>4. Of("tool.request") = Requests(log, log[s].run) /\ owed = Owed(log, log[s].run)
  BY DEF OfKind, Requests, Owed
<1>5. ASSUME NEW r \in Requests(log, log[s].run)
      PROVE  \E d, t \in r..s : /\ DecisionOf(log[r].body.request) = {d}
                                /\ ResultOf(log[r].body.request) = {t}
                                /\ d < t
  <2>1. PICK d \in DOMAIN log, t \in DOMAIN log :
            /\ r < d
            /\ d < t
            /\ Decisions(log, log[r].body.request) = {d}
            /\ Results(log, log[r].body.request) = {t}
    BY <1>3, <1>5 DEF SealHolds, Answered
  <2>2. t <= s
    BY <1>3, <1>5, <2>1 DEF SealHolds
  <2>3. r \in Nat /\ d \in Nat /\ t \in Nat /\ s \in Nat
    BY <1>1, <1>3 DEF Requests
  <2>4. d \in r..s /\ t \in r..s
    BY <2>1, <2>2, <2>3
  <2>5. QED
    BY <1>1, <2>1, <2>4
<1> HIDE DEF owed, Of
<1>6. QED
  BY <1>3, <1>4, <1>5 DEF SealHolds, Of, owed

\* The log earlier runs left accounts for those of them that sealed.
RecordedAccounts ==
    /\ OwnIds(Recorded)
    /\ \A j \in DOMAIN Recorded : Recorded[j].kind = "run.seal" => SealHolds(Recorded, j)

\* One of no events does.
LEMMA NothingRecorded == Recorded = <<>> => RecordedAccounts
BY NoEventsSeq DEF RecordedAccounts, OwnIds

\* A sealed run has answered for all it did, in any interleaving of runs and
\* whoever was killed in between, if the runs before these did.
THEOREM SealsAccount == RecordedAccounts /\ Spec => []SealAccountsForRun
<1>1. RecordedAccounts /\ Init => Base /\ Accounts
  <2> SUFFICES ASSUME RecordedAccounts, Init PROVE Base /\ Accounts
    OBVIOUS
  <2>1. Base /\ \A p \in Broker : ~IsOpen(p) /\ pc[p] = "closed"
    BY InitBase, BrokerAssumption DEF Init, BrokerInit, Base, Control
  <2>2. log = Recorded /\ \A p \in Process : ~IsOpen(p)
    BY DEF Init, LogInit, IsOpen
  <2>3. \A p \in Broker : reviews[p] = 0
    BY DEF Init, BrokerInit
  <2>4. QED
    BY <2>1, <2>2, <2>3 DEF RecordedAccounts, Accounts, CallStands, ReviewsCounted
<1>2. Base /\ Accounts /\ [Next]_vars => (Base /\ Accounts)'
  BY NextKeepsBase, NextKeepsAccounts
<1>3. Base /\ Accounts => SealAccountsForRun
  BY AccountsForRuns
<1>4. CASE RecordedAccounts
  BY <1>1, <1>2, <1>3, <1>4, PTL DEF Spec
<1>5. QED
  BY <1>4

=============================================================================
