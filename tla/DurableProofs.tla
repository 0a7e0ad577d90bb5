---------------------------- MODULE DurableProofs ----------------------------
(***************************************************************************)
(* A checkpoint restores a task whole, a resumed run carries over what it  *)
(* restored, and a sealed task is whole: for any tasks, steps and contents *)
(* and any number of processes, at once or one after another, killed       *)
(* anywhere, whatever payloads expire.  The ledger starts empty.           *)
(***************************************************************************)
EXTENDS Durable, TLAPS

USE EventLogAssumption, DurableAssumption

Id == Nat \X Nat

Result == [step : Nat, content : Content]

Opening == [workload : Task, after : Nat, restored : Id]

Checkpoint == [id : Id, task : Task, next : Nat, results : Seq(Result)]

Sealing == [task : Task, outcome : {"complete"}, steps : Nat]

Expiry == [event : Nat]

Event ==
    [kind : {"run.open"}, run : Nat, seq : Nat, body : Opening]
    \cup [kind : {"state.checkpoint"}, run : Nat, seq : Nat, body : Checkpoint]
    \cup [kind : {"run.seal"}, run : Nat, seq : Nat, body : Sealing]
    \cup [kind : {"retention.expire"}, run : Nat, seq : Nat, body : Expiry]

Job == [task : Task \cup {"none"}, read : Nat, restored : Id, next : Nat,
        results : Seq(Result)]

TypeOK ==
    /\ log \in Seq(Event)
    /\ clock \in Nat
    /\ run \in [Process -> Nat]
    /\ seq \in [Process -> Nat]
    /\ phase \in [Process -> {"closed", "opening", "working"}]
    /\ job \in [Process -> Job]

\* One result for each step before the next, in order, and no more than there are.
Whole(next, results) ==
    /\ next <= Steps
    /\ Len(results) = next
    /\ \A n \in DOMAIN results : results[n].step = n - 1

CheckpointsWhole ==
    \A i \in DOMAIN log :
        log[i].kind = "state.checkpoint" =>
            log[i].body.next # 0 /\ Whole(log[i].body.next, log[i].body.results)

\* A checkpoint of the task, as the job restored it, that its results begin with.
Restored(k, j) ==
    /\ log[k].kind = "state.checkpoint"
    /\ log[k].body.task = j.task
    /\ log[k].body.id = j.restored
    /\ IsPrefix(log[k].body.results, j.results)

\* The ids of the runs: each from its own tick of the clock.
RunsApart ==
    /\ \A p \in Process : phase[p] = "closed" <=> run[p] = NoRun
    /\ \A p \in Process : run[p] <= clock
    /\ \A i \in DOMAIN log : log[i].run <= clock
    /\ \A p, q \in Process : p # q /\ run[p] = run[q] => run[p] = NoRun

JobWhole(p) ==
    phase[p] # "closed" =>
        /\ job[p].task \in Task
        /\ Whole(job[p].next, job[p].results)

\* What a job has done is on the record, under its run or under the checkpoint
\* it restored.
JobRecorded(p) ==
    phase[p] # "closed" /\ job[p].next # 0 =>
        \E i \in DOMAIN log :
            /\ log[i].kind = "state.checkpoint"
            /\ log[i].body.task = job[p].task
            /\ log[i].body.next = job[p].next
            /\ log[i].run = run[p] \/ log[i].body.id = job[p].restored

\* Before its run.open a run has nothing on the log, and what it restored is
\* there.
JobOpening(p) ==
    phase[p] = "opening" =>
        /\ \A i \in DOMAIN log : log[i].run # run[p]
        /\ job[p].restored # NoCheckpoint => \E k \in DOMAIN log : Restored(k, job[p])

\* After it the run.open says so, and what was restored came before it.
JobWorking(p) ==
    phase[p] = "working" =>
        /\ \E o \in DOMAIN log : log[o].kind = "run.open" /\ log[o].run = run[p]
        /\ \A o \in DOMAIN log :
              log[o].kind = "run.open" /\ log[o].run = run[p] =>
                  /\ log[o].body.restored = job[p].restored
                  /\ job[p].restored # NoCheckpoint =>
                        \E k \in DOMAIN log : k < o /\ Restored(k, job[p])

JobGood(p) == JobWhole(p) /\ JobRecorded(p) /\ JobOpening(p) /\ JobWorking(p)

IInv ==
    /\ TypeOK
    /\ CheckpointsWhole
    /\ RunsApart
    /\ \A p \in Process : JobGood(p)
    /\ ResumeCarriesOver
    /\ SealedTaskIsWhole

-----------------------------------------------------------------------------
(* Sequences and bodies *)

LEMMA PrefixOfItself ==
    ASSUME NEW S, NEW s \in Seq(S)
    PROVE  IsPrefix(s, s)
  BY DEF IsPrefix

LEMMA PrefixOfAppend ==
    ASSUME NEW S, NEW s \in Seq(S), NEW t \in Seq(S), NEW e \in S, IsPrefix(s, t)
    PROVE  IsPrefix(s, Append(t, e))
<1>1. Len(s) \in Nat /\ Len(t) \in Nat /\ Len(s) <= Len(t)
      /\ SubSeq(s, 1, Len(s)) = SubSeq(t, 1, Len(s))
  BY DEF IsPrefix
<1>2. SubSeq(Append(t, e), 1, Len(s)) = SubSeq(t, 1, Len(s))
  BY <1>1
<1>3. Len(Append(t, e)) = Len(t) + 1
  OBVIOUS
<1> QED
  BY <1>1, <1>2, <1>3 DEF IsPrefix

LEMMA EventBodies ==
    ASSUME TypeOK, NEW i \in DOMAIN log
    PROVE  /\ log[i] \in Event
           /\ log[i].run \in Nat
           /\ log[i].kind = "run.open" => log[i].body \in Opening
           /\ log[i].kind = "state.checkpoint" => log[i].body \in Checkpoint
           /\ log[i].kind = "run.seal" => log[i].body \in Sealing
<1>1. log[i] \in Event
  BY DEF TypeOK
<1> QED
  BY <1>1 DEF Event

LEMMA LogLength == TypeOK => Len(log) \in Nat
  BY DEF TypeOK

\* The log grows at its end.
LEMMA Grown ==
    ASSUME TypeOK, NEW event \in Event, log' = Append(log, event)
    PROVE  /\ log' \in Seq(Event)
           /\ Len(log) \in Nat
           /\ DOMAIN log = 1..Len(log)
           /\ DOMAIN log' = 1..(Len(log) + 1)
           /\ \A i \in DOMAIN log : log'[i] = log[i]
           /\ log'[Len(log) + 1] = event
  BY DEF TypeOK

\* A run that opens appends nothing yet.
LEMMA OpenedRun ==
    ASSUME TypeOK, NEW p \in Process, OpenRun(p, <<>>, <<>>)
    PROVE  /\ log' = log /\ clock' = clock + 1
           /\ run[p] = NoRun
           /\ run' = [run EXCEPT ![p] = clock + 1]
           /\ seq' = [seq EXCEPT ![p] = 0]
<1>1. [i \in DOMAIN <<>> |-> Stamped(clock', i - 1, <<>>[i], <<>>)] = <<>>
  OBVIOUS
<1>2. log \o <<>> = log
  BY DEF TypeOK
<1>3. Len(<<>>) = 0
  OBVIOUS
<1> QED
  BY <1>1, <1>2, <1>3 DEF OpenRun, IsOpen

-----------------------------------------------------------------------------
LEMMA InitIsGood == Recorded = <<>> /\ Init => IInv
<1> SUFFICES ASSUME Recorded = <<>>, Init PROVE IInv
  OBVIOUS
<1>1. log = <<>> /\ clock = 0
  <2>1. DOMAIN Recorded = {}
    OBVIOUS
  <2>2. QED
    BY <2>1 DEF Init, LogInit, NoRun
<1>2. TypeOK
  BY <1>1 DEF Init, LogInit, TypeOK, NoJob, Job, NoCheckpoint, NoRun, Id
<1>3. DOMAIN log = {}
  BY <1>1
<1> QED
  BY <1>1, <1>2, <1>3
     DEF Init, LogInit, IInv, CheckpointsWhole, RunsApart, JobGood, JobWhole, JobRecorded, JobOpening,
         JobWorking, ResumeCarriesOver, SealedTaskIsWhole, NoRun, OfKind, Checkpoints

-----------------------------------------------------------------------------
\* What the record says stays so when it grows by an event that is as it
\* should be.
LEMMA RecordGrows ==
    ASSUME TypeOK, CheckpointsWhole, ResumeCarriesOver, SealedTaskIsWhole,
           NEW event \in Event, log' = Append(log, event),
           event.kind = "run.open" => \A i \in DOMAIN log : log[i].run # event.run,
           event.kind = "state.checkpoint" =>
               /\ event.body.next # 0
               /\ Whole(event.body.next, event.body.results)
               /\ \A o \in DOMAIN log :
                     /\ log[o].kind = "run.open"
                     /\ log[o].run = event.run
                     /\ log[o].body.restored # NoCheckpoint
                     => \E k \in DOMAIN log :
                           /\ k < o
                           /\ log[k].kind = "state.checkpoint"
                           /\ log[k].body.task = event.body.task
                           /\ log[k].body.id = log[o].body.restored
                           /\ IsPrefix(log[k].body.results, event.body.results),
           event.kind = "run.seal" =>
               /\ event.body.steps = Steps
               /\ \E i \in DOMAIN log :
                     /\ log[i].kind = "state.checkpoint"
                     /\ log[i].body.task = event.body.task
                     /\ log[i].body.next = Steps
                     /\ \/ log[i].run = event.run
                        \/ \E o \in DOMAIN log :
                              /\ log[o].kind = "run.open"
                              /\ log[o].run = event.run
                              /\ log[o].body.restored = log[i].body.id
    PROVE  CheckpointsWhole' /\ ResumeCarriesOver' /\ SealedTaskIsWhole'
<1> DEFINE new == Len(log) + 1
<1>1. /\ DOMAIN log' = DOMAIN log \cup {new} /\ new \notin DOMAIN log /\ new \in Nat
      /\ \A i \in DOMAIN log : i \in Nat /\ i < new /\ log'[i] = log[i]
      /\ log'[new] = event
  BY Grown
<1> HIDE DEF new
<1>2. CheckpointsWhole'
  BY <1>1 DEF CheckpointsWhole, Whole
<1>3. ResumeCarriesOver'
  <2> SUFFICES ASSUME NEW t \in Task, NEW i \in DOMAIN log', NEW o \in DOMAIN log',
                      log'[i].kind = "state.checkpoint", log'[i].body.task = t,
                      log'[o].kind = "run.open", log'[o].run = log'[i].run,
                      log'[o].body.restored # NoCheckpoint
               PROVE  \E k \in DOMAIN log' :
                          /\ log'[k].kind = "state.checkpoint"
                          /\ log'[k].body.task = t
                          /\ k < o
                          /\ log'[k].body.id = log'[o].body.restored
                          /\ IsPrefix(log'[k].body.results, log'[i].body.results)
    BY DEF ResumeCarriesOver, Checkpoints, OpeningOf, OfKind
  <2>1. CASE i \in DOMAIN log /\ o \in DOMAIN log
    <3>1. \E k \in Checkpoints(t) :
              /\ k < o
              /\ log[k].body.id = log[o].body.restored
              /\ IsPrefix(log[k].body.results, log[i].body.results)
      BY <1>1, <2>1 DEF ResumeCarriesOver, Checkpoints, OpeningOf, OfKind
    <3> QED
      BY <1>1, <2>1, <3>1 DEF Checkpoints, OfKind
  <2>2. CASE i \in DOMAIN log /\ o = new
    BY <1>1, <2>2
  <2>3. CASE i = new /\ o \in DOMAIN log
    <3>1. \E k \in DOMAIN log :
              /\ k < o
              /\ log[k].kind = "state.checkpoint"
              /\ log[k].body.task = event.body.task
              /\ log[k].body.id = log[o].body.restored
              /\ IsPrefix(log[k].body.results, event.body.results)
      BY <1>1, <2>3
    <3> QED
      BY <1>1, <2>3, <3>1
  <2> QED
    BY <1>1, <2>1, <2>2, <2>3
<1>4. SealedTaskIsWhole'
  <2> SUFFICES ASSUME NEW s \in DOMAIN log', log'[s].kind = "run.seal"
               PROVE  /\ log'[s].body.steps = Steps
                      /\ \E i \in DOMAIN log' :
                            /\ log'[i].kind = "state.checkpoint"
                            /\ log'[i].body.task = log'[s].body.task
                            /\ i < s
                            /\ log'[i].body.next = Steps
                            /\ \/ log'[i].run = log'[s].run
                               \/ \E o \in DOMAIN log' :
                                     /\ log'[o].kind = "run.open"
                                     /\ log'[o].run = log'[s].run
                                     /\ log'[o].body.restored = log'[i].body.id
    BY DEF SealedTaskIsWhole, Checkpoints, OpeningOf, OfKind
  <2>1. CASE s \in DOMAIN log
    <3>1. /\ log[s].body.steps = Steps
          /\ \E i \in DOMAIN log :
                /\ log[i].kind = "state.checkpoint"
                /\ log[i].body.task = log[s].body.task
                /\ i < s
                /\ log[i].body.next = Steps
                /\ \/ log[i].run = log[s].run
                   \/ \E o \in DOMAIN log :
                         /\ log[o].kind = "run.open"
                         /\ log[o].run = log[s].run
                         /\ log[o].body.restored = log[i].body.id
      BY <1>1, <2>1 DEF SealedTaskIsWhole, Checkpoints, OpeningOf, OfKind
    <3> QED
      BY <1>1, <2>1, <3>1
  <2>2. CASE s = new
    BY <1>1, <2>2
  <2> QED
    BY <1>1, <2>1, <2>2
<1> QED
  BY <1>2, <1>3, <1>4

\* A job is as good after another process appended an event as it was before.
LEMMA OtherJobsStay ==
    ASSUME TypeOK, NEW event \in Event, log' = Append(log, event),
           NEW q \in Process, JobGood(q),
           phase'[q] = phase[q], run'[q] = run[q], job'[q] = job[q],
           phase[q] # "closed" => event.run # run[q]
    PROVE  JobGood(q)'
<1>1. /\ DOMAIN log' = DOMAIN log \cup {Len(log) + 1} /\ Len(log) \in Nat
      /\ \A i \in DOMAIN log : i \in Nat /\ log'[i] = log[i]
      /\ log'[Len(log) + 1] = event
  BY Grown
<1>2. JobWhole(q)'
  BY DEF JobGood, JobWhole, Whole
<1>3. JobRecorded(q)'
  BY <1>1 DEF JobGood, JobRecorded
<1>4. \A k \in DOMAIN log : Restored(k, job[q]) => Restored(k, job[q])'
  BY <1>1 DEF Restored
<1>5. JobOpening(q)'
  BY <1>1, <1>4 DEF JobGood, JobOpening
<1>6. JobWorking(q)'
  BY <1>1, <1>4 DEF JobGood, JobWorking
<1> QED
  BY <1>2, <1>3, <1>5, <1>6 DEF JobGood

\* A run opens with nothing of its own on the log, and a job the log has.
LEMMA OpenKeeps ==
    ASSUME IInv, NEW p \in Process, NEW j \in Job, OpenRun(p, <<>>, <<>>),
           job' = [job EXCEPT ![p] = j], phase' = [phase EXCEPT ![p] = "opening"],
           j.task \in Task, Whole(j.next, j.results),
           j.next # 0 =>
               \E i \in DOMAIN log :
                   /\ log[i].kind = "state.checkpoint"
                   /\ log[i].body.task = j.task
                   /\ log[i].body.next = j.next
                   /\ log[i].body.id = j.restored,
           j.restored # NoCheckpoint => \E k \in DOMAIN log : Restored(k, j)
    PROVE  IInv'
<1> USE DEF IInv
<1>1. /\ log' = log /\ clock' = clock + 1 /\ run[p] = NoRun
      /\ run' = [run EXCEPT ![p] = clock + 1] /\ seq' = [seq EXCEPT ![p] = 0]
  BY OpenedRun
<1>2. TypeOK'
  BY <1>1 DEF TypeOK
<1>3. CheckpointsWhole' /\ ResumeCarriesOver' /\ SealedTaskIsWhole'
  BY <1>1 DEF CheckpointsWhole, ResumeCarriesOver, SealedTaskIsWhole, Checkpoints, OpeningOf, OfKind
<1>4. \A i \in DOMAIN log : log[i].run \in Nat
  BY EventBodies
<1>5. RunsApart'
  BY <1>1, <1>4 DEF RunsApart, TypeOK, NoRun
<1>6. ASSUME NEW q \in Process PROVE JobGood(q)'
  <2>1. CASE q = p
    <3>1. job'[p] = j /\ phase'[p] = "opening" /\ run'[p] = clock + 1
      BY <1>1 DEF TypeOK
    <3>2. \A i \in DOMAIN log : log[i].run # clock + 1
      BY <1>4 DEF RunsApart, TypeOK
    <3> QED
      BY <1>1, <2>1, <3>1, <3>2
         DEF JobGood, JobWhole, JobRecorded, JobOpening, JobWorking, Restored, Whole
  <2>2. CASE q # p
    <3>1. job'[q] = job[q] /\ phase'[q] = phase[q] /\ run'[q] = run[q] /\ JobGood(q)
      BY <1>1, <2>2 DEF TypeOK
    <3> QED
      BY <1>1, <3>1
         DEF JobGood, JobWhole, JobRecorded, JobOpening, JobWorking, Restored, Whole
  <2> QED
    BY <2>1, <2>2
<1> QED
  BY <1>2, <1>3, <1>5, <1>6

LEMMA OpenFreshKeeps ==
    ASSUME IInv, NEW p \in Process, NEW t \in Task, OpenFresh(p, t)
    PROVE  IInv'
<1> DEFINE j == [task |-> t, read |-> Len(log), restored |-> NoCheckpoint, next |-> 0, results |-> <<>>]
<1>1. j = [task |-> t, read |-> Len(log), restored |-> NoCheckpoint, next |-> 0, results |-> <<>>]
  OBVIOUS
<1>2. j \in Job /\ j.task = t /\ j.next = 0 /\ j.restored = NoCheckpoint /\ j.results = <<>>
  <2>1. NoCheckpoint \in Id /\ <<>> \in Seq(Result)
    BY DEF NoCheckpoint, NoRun, Id
  <2>2. t \in Task \cup {"none"}
    OBVIOUS
  <2>3. \A c \in Id, r \in Seq(Result) :
            [task |-> t, read |-> Len(log), restored |-> c, next |-> 0, results |-> r] \in Job
    BY <2>2, LogLength DEF Job, IInv
  <2> HIDE DEF j
  <2>4. j \in Job
    BY <1>1, <2>1, <2>3
  <2> QED
    BY <1>1, <2>4
<1>3. Whole(j.next, j.results)
  BY <1>2 DEF Whole
<1>4. /\ OpenRun(p, <<>>, <<>>) /\ job' = [job EXCEPT ![p] = j]
      /\ phase' = [phase EXCEPT ![p] = "opening"]
  BY DEF OpenFresh, Goto
<1> HIDE DEF j
<1> QED
  BY <1>2, <1>3, <1>4, OpenKeeps

LEMMA ResumeKeeps ==
    ASSUME IInv, NEW p \in Process, NEW t \in Task, Resume(p, t)
    PROVE  IInv'
<1>1. PICK i \in DOMAIN log :
          /\ LastReadable(t, i)
          /\ OpenRun(p, <<>>, <<>>)
          /\ job' = [job EXCEPT ![p] =
                [task |-> t, read |-> Len(log), restored |-> log[i].body.id,
                 next |-> log[i].body.next, results |-> log[i].body.results]]
          /\ phase' = [phase EXCEPT ![p] = "opening"]
  BY DEF Resume, Goto
<1>2. /\ log[i].kind = "state.checkpoint" /\ log[i].body.task = t
      /\ log[i].body \in Checkpoint
  BY <1>1, EventBodies DEF IInv, LastReadable, Restorable, Checkpoints, OfKind
<1> DEFINE j == [task |-> t, read |-> Len(log), restored |-> log[i].body.id,
                 next |-> log[i].body.next, results |-> log[i].body.results]
<1>3. j \in Job /\ j.task = t
  BY <1>2, LogLength DEF Checkpoint, Job, IInv
<1>4. Whole(j.next, j.results)
  BY <1>2 DEF IInv, CheckpointsWhole
<1>5. Restored(i, j)
  BY <1>2, PrefixOfItself DEF Restored, Checkpoint
<1> QED
  BY <1>1, <1>2, <1>3, <1>4, <1>5, OpenKeeps

\* A run that ends leaves the record, and the other jobs, as they are.
LEMMA KillKeeps ==
    ASSUME IInv, NEW p \in Process, Kill(p)
    PROVE  IInv'
<1> USE DEF IInv
<1>1. /\ log' = log /\ clock' = clock
      /\ run' = [run EXCEPT ![p] = NoRun] /\ seq' = [seq EXCEPT ![p] = 0]
      /\ job' = [job EXCEPT ![p] = NoJob] /\ phase' = [phase EXCEPT ![p] = "closed"]
  BY DEF Kill, Die, Exit, Leave, Goto
<1>2. NoJob \in Job
  BY DEF NoJob, Job, Id, NoCheckpoint, NoRun
<1>3. TypeOK'
  BY <1>1, <1>2 DEF TypeOK, NoRun
<1>4. CheckpointsWhole' /\ ResumeCarriesOver' /\ SealedTaskIsWhole'
  BY <1>1 DEF CheckpointsWhole, ResumeCarriesOver, SealedTaskIsWhole, Checkpoints, OpeningOf, OfKind
<1>5. RunsApart'
  BY <1>1 DEF RunsApart, TypeOK, NoRun
<1>6. ASSUME NEW q \in Process PROVE JobGood(q)'
  <2>1. CASE q = p
    BY <1>1, <2>1 DEF TypeOK, JobGood, JobWhole, JobRecorded, JobOpening, JobWorking
  <2>2. CASE q # p
    <3>1. job'[q] = job[q] /\ phase'[q] = phase[q] /\ run'[q] = run[q] /\ JobGood(q)
      BY <1>1, <2>2 DEF TypeOK
    <3> QED
      BY <1>1, <3>1
         DEF JobGood, JobWhole, JobRecorded, JobOpening, JobWorking, Restored, Whole
  <2> QED
    BY <2>1, <2>2
<1> QED
  BY <1>3, <1>4, <1>5, <1>6

-----------------------------------------------------------------------------
(* The steps of a run *)

\* A process that is at work has the only run with its id.
LEMMA OwnRun ==
    ASSUME IInv, NEW p \in Process, phase[p] # "closed", NEW q \in Process, q # p,
           phase[q] # "closed"
    PROVE  run[p] # run[q]
  BY DEF IInv, RunsApart

\* An event of a run at work, or of none, is no later than the clock.
LEMMA ClockHolds ==
    ASSUME IInv, NEW event \in Event, log' = Append(log, event), event.run <= clock,
           clock' = clock, UNCHANGED <<run, phase>>
    PROVE  RunsApart'
<1>1. /\ DOMAIN log' = DOMAIN log \cup {Len(log) + 1}
      /\ \A i \in DOMAIN log : log'[i] = log[i]
      /\ log'[Len(log) + 1] = event
  BY Grown DEF IInv
<1> QED
  BY <1>1 DEF IInv, RunsApart

LEMMA DeclareOpenKeeps ==
    ASSUME IInv, NEW p \in Process, DeclareOpen(p)
    PROVE  IInv'
<1> USE DEF IInv
<1> DEFINE body  == [workload |-> job[p].task, after |-> job[p].read, restored |-> job[p].restored]
           event == Stamped(run[p], seq[p], "run.open", body)
<1>1. /\ log' = Append(log, event) /\ seq' = [seq EXCEPT ![p] = @ + 1]
      /\ UNCHANGED <<run, clock, job>>
      /\ phase[p] = "opening" /\ phase' = [phase EXCEPT ![p] = "working"]
  BY DEF DeclareOpen, Emit, Goto
<1>2. JobGood(p) /\ job[p] \in Job /\ run[p] \in Nat /\ seq[p] \in Nat
  BY DEF TypeOK
<1>3. body \in Opening
  BY <1>1, <1>2 DEF Opening, Job, JobGood, JobWhole
<1>4. /\ event \in Event /\ event.kind = "run.open" /\ event.run = run[p]
      /\ event.body.restored = job[p].restored
  BY <1>2, <1>3 DEF Event, Stamped
<1> HIDE DEF event
<1>5. /\ DOMAIN log' = DOMAIN log \cup {Len(log) + 1} /\ log' \in Seq(Event)
      /\ \A i \in DOMAIN log : i < Len(log) + 1 /\ log'[i] = log[i]
      /\ log'[Len(log) + 1] = event
  BY <1>1, <1>4, Grown
<1>6. TypeOK'
  BY <1>1, <1>5 DEF TypeOK
<1>7. CheckpointsWhole' /\ ResumeCarriesOver' /\ SealedTaskIsWhole'
  <2>1. \A i \in DOMAIN log : log[i].run # event.run
    BY <1>1, <1>2, <1>4 DEF JobGood, JobOpening
  <2> QED
    BY <1>1, <1>4, <2>1, RecordGrows
<1>8. RunsApart'
  BY <1>1, <1>4, <1>5 DEF RunsApart, TypeOK
<1>9. ASSUME NEW q \in Process PROVE JobGood(q)'
  <2>1. CASE q # p
    <3>1. phase'[q] = phase[q] /\ run'[q] = run[q] /\ job'[q] = job[q] /\ JobGood(q)
      BY <1>1, <2>1 DEF TypeOK
    <3>2. phase[q] # "closed" => event.run # run[q]
      BY <1>1, <1>4, <2>1, OwnRun
    <3> QED
      BY <1>1, <1>4, <3>1, <3>2, OtherJobsStay
  <2>2. CASE q = p
    <3>1. phase'[p] = "working"
      BY <1>1 DEF TypeOK
    <3>2. JobWhole(p)' /\ JobRecorded(p)' /\ JobOpening(p)'
      <4>1. JobWhole(p) /\ JobRecorded(p)
        BY <1>2 DEF JobGood
      <4>2. JobWhole(p)'
        BY <1>1, <4>1 DEF JobWhole, Whole
      <4>3. JobRecorded(p)'
        BY <1>1, <1>5, <4>1 DEF JobRecorded
      <4>4. JobOpening(p)'
        BY <3>1 DEF JobOpening
      <4> QED
        BY <4>2, <4>3, <4>4
    <3>3. /\ \A i \in DOMAIN log : log[i].run # run[p]
          /\ job[p].restored # NoCheckpoint => \E k \in DOMAIN log : Restored(k, job[p])
      BY <1>1, <1>2 DEF JobGood, JobOpening
    <3>4. \A k \in DOMAIN log : Restored(k, job[p]) => Restored(k, job[p])'
      BY <1>1, <1>5 DEF Restored
    <3>5. JobWorking(p)'
      BY <1>1, <1>4, <1>5, <3>3, <3>4 DEF JobWorking
    <3> QED
      BY <2>2, <3>2, <3>5 DEF JobGood
  <2> QED
    BY <2>1, <2>2
<1> QED
  BY <1>6, <1>7, <1>8, <1>9

LEMMA AdvancedJob ==
    ASSUME NEW j \in Job, NEW r \in Seq(Result)
    PROVE  /\ Advanced(j, r) \in Job
           /\ Advanced(j, r).task = j.task /\ Advanced(j, r).restored = j.restored
           /\ Advanced(j, r).next = j.next + 1 /\ Advanced(j, r).results = r
           /\ Advanced(j, r).read = j.read
<1>1. j.task \in Task \cup {"none"} /\ j.restored \in Id /\ j.next + 1 \in Nat
  BY DEF Job
<1> QED
  BY <1>1 DEF Advanced, Job

LEMMA CheckpointStepKeeps ==
    ASSUME IInv, NEW p \in Process, NEW content \in Content, CheckpointStep(p, content)
    PROVE  IInv'
<1> USE DEF IInv
<1> DEFINE result  == [step |-> job[p].next, content |-> content]
           results == Append(job[p].results, result)
           body    == [id |-> <<run[p], job[p].next>>, task |-> job[p].task,
                       next |-> job[p].next + 1, results |-> results]
           event   == Stamped(run[p], seq[p], "state.checkpoint", body)
<1>1. /\ log' = Append(log, event) /\ seq' = [seq EXCEPT ![p] = @ + 1]
      /\ UNCHANGED <<run, clock, phase>>
      /\ phase[p] = "working" /\ job[p].next < Steps
      /\ job' = [job EXCEPT ![p] = Advanced(job[p], results)]
  BY DEF CheckpointStep, Emit
<1>2. /\ JobGood(p) /\ job[p] \in Job /\ run[p] \in Nat /\ seq[p] \in Nat
      /\ job[p].task \in Task /\ Whole(job[p].next, job[p].results)
  BY <1>1 DEF TypeOK, JobGood, JobWhole
<1>3. /\ result \in Result /\ job[p].next \in Nat /\ job[p].results \in Seq(Result)
      /\ results \in Seq(Result)
  BY <1>2 DEF Job, Result
<1>4. Whole(job[p].next + 1, results)
  <2>1. /\ Len(results) = job[p].next + 1
        /\ \A n \in 1..job[p].next : results[n] = job[p].results[n]
        /\ results[job[p].next + 1] = result
    BY <1>2, <1>3 DEF Whole
  <2>2. DOMAIN results = 1..(job[p].next + 1) /\ DOMAIN job[p].results = 1..job[p].next
    BY <1>2, <1>3, <2>1 DEF Whole
  <2>3. \A n \in 1..job[p].next : results[n].step = n - 1
    BY <1>2, <2>1, <2>2 DEF Whole
  <2>4. results[job[p].next + 1].step = job[p].next + 1 - 1
    BY <1>3, <2>1
  <2>5. job[p].next + 1 <= Steps
    BY <1>1, <1>3
  <2> HIDE DEF results, result
  <2>6. ASSUME NEW n \in 1..(job[p].next + 1) PROVE results[n].step = n - 1
    <3>1. CASE n \in 1..job[p].next
      BY <2>3, <3>1
    <3>2. CASE n = job[p].next + 1
      BY <1>3, <2>4, <3>2
    <3>3. n \in 1..job[p].next \/ n = job[p].next + 1
      BY <1>3
    <3> QED
      BY <3>1, <3>2, <3>3
  <2> QED
    BY <2>1, <2>2, <2>5, <2>6 DEF Whole
<1>5. body \in Checkpoint
  BY <1>2, <1>3 DEF Checkpoint, Id
<1> HIDE DEF result, results
<1>6. /\ event \in Event /\ event.kind = "state.checkpoint" /\ event.run = run[p]
      /\ event.body.task = job[p].task /\ event.body.next = job[p].next + 1
      /\ event.body.results = results
  BY <1>2, <1>5 DEF Event, Stamped
<1> HIDE DEF event
<1>7. /\ DOMAIN log' = DOMAIN log \cup {Len(log) + 1} /\ log' \in Seq(Event)
      /\ \A i \in DOMAIN log : i < Len(log) + 1 /\ log'[i] = log[i]
      /\ log'[Len(log) + 1] = event
  BY <1>1, <1>6, Grown
<1>8. /\ job'[p].task = job[p].task /\ job'[p].restored = job[p].restored
      /\ job'[p].next = job[p].next + 1 /\ job'[p].results = results
      /\ \A q \in Process : q # p => job'[q] = job[q]
      /\ job' \in [Process -> Job]
  BY <1>1, <1>2, <1>3, AdvancedJob DEF TypeOK
<1>9. \A k \in DOMAIN log : Restored(k, job[p]) =>
          IsPrefix(log[k].body.results, results)
  <2> SUFFICES ASSUME NEW k \in DOMAIN log, Restored(k, job[p])
               PROVE  IsPrefix(log[k].body.results, results)
    OBVIOUS
  <2>1. log[k].body.results \in Seq(Result) /\ IsPrefix(log[k].body.results, job[p].results)
    BY EventBodies DEF Restored, Checkpoint
  <2> QED
    BY <1>3, <2>1, PrefixOfAppend DEF results
<1>10. TypeOK'
  BY <1>1, <1>7, <1>8 DEF TypeOK
<1>11. RunsApart'
  BY <1>1, <1>6, ClockHolds DEF RunsApart
<1>12. CheckpointsWhole' /\ ResumeCarriesOver' /\ SealedTaskIsWhole'
  <2>1. ASSUME NEW o \in DOMAIN log, log[o].kind = "run.open", log[o].run = run[p],
               log[o].body.restored # NoCheckpoint
        PROVE  \E k \in DOMAIN log :
                   /\ k < o
                   /\ log[k].kind = "state.checkpoint"
                   /\ log[k].body.task = job[p].task
                   /\ log[k].body.id = log[o].body.restored
                   /\ IsPrefix(log[k].body.results, results)
    <3>1. /\ log[o].body.restored = job[p].restored
          /\ \E k \in DOMAIN log : k < o /\ Restored(k, job[p])
      BY <1>1, <1>2, <2>1 DEF JobGood, JobWorking
    <3> QED
      BY <1>9, <3>1 DEF Restored
  <2>2. event.body.next # 0 /\ Whole(event.body.next, event.body.results)
    BY <1>3, <1>4, <1>6
  <2> QED
    BY <1>1, <1>6, <2>1, <2>2, RecordGrows
<1>13. ASSUME NEW q \in Process PROVE JobGood(q)'
  <2>1. CASE q # p
    <3>1. phase'[q] = phase[q] /\ run'[q] = run[q] /\ job'[q] = job[q] /\ JobGood(q)
      BY <1>1, <1>8, <2>1
    <3>2. phase[q] # "closed" => event.run # run[q]
      BY <1>1, <1>6, <2>1, OwnRun
    <3> QED
      BY <1>1, <1>6, <3>1, <3>2, OtherJobsStay
  <2>2. CASE q = p
    <3>1. JobWhole(p)'
      BY <1>2, <1>4, <1>8 DEF JobWhole, Whole
    <3>2. JobRecorded(p)' /\ JobOpening(p)'
      BY <1>1, <1>6, <1>7, <1>8 DEF JobRecorded, JobOpening
    <3>3. \A k \in DOMAIN log : Restored(k, job[p]) => Restored(k, job[p])'
      BY <1>7, <1>8, <1>9 DEF Restored
    <3>4. JobWorking(p)'
      <4>1. /\ \E o \in DOMAIN log : log[o].kind = "run.open" /\ log[o].run = run[p]
            /\ \A o \in DOMAIN log :
                  log[o].kind = "run.open" /\ log[o].run = run[p] =>
                      /\ log[o].body.restored = job[p].restored
                      /\ job[p].restored # NoCheckpoint =>
                            \E k \in DOMAIN log : k < o /\ Restored(k, job[p])
        BY <1>1, <1>2 DEF JobGood, JobWorking
      <4>2. \E o \in DOMAIN log' : log'[o].kind = "run.open" /\ log'[o].run = run'[p]
        BY <1>1, <1>7, <4>1
      <4>3. ASSUME NEW o \in DOMAIN log', log'[o].kind = "run.open", log'[o].run = run'[p]
            PROVE  /\ log'[o].body.restored = job'[p].restored
                   /\ job'[p].restored # NoCheckpoint =>
                         \E k \in DOMAIN log' : k < o /\ Restored(k, job[p])'
        <5>1. o \in DOMAIN log /\ log[o] = log'[o]
          BY <1>6, <1>7, <4>3
        <5>2. /\ log[o].body.restored = job[p].restored
              /\ job[p].restored # NoCheckpoint =>
                    \E k \in DOMAIN log : k < o /\ Restored(k, job[p])
          BY <1>1, <4>1, <4>3, <5>1
        <5> QED
          BY <1>7, <1>8, <3>3, <5>1, <5>2
      <4> QED
        BY <4>2, <4>3 DEF JobWorking
    <3> QED
      BY <2>2, <3>1, <3>2, <3>4 DEF JobGood
  <2> QED
    BY <2>1, <2>2
<1> QED
  BY <1>10, <1>11, <1>12, <1>13

\* A run seals only when every step of its task is on the record.
LEMMA SealKeeps ==
    ASSUME IInv, NEW p \in Process, Seal(p)
    PROVE  IInv'
<1> USE DEF IInv
<1> DEFINE body  == [task |-> job[p].task, outcome |-> "complete", steps |-> Len(job[p].results)]
           event == Stamped(run[p], seq[p], "run.seal", body)
<1>1. /\ log' = Append(log, event) /\ clock' = clock
      /\ run' = [run EXCEPT ![p] = NoRun] /\ seq' = [seq EXCEPT ![p] = 0]
      /\ job' = [job EXCEPT ![p] = NoJob] /\ phase' = [phase EXCEPT ![p] = "closed"]
      /\ phase[p] = "working" /\ job[p].next >= Steps
  BY DEF Seal, Depart, Leave, Goto
<1>2. /\ JobGood(p) /\ job[p] \in Job /\ run[p] \in Nat /\ seq[p] \in Nat
      /\ job[p].task \in Task /\ job[p].next = Steps /\ Len(job[p].results) = Steps
  BY <1>1 DEF TypeOK, JobGood, JobWhole, Whole, Job
<1>3. body \in Sealing
  BY <1>2 DEF Sealing
<1>4. /\ event \in Event /\ event.kind = "run.seal" /\ event.run = run[p]
      /\ event.body.task = job[p].task /\ event.body.steps = Steps
  BY <1>2, <1>3 DEF Event, Stamped
<1> HIDE DEF event
<1>5. /\ DOMAIN log' = DOMAIN log \cup {Len(log) + 1} /\ log' \in Seq(Event)
      /\ \A i \in DOMAIN log : i < Len(log) + 1 /\ log'[i] = log[i]
      /\ log'[Len(log) + 1] = event
  BY <1>1, <1>4, Grown
<1>6. NoJob \in Job
  <2>1. NoCheckpoint \in Id /\ <<>> \in Seq(Result)
    BY DEF NoCheckpoint, NoRun, Id
  <2> QED
    BY <2>1 DEF NoJob, Job
<1>7. TypeOK'
  BY <1>1, <1>5, <1>6 DEF TypeOK, NoRun
<1>8. RunsApart'
  BY <1>1, <1>4, <1>5 DEF RunsApart, TypeOK, NoRun
<1>9. CheckpointsWhole' /\ ResumeCarriesOver' /\ SealedTaskIsWhole'
  <2>1. PICK i \in DOMAIN log :
            /\ log[i].kind = "state.checkpoint"
            /\ log[i].body.task = job[p].task
            /\ log[i].body.next = Steps
            /\ log[i].run = run[p] \/ log[i].body.id = job[p].restored
    BY <1>1, <1>2 DEF JobGood, JobRecorded
  <2>2. \E o \in DOMAIN log :
            log[o].kind = "run.open" /\ log[o].run = run[p] /\ log[o].body.restored = job[p].restored
    BY <1>1, <1>2 DEF JobGood, JobWorking
  <2>3. \/ log[i].run = event.run
        \/ \E o \in DOMAIN log :
              log[o].kind = "run.open" /\ log[o].run = event.run
              /\ log[o].body.restored = log[i].body.id
    BY <1>4, <2>1, <2>2
  <2> QED
    BY <1>1, <1>4, <2>1, <2>3, RecordGrows
<1>10. ASSUME NEW q \in Process PROVE JobGood(q)'
  <2>1. CASE q # p
    <3>1. phase'[q] = phase[q] /\ run'[q] = run[q] /\ job'[q] = job[q] /\ JobGood(q)
      BY <1>1, <2>1 DEF TypeOK
    <3>2. phase[q] # "closed" => event.run # run[q]
      BY <1>1, <1>4, <2>1, OwnRun
    <3> QED
      BY <1>1, <1>4, <3>1, <3>2, OtherJobsStay
  <2>2. CASE q = p
    BY <1>1, <2>2 DEF TypeOK, JobGood, JobWhole, JobRecorded, JobOpening, JobWorking
  <2> QED
    BY <2>1, <2>2
<1> QED
  BY <1>7, <1>8, <1>9, <1>10

\* An expiry is of no run.
LEMMA ExpireKeeps ==
    ASSUME IInv, NEW i \in DOMAIN log, Expire(i), UNCHANGED durableVars
    PROVE  IInv'
<1> USE DEF IInv
<1> DEFINE event == Stamped(NoRun, 0, "retention.expire", [event |-> i])
<1>1. log' = Append(log, event) /\ UNCHANGED <<run, seq, clock, phase, job>>
  BY DEF Expire, durableVars
<1>2. event \in Event /\ event.kind = "retention.expire" /\ event.run = 0
  BY DEF TypeOK, Event, Expiry, Stamped, NoRun
<1> HIDE DEF event
<1>3. TypeOK'
  BY <1>1, <1>2, Grown DEF TypeOK
<1>4. RunsApart'
  BY <1>1, <1>2, ClockHolds DEF TypeOK
<1>5. CheckpointsWhole' /\ ResumeCarriesOver' /\ SealedTaskIsWhole'
  BY <1>1, <1>2, RecordGrows
<1>6. ASSUME NEW q \in Process PROVE JobGood(q)'
  <2>1. phase[q] # "closed" => event.run # run[q]
    BY <1>2 DEF RunsApart, NoRun
  <2>2. JobGood(q)
    OBVIOUS
  <2> QED
    BY <1>1, <1>2, <2>1, <2>2, OtherJobsStay
<1> QED
  BY <1>3, <1>4, <1>5, <1>6

LEMMA StepKeepsGood == IInv /\ [Next]_vars => IInv'
<1> SUFFICES ASSUME IInv, [Next]_vars PROVE IInv'
  OBVIOUS
<1>1. ASSUME NEW p \in Process, NEW t \in Task, OpenFresh(p, t) \/ Resume(p, t) PROVE IInv'
  BY <1>1, OpenFreshKeeps, ResumeKeeps
<1>2. ASSUME NEW p \in Process, DeclareOpen(p) PROVE IInv'
  BY <1>2, DeclareOpenKeeps
<1>3. ASSUME NEW p \in Process, NEW c \in Content, CheckpointStep(p, c) PROVE IInv'
  BY <1>3, CheckpointStepKeeps
<1>4. ASSUME NEW p \in Process, Seal(p) PROVE IInv'
  BY <1>4, SealKeeps
<1>5. ASSUME NEW p \in Process, Kill(p) PROVE IInv'
  BY <1>5, KillKeeps
<1>6. ASSUME NEW i \in DOMAIN log, Expire(i), UNCHANGED durableVars PROVE IInv'
  BY <1>6, ExpireKeeps
<1>7. CASE UNCHANGED vars
  <2>1. UNCHANGED <<log, clock, run, seq, phase, job>>
    BY <1>7 DEF vars, logVars, durableVars
  <2> QED
    BY <2>1
       DEF IInv, TypeOK, CheckpointsWhole, RunsApart, JobGood, JobWhole, JobRecorded, JobOpening,
           JobWorking, Restored, Whole, ResumeCarriesOver, SealedTaskIsWhole, Checkpoints,
           OpeningOf, OfKind
<1> QED
  BY <1>1, <1>2, <1>3, <1>4, <1>5, <1>6, <1>7 DEF Next

-----------------------------------------------------------------------------
\* Every checkpoint a run writes can be resumed from without loss
\* (DurableRun::checkpoint_step).
THEOREM CheckpointsRestoreAll == Recorded = <<>> /\ Spec => []CheckpointRestoresAll
<1>1. IInv => CheckpointRestoresAll
  BY DEF IInv, CheckpointsWhole, Whole, CheckpointRestoresAll, Checkpoints, OfKind
<1> QED
  BY <1>1, InitIsGood, StepKeepsGood, PTL DEF Spec

\* A resumed run keeps every result of the checkpoint it says it restored, also
\* while the run it was taken from is still at work (DurableRun::resume).
THEOREM ResumesCarryOver == Recorded = <<>> /\ Spec => []ResumeCarriesOver
<1>1. IInv => ResumeCarriesOver
  BY DEF IInv
<1> QED
  BY <1>1, InitIsGood, StepKeepsGood, PTL DEF Spec

\* "complete" on a seal means every step is on the record (DurableRun::seal,
\* durable_run, durable_resume).
THEOREM SealedTasksAreWhole == Recorded = <<>> /\ Spec => []SealedTaskIsWhole
<1>1. IInv => SealedTaskIsWhole
  BY DEF IInv
<1> QED
  BY <1>1, InitIsGood, StepKeepsGood, PTL DEF Spec

-----------------------------------------------------------------------------
(* A resumed run repeats nothing it could have read *)

\* A log with one more event.
Longer(t, s, e) ==
    /\ Len(s) \in Nat
    /\ DOMAIN s = 1..Len(s)
    /\ Len(t) = Len(s) + 1
    /\ DOMAIN t = 1..(Len(s) + 1)
    /\ \A i \in DOMAIN s : t[i] = s[i]
    /\ t[Len(s) + 1] = e

IsCheckpoint(e) == e.kind = "state.checkpoint"

\* The expiry of event i is among the first n events.
ExpiredBy(s, n, i) ==
    \E x \in DOMAIN s : x <= n /\ s[x].kind = "retention.expire" /\ s[x].body.event = i

\* The checkpoints of a task among the first n events whose payload these do
\* not say is expired.
Legible(s, task, n) ==
    {k \in DOMAIN s : k <= n /\ IsCheckpoint(s[k]) /\ s[k].body.task = task /\ ~ExpiredBy(s, n, k)}

LastOf(m, S) == m \in S /\ \A k \in S : k <= m

\* A checkpoint is named by its run and the step it follows, and by no other;
\* an expiry names an event before it; and what has expired is what they name.
NamesOwn(s) ==
    /\ \A i \in DOMAIN s : IsCheckpoint(s[i]) => s[i].body.id = <<s[i].run, s[i].body.next - 1>>
    /\ \A i, k \in DOMAIN s :
          IsCheckpoint(s[i]) /\ IsCheckpoint(s[k]) /\ s[i].body.id = s[k].body.id => i = k

NamesBack(s) == \A x \in DOMAIN s : s[x].kind = "retention.expire" => s[x].body.event < x

\* A run read no more than there was before its run.open.
ReadsBack(s) == \A o \in DOMAIN s : s[o].kind = "run.open" => s[o].body.after \in 0..Len(s)

GoneAsSaid(s, g) ==
    \A i \in DOMAIN s : IsCheckpoint(s[i]) => (s[i].body \in g <=> ExpiredBy(s, Len(s), i))

\* What a resumed run records is past the last checkpoint it could read.
Anew(s) ==
    \A i, o \in DOMAIN s :
        /\ IsCheckpoint(s[i])
        /\ s[o].kind = "run.open"
        /\ s[o].run = s[i].run
        /\ s[o].body.restored # NoCheckpoint
        => \E m \in DOMAIN s :
              /\ LastOf(m, Legible(s, s[i].body.task, s[o].body.after))
              /\ s[m].body.next < s[i].body.next

\* A job is past all its run has recorded, and at or past what it restored: the
\* last checkpoint that could be read when it opened.
PastItsOwn(s, id, j) == \A i \in DOMAIN s : IsCheckpoint(s[i]) /\ s[i].run = id => s[i].body.next <= j.next

PastRestored(s, label, id, j) ==
    /\ label = "opening" /\ j.restored # NoCheckpoint =>
          \E m \in DOMAIN s : LastOf(m, Legible(s, j.task, j.read)) /\ s[m].body.next <= j.next
    /\ label = "working" =>
          \A o \in DOMAIN s :
              s[o].kind = "run.open" /\ s[o].run = id /\ s[o].body.restored # NoCheckpoint =>
                  \E m \in DOMAIN s :
                      /\ LastOf(m, Legible(s, j.task, s[o].body.after))
                      /\ s[m].body.next <= j.next

RecordAnew(s, g) == NamesOwn(s) /\ NamesBack(s) /\ ReadsBack(s) /\ GoneAsSaid(s, g) /\ Anew(s)

JobAnew(s, label, id, j) ==
    label # "closed" =>
        j.read \in 0..Len(s) /\ PastItsOwn(s, id, j) /\ PastRestored(s, label, id, j)

RInv ==
    /\ IInv
    /\ RecordAnew(log, gone)
    /\ \A p \in Process : JobAnew(log, phase[p], run[p], job[p])

LEMMA GrownLonger ==
    ASSUME TypeOK, NEW event \in Event, log' = Append(log, event)
    PROVE  Longer(log', log, event)
<1>1. Len(log') = Len(log) + 1
  BY DEF TypeOK
<1> QED
  BY <1>1, Grown DEF Longer

\* No other event has the payload a checkpoint has the shape of.
LEMMA BodiesDiffer ==
    ASSUME NEW a \in Event, NEW b \in Event, IsCheckpoint(a), ~IsCheckpoint(b)
    PROVE  a.body # b.body
<1>1. a.body \in Checkpoint
  BY DEF Event, IsCheckpoint
<1>2. b.body \in Opening \/ b.body \in Sealing \/ b.body \in Expiry
  BY DEF Event, IsCheckpoint
<1>3. DOMAIN a.body = {"id", "task", "next", "results"}
  BY <1>1 DEF Checkpoint
<1>4. "id" \notin DOMAIN b.body
  BY <1>2 DEF Opening, Sealing, Expiry
<1> QED
  BY <1>3, <1>4

\* What could be read of a log once read does not change later.
LEMMA LegibleStays ==
    ASSUME NEW s, NEW t, NEW e, Longer(t, s, e), NEW task, NEW n \in 0..Len(s)
    PROVE  Legible(t, task, n) = Legible(s, task, n)
<1>1. /\ \A i \in DOMAIN s : i \in DOMAIN t /\ t[i] = s[i]
      /\ \A i \in DOMAIN t : i <= n => i \in DOMAIN s /\ t[i] = s[i]
  BY DEF Longer
<1>2. \A k : ExpiredBy(t, n, k) <=> ExpiredBy(s, n, k)
  BY <1>1 DEF ExpiredBy
<1> QED
  BY <1>1, <1>2 DEF Legible

\* A job is as far past the record as it was when the record grows by what is
\* not its own.
LEMMA OthersKeepAnew ==
    ASSUME NEW s, NEW t, NEW e, Longer(t, s, e), NEW label, NEW id, NEW j,
           ReadsBack(s), JobAnew(s, label, id, j),
           label # "closed" => e.run # id \/ (e.kind # "run.open" /\ ~IsCheckpoint(e))
    PROVE  JobAnew(t, label, id, j)
<1> SUFFICES ASSUME label # "closed"
             PROVE  j.read \in 0..Len(t) /\ PastItsOwn(t, id, j) /\ PastRestored(t, label, id, j)
  BY DEF JobAnew
<1>1. /\ Len(s) \in Nat /\ Len(t) = Len(s) + 1
      /\ \A i \in DOMAIN s : i \in DOMAIN t /\ t[i] = s[i]
      /\ \A i \in DOMAIN t : (i \in DOMAIN s /\ t[i] = s[i]) \/ t[i] = e
  BY DEF Longer
<1>2. j.read \in 0..Len(s) /\ PastItsOwn(s, id, j) /\ PastRestored(s, label, id, j)
  BY DEF JobAnew
<1>3. PastItsOwn(t, id, j)
  BY <1>1, <1>2 DEF PastItsOwn
<1>4. Legible(t, j.task, j.read) = Legible(s, j.task, j.read)
  BY <1>2, LegibleStays
<1>5. ASSUME label = "working", NEW o \in DOMAIN t, t[o].kind = "run.open", t[o].run = id,
             t[o].body.restored # NoCheckpoint
      PROVE  \E m \in DOMAIN t :
                 LastOf(m, Legible(t, j.task, t[o].body.after)) /\ t[m].body.next <= j.next
  <2>1. o \in DOMAIN s /\ t[o] = s[o]
    BY <1>1, <1>5
  <2>2. PICK m \in DOMAIN s :
            LastOf(m, Legible(s, j.task, s[o].body.after)) /\ s[m].body.next <= j.next
    BY <1>2, <1>5, <2>1 DEF PastRestored
  <2>3. Legible(t, j.task, s[o].body.after) = Legible(s, j.task, s[o].body.after)
    <3>1. s[o].body.after \in 0..Len(s)
      BY <1>5, <2>1 DEF ReadsBack
    <3> QED
      BY <3>1, LegibleStays
  <2> QED
    BY <1>1, <2>1, <2>2, <2>3
<1>6. PastRestored(t, label, id, j)
  BY <1>1, <1>2, <1>4, <1>5 DEF PastRestored
<1> QED
  BY <1>1, <1>2, <1>3, <1>6

\* The record, when it grows by a checkpoint that is new and past the others of
\* its run, by an expiry, or by anything else.
LEMMA RecordGrowsAnew ==
    ASSUME NEW s, NEW t, NEW e, Longer(t, s, e), NEW g, NEW h, RecordAnew(s, g),
           \A i \in DOMAIN s : IsCheckpoint(s[i]) => (s[i].body \in h <=> s[i].body \in g),
           IsCheckpoint(e) =>
               /\ e.body \notin h
               /\ e.body.id = <<e.run, e.body.next - 1>>
               /\ \A i \in DOMAIN s : IsCheckpoint(s[i]) => s[i].body.id # e.body.id
               /\ \A o \in DOMAIN s :
                     s[o].kind = "run.open" /\ s[o].run = e.run /\ s[o].body.restored # NoCheckpoint =>
                         \E m \in DOMAIN s :
                             /\ LastOf(m, Legible(s, e.body.task, s[o].body.after))
                             /\ s[m].body.next < e.body.next,
           e.kind = "run.open" =>
               e.body.after \in 0..Len(s) /\ \A i \in DOMAIN s : s[i].run # e.run,
           e.kind # "retention.expire"
    PROVE  RecordAnew(t, h)
<1>1. /\ Len(s) \in Nat /\ DOMAIN s = 1..Len(s)
      /\ \A i \in DOMAIN s : i \in DOMAIN t /\ t[i] = s[i] /\ i <= Len(s) /\ i \in Nat
      /\ \A i \in DOMAIN t : (i \in DOMAIN s /\ t[i] = s[i]) \/ (i = Len(s) + 1 /\ t[i] = e)
      /\ DOMAIN t = 1..(Len(s) + 1) /\ Len(t) = Len(s) + 1
  BY DEF Longer
<1>2. NamesOwn(s) /\ NamesBack(s) /\ ReadsBack(s) /\ GoneAsSaid(s, g) /\ Anew(s)
  BY DEF RecordAnew
<1>3. NamesOwn(t)
  BY <1>1, <1>2 DEF NamesOwn
<1>4. NamesBack(t)
  BY <1>1, <1>2 DEF NamesBack
<1>5. GoneAsSaid(t, h)
  <2>1. Len(t) = Len(s) + 1
    BY DEF Longer
  <2>2. \A i \in DOMAIN s : ExpiredBy(t, Len(t), i) <=> ExpiredBy(s, Len(s), i)
    BY <1>1, <2>1 DEF ExpiredBy
  <2>3. ~ExpiredBy(t, Len(t), Len(s) + 1)
    BY <1>1, <1>2 DEF ExpiredBy, NamesBack
  <2>4. \A i \in DOMAIN s : IsCheckpoint(s[i]) => (s[i].body \in h <=> ExpiredBy(s, Len(s), i))
    BY <1>2 DEF GoneAsSaid
  <2> QED
    BY <1>1, <2>2, <2>3, <2>4 DEF GoneAsSaid
<1>6. Anew(t)
  <2> SUFFICES ASSUME NEW i \in DOMAIN t, NEW o \in DOMAIN t,
                      IsCheckpoint(t[i]), t[o].kind = "run.open", t[o].run = t[i].run,
                      t[o].body.restored # NoCheckpoint
               PROVE  \E m \in DOMAIN t :
                          /\ LastOf(m, Legible(t, t[i].body.task, t[o].body.after))
                          /\ t[m].body.next < t[i].body.next
    BY DEF Anew
  <2>1. CASE o \in DOMAIN s
    <3>1. \E m \in DOMAIN s :
              /\ LastOf(m, Legible(s, t[i].body.task, s[o].body.after))
              /\ s[m].body.next < t[i].body.next
      <4>1. CASE i \in DOMAIN s
        BY <1>1, <1>2, <2>1, <4>1 DEF Anew
      <4>2. CASE i \notin DOMAIN s
        BY <1>1, <2>1, <4>2
      <4> QED
        BY <4>1, <4>2
    <3>2. Legible(t, t[i].body.task, s[o].body.after) = Legible(s, t[i].body.task, s[o].body.after)
      BY <1>1, <1>2, <2>1, LegibleStays DEF ReadsBack
    <3>3. PICK m \in DOMAIN s :
              /\ LastOf(m, Legible(s, t[i].body.task, s[o].body.after))
              /\ s[m].body.next < t[i].body.next
      BY <3>1
    <3>4. m \in DOMAIN t /\ t[m] = s[m] /\ t[o] = s[o]
      BY <1>1, <2>1
    <3> QED
      BY <3>2, <3>3, <3>4
  <2>2. CASE o \notin DOMAIN s
    BY <1>1, <2>2 DEF IsCheckpoint
  <2> QED
    BY <2>1, <2>2
<1>7. ReadsBack(t)
  BY <1>1, <1>2 DEF ReadsBack
<1> QED
  BY <1>3, <1>4, <1>5, <1>6, <1>7 DEF RecordAnew

\* An expiry takes the payload of one checkpoint, or of none.
LEMMA RecordExpires ==
    ASSUME NEW s, NEW t, NEW e, Longer(t, s, e), NEW g, RecordAnew(s, g),
           NEW i \in DOMAIN s, e.kind = "retention.expire", e.body.event = i,
           \A k \in DOMAIN s :
               IsCheckpoint(s[k]) /\ ~IsCheckpoint(s[i]) => s[k].body # s[i].body
    PROVE  RecordAnew(t, g \cup {s[i].body})
<1>1. /\ Len(s) \in Nat /\ DOMAIN s = 1..Len(s) /\ Len(t) = Len(s) + 1
      /\ \A k \in DOMAIN s : k \in DOMAIN t /\ t[k] = s[k] /\ k <= Len(s) /\ k \in Nat
      /\ \A k \in DOMAIN t : (k \in DOMAIN s /\ t[k] = s[k]) \/ (k = Len(s) + 1 /\ t[k] = e)
      /\ DOMAIN t = 1..(Len(s) + 1) /\ t[Len(s) + 1] = e
  BY DEF Longer
<1>2. NamesOwn(s) /\ NamesBack(s) /\ ReadsBack(s) /\ GoneAsSaid(s, g) /\ Anew(s)
  BY DEF RecordAnew
<1>3. ~IsCheckpoint(e) /\ e.kind # "run.open"
  BY DEF IsCheckpoint
<1>4. NamesOwn(t)
  BY <1>1, <1>2, <1>3 DEF NamesOwn
<1>5. NamesBack(t)
  BY <1>1, <1>2 DEF NamesBack
<1>6. GoneAsSaid(t, g \cup {s[i].body})
  <2> SUFFICES ASSUME NEW k \in DOMAIN s, IsCheckpoint(s[k])
               PROVE  s[k].body \in g \cup {s[i].body} <=> ExpiredBy(t, Len(t), k)
    BY <1>1, <1>3 DEF GoneAsSaid
  <2>1. ExpiredBy(t, Len(t), k) <=> ExpiredBy(s, Len(s), k) \/ k = i
    BY <1>1 DEF ExpiredBy
  <2>2. s[k].body = s[i].body <=> k = i
    BY <1>2 DEF NamesOwn
  <2>3. s[k].body \in g <=> ExpiredBy(s, Len(s), k)
    BY <1>2 DEF GoneAsSaid
  <2> QED
    BY <2>1, <2>2, <2>3
<1>7. Anew(t)
  <2> SUFFICES ASSUME NEW k \in DOMAIN s, NEW o \in DOMAIN s,
                      IsCheckpoint(s[k]), s[o].kind = "run.open", s[o].run = s[k].run,
                      s[o].body.restored # NoCheckpoint
               PROVE  \E m \in DOMAIN t :
                          /\ LastOf(m, Legible(t, s[k].body.task, s[o].body.after))
                          /\ t[m].body.next < s[k].body.next
    BY <1>1, <1>3 DEF Anew
  <2>1. \E m \in DOMAIN s :
            /\ LastOf(m, Legible(s, s[k].body.task, s[o].body.after))
            /\ s[m].body.next < s[k].body.next
    BY <1>2 DEF Anew
  <2>2. Legible(t, s[k].body.task, s[o].body.after) = Legible(s, s[k].body.task, s[o].body.after)
    BY <1>2, LegibleStays DEF ReadsBack
  <2> QED
    BY <1>1, <2>1, <2>2
<1>8. ReadsBack(t)
  BY <1>1, <1>2, <1>3 DEF ReadsBack
<1> QED
  BY <1>4, <1>5, <1>6, <1>7, <1>8 DEF RecordAnew

LEMMA InitIsAnew == Recorded = <<>> /\ Init => RInv
<1> SUFFICES ASSUME Recorded = <<>>, Init PROVE RInv
  OBVIOUS
<1>1. IInv
  BY InitIsGood
<1>2. DOMAIN log = {} /\ \A p \in Process : phase[p] = "closed"
  BY DEF Init, LogInit
<1> QED
  BY <1>1, <1>2 DEF RInv, RecordAnew, NamesOwn, NamesBack, ReadsBack, GoneAsSaid, Anew, JobAnew

\* A run opens with nothing of its own on the record, at what it could read.
LEMMA OpenKeepsAnew ==
    ASSUME RInv, IInv', NEW p \in Process, NEW j \in Job, OpenRun(p, <<>>, <<>>),
           job' = [job EXCEPT ![p] = j], phase' = [phase EXCEPT ![p] = "opening"],
           j.read = Len(log),
           j.restored # NoCheckpoint =>
               \E m \in DOMAIN log :
                   LastOf(m, Legible(log, j.task, Len(log))) /\ log[m].body.next <= j.next
    PROVE  RInv'
<1> USE DEF RInv
<1>1. TypeOK /\ RunsApart /\ Len(log) \in Nat
  BY LogLength DEF IInv
<1>2. log' = log /\ gone' = gone /\ job'[p] = j
  BY <1>1, OpenedRun DEF OpenRun, TypeOK
<1>3. phase'[p] = "opening"
  BY <1>1 DEF TypeOK
<1>4. \A i \in DOMAIN log : log[i].run # run'[p]
  BY <1>2, <1>3 DEF IInv, JobGood, JobOpening
<1>5. JobAnew(log, "opening", run'[p], j)
  BY <1>1, <1>4 DEF JobAnew, PastItsOwn, PastRestored
<1>6. RecordAnew(log', gone')
  BY <1>2
<1>7. ASSUME NEW q \in Process PROVE JobAnew(log', phase'[q], run'[q], job'[q])
  <2>1. CASE q = p
    BY <1>2, <1>3, <1>5, <2>1
  <2>2. CASE q # p
    <3>1. phase'[q] = phase[q] /\ run'[q] = run[q] /\ job'[q] = job[q]
      BY <1>1, <2>2, OpenedRun DEF TypeOK
    <3> QED
      BY <1>2, <3>1
  <2> QED
    BY <2>1, <2>2
<1> QED
  BY <1>6, <1>7

LEMMA OpenFreshKeepsAnew ==
    ASSUME RInv, NEW p \in Process, NEW t \in Task, OpenFresh(p, t)
    PROVE  RInv'
<1> DEFINE j == [task |-> t, read |-> Len(log), restored |-> NoCheckpoint, next |-> 0, results |-> <<>>]
<1>1. IInv /\ IInv'
  BY OpenFreshKeeps DEF RInv
<1>2. j = [task |-> t, read |-> Len(log), restored |-> NoCheckpoint, next |-> 0, results |-> <<>>]
  OBVIOUS
<1>3. NoCheckpoint \in Id /\ <<>> \in Seq(Result) /\ t \in Task \cup {"none"}
  BY DEF NoCheckpoint, NoRun, Id
<1>4. /\ OpenRun(p, <<>>, <<>>) /\ job' = [job EXCEPT ![p] = j]
      /\ phase' = [phase EXCEPT ![p] = "opening"]
  BY DEF OpenFresh, Goto
<1> HIDE DEF j
<1>5. j.restored = NoCheckpoint /\ j.read = Len(log) /\ j \in Job
  BY <1>1, <1>2, <1>3, LogLength DEF Job, IInv
<1> QED
  BY <1>1, <1>4, <1>5, OpenKeepsAnew

LEMMA ResumeKeepsAnew ==
    ASSUME RInv, NEW p \in Process, NEW t \in Task, Resume(p, t)
    PROVE  RInv'
<1>1. IInv /\ IInv' /\ TypeOK
  BY ResumeKeeps DEF RInv, IInv
<1>2. PICK i \in DOMAIN log :
          /\ LastReadable(t, i)
          /\ OpenRun(p, <<>>, <<>>)
          /\ job' = [job EXCEPT ![p] =
                [task |-> t, read |-> Len(log), restored |-> log[i].body.id,
                 next |-> log[i].body.next, results |-> log[i].body.results]]
          /\ phase' = [phase EXCEPT ![p] = "opening"]
  BY DEF Resume, Goto
<1>3. log[i].body \in Checkpoint
  BY <1>1, <1>2, EventBodies DEF LastReadable, Restorable, Checkpoints, OfKind
<1> DEFINE j == [task |-> t, read |-> Len(log), restored |-> log[i].body.id,
                 next |-> log[i].body.next, results |-> log[i].body.results]
<1>4. j \in Job /\ j.task = t /\ j.read = Len(log) /\ j.next = log[i].body.next /\ j.next \in Nat
  BY <1>1, <1>3, LogLength DEF Checkpoint, Job
<1>5. LastOf(i, Legible(log, t, Len(log)))
  <2>1. \A k \in DOMAIN log : k \in Nat /\ k <= Len(log)
    BY <1>1 DEF TypeOK
  <2>2. GoneAsSaid(log, gone)
    BY DEF RInv, RecordAnew
  <2>3. Restorable(t) = Legible(log, t, Len(log))
    BY <2>1, <2>2 DEF GoneAsSaid, Restorable, Checkpoints, OfKind, Legible, IsCheckpoint
  <2> QED
    BY <1>2, <2>3 DEF LastReadable, LastOf
<1> HIDE DEF j
<1>6. job' = [job EXCEPT ![p] = j]
  BY <1>2 DEF j
<1>7. LastOf(i, Legible(log, j.task, Len(log))) /\ log[i].body.next <= j.next
  BY <1>4, <1>5
<1> QED
  BY <1>1, <1>2, <1>4, <1>6, <1>7, OpenKeepsAnew

\* The payloads that are gone after an event is appended, of those before it.
LEMMA OthersStayGone ==
    ASSUME TypeOK, NEW e \in Event, NEW g,
           IsCheckpoint(e) =>
               \A i \in DOMAIN log : IsCheckpoint(log[i]) => log[i].body.id # e.body.id
    PROVE  \A i \in DOMAIN log :
               IsCheckpoint(log[i]) => (log[i].body \in g \ {e.body} <=> log[i].body \in g)
<1> SUFFICES ASSUME NEW i \in DOMAIN log, IsCheckpoint(log[i])
             PROVE  log[i].body # e.body
  OBVIOUS
<1>1. log[i] \in Event
  BY EventBodies
<1> QED
  BY <1>1, BodiesDiffer

\* A run at work is past its own checkpoints and what it restored.
LEMMA DeclareOpenKeepsAnew ==
    ASSUME RInv, NEW p \in Process, DeclareOpen(p)
    PROVE  RInv'
<1> DEFINE body  == [workload |-> job[p].task, after |-> job[p].read, restored |-> job[p].restored]
           event == Stamped(run[p], seq[p], "run.open", body)
<1>1. /\ log' = Append(log, event) /\ gone' = gone \ {event.body}
      /\ UNCHANGED <<run, clock, job>>
      /\ phase[p] = "opening" /\ phase' = [phase EXCEPT ![p] = "working"]
  BY DEF DeclareOpen, Emit, Goto, Stamped
<1>2. /\ IInv /\ IInv' /\ TypeOK /\ JobGood(p) /\ job[p] \in Job
      /\ run[p] \in Nat /\ seq[p] \in Nat
  BY DeclareOpenKeeps DEF RInv, IInv, TypeOK
<1>3. body \in Opening
  BY <1>1, <1>2 DEF Opening, Job, JobGood, JobWhole
<1>4. /\ event \in Event /\ event.kind = "run.open" /\ event.run = run[p]
      /\ event.body.restored = job[p].restored /\ event.body.after = job[p].read
      /\ ~IsCheckpoint(event)
  BY <1>2, <1>3 DEF Event, Stamped, IsCheckpoint
<1> HIDE DEF event
<1>5. Longer(log', log, event)
  BY <1>1, <1>2, <1>4, GrownLonger
<1>6. \A i \in DOMAIN log : log[i].run # run[p]
  BY <1>1, <1>2 DEF JobGood, JobOpening
<1>7. JobAnew(log, "opening", run[p], job[p]) /\ RecordAnew(log, gone)
  BY <1>1 DEF RInv
<1>8. RecordAnew(log', gone')
  <2>1. \A i \in DOMAIN log :
            IsCheckpoint(log[i]) => (log[i].body \in gone' <=> log[i].body \in gone)
    BY <1>1, <1>2, <1>4, OthersStayGone
  <2>2. event.body.after \in 0..Len(log)
    BY <1>4, <1>7 DEF JobAnew
  <2> QED
    BY <1>4, <1>5, <1>6, <1>7, <2>1, <2>2, RecordGrowsAnew
<1>9. JobAnew(log', "working", run[p], job[p])
  <2>1. /\ \A i \in DOMAIN log : i \in DOMAIN log' /\ log'[i] = log[i]
        /\ \A i \in DOMAIN log' : (i \in DOMAIN log /\ log'[i] = log[i]) \/ log'[i] = event
        /\ Len(log') = Len(log) + 1 /\ Len(log) \in Nat
    BY <1>5 DEF Longer
  <2>2. job[p].read \in 0..Len(log)
    BY <1>7 DEF JobAnew
  <2>3. PastItsOwn(log', run[p], job[p])
    BY <1>4, <1>6, <2>1 DEF PastItsOwn
  <2>4. Legible(log', job[p].task, job[p].read) = Legible(log, job[p].task, job[p].read)
    BY <1>5, <2>2, LegibleStays
  <2>5. job[p].restored # NoCheckpoint =>
            \E m \in DOMAIN log :
                LastOf(m, Legible(log, job[p].task, job[p].read)) /\ log[m].body.next <= job[p].next
    BY <1>7 DEF JobAnew, PastRestored
  <2>6. ASSUME NEW o \in DOMAIN log', log'[o].kind = "run.open", log'[o].run = run[p],
               log'[o].body.restored # NoCheckpoint
        PROVE  \E m \in DOMAIN log' :
                   /\ LastOf(m, Legible(log', job[p].task, log'[o].body.after))
                   /\ log'[m].body.next <= job[p].next
    <3>1. log'[o] = event
      BY <1>6, <2>1, <2>6
    <3> QED
      BY <1>4, <2>1, <2>4, <2>5, <2>6, <3>1
  <2>7. PastRestored(log', "working", run[p], job[p])
    BY <2>6 DEF PastRestored
  <2> QED
    BY <2>1, <2>2, <2>3, <2>7 DEF JobAnew
<1>10. ASSUME NEW q \in Process PROVE JobAnew(log', phase'[q], run'[q], job'[q])
  <2>1. CASE q = p
    BY <1>1, <1>2, <1>9, <2>1 DEF TypeOK
  <2>2. CASE q # p
    <3>1. phase'[q] = phase[q] /\ run'[q] = run[q] /\ job'[q] = job[q]
      BY <1>1, <1>2, <2>2 DEF TypeOK
    <3>2. phase[q] # "closed" => event.run # run[q]
      BY <1>1, <1>2, <1>4, <2>2, OwnRun
    <3>3. JobAnew(log, phase[q], run[q], job[q]) /\ ReadsBack(log)
      BY DEF RInv, RecordAnew
    <3> QED
      BY <1>5, <3>1, <3>2, <3>3, OthersKeepAnew
  <2> QED
    BY <2>1, <2>2
<1> QED
  BY <1>2, <1>8, <1>10 DEF RInv

LEMMA CheckpointStepKeepsAnew ==
    ASSUME RInv, NEW p \in Process, NEW content \in Content, CheckpointStep(p, content)
    PROVE  RInv'
<1> DEFINE results == Append(job[p].results, [step |-> job[p].next, content |-> content])
           body    == [id |-> <<run[p], job[p].next>>, task |-> job[p].task,
                       next |-> job[p].next + 1, results |-> results]
           event   == Stamped(run[p], seq[p], "state.checkpoint", body)
<1>1. /\ log' = Append(log, event) /\ gone' = gone \ {event.body}
      /\ UNCHANGED <<run, clock, phase>>
      /\ phase[p] = "working"
      /\ job' = [job EXCEPT ![p] = Advanced(job[p], results)]
  BY DEF CheckpointStep, Emit, Stamped
<1>2. /\ IInv /\ IInv' /\ TypeOK /\ JobGood(p) /\ job[p] \in Job
      /\ run[p] \in Nat /\ seq[p] \in Nat
  BY CheckpointStepKeeps DEF RInv, IInv, TypeOK
<1>3. job[p].task \in Task /\ job[p].next \in Nat /\ results \in Seq(Result)
  BY <1>1, <1>2 DEF JobGood, JobWhole, Job, Result
<1>4. body \in Checkpoint
  BY <1>2, <1>3 DEF Checkpoint, Id
<1> HIDE DEF results
<1>5. /\ event \in Event /\ event.kind = "state.checkpoint" /\ event.run = run[p]
      /\ event.body.id = <<run[p], job[p].next>> /\ event.body.task = job[p].task
      /\ event.body.next = job[p].next + 1 /\ IsCheckpoint(event)
  BY <1>2, <1>4 DEF Event, Stamped, IsCheckpoint
<1> HIDE DEF event
<1>6. Longer(log', log, event)
  BY <1>1, <1>2, <1>5, GrownLonger
<1>7. /\ job'[p].task = job[p].task /\ job'[p].restored = job[p].restored
      /\ job'[p].next = job[p].next + 1 /\ job'[p].read = job[p].read
  BY <1>1, <1>2, <1>3, AdvancedJob DEF TypeOK
<1>8. /\ PastItsOwn(log, run[p], job[p]) /\ PastRestored(log, "working", run[p], job[p])
      /\ job[p].read \in 0..Len(log) /\ ReadsBack(log)
  BY <1>1 DEF RInv, JobAnew, RecordAnew
<1>9. \A i \in DOMAIN log : IsCheckpoint(log[i]) =>
          /\ log[i].body.next \in Nat
          /\ log[i].body.id = <<log[i].run, log[i].body.next - 1>>
  BY <1>2, EventBodies DEF RInv, RecordAnew, NamesOwn, IsCheckpoint, Checkpoint
<1>10. \A i \in DOMAIN log : IsCheckpoint(log[i]) => log[i].body.id # event.body.id
  <2> SUFFICES ASSUME NEW i \in DOMAIN log, IsCheckpoint(log[i]), log[i].body.id = event.body.id
               PROVE  FALSE
    OBVIOUS
  <2>1. log[i].run = run[p] /\ log[i].body.next - 1 = job[p].next
    BY <1>5, <1>9
  <2>2. log[i].body.next <= job[p].next
    BY <1>8, <2>1 DEF PastItsOwn
  <2> QED
    BY <1>3, <1>9, <2>1, <2>2
<1>11. \A o \in DOMAIN log :
           log[o].kind = "run.open" /\ log[o].run = run[p] /\ log[o].body.restored # NoCheckpoint =>
               \E m \in DOMAIN log :
                   /\ LastOf(m, Legible(log, job[p].task, log[o].body.after))
                   /\ log[m].body.next <= job[p].next
  BY <1>8 DEF PastRestored
<1>12. ASSUME NEW task, NEW n, NEW m \in DOMAIN log, LastOf(m, Legible(log, task, n))
       PROVE  log[m].body.next \in Nat
  BY <1>9, <1>12 DEF LastOf, Legible
<1>13. RecordAnew(log', gone')
  <2>1. \A i \in DOMAIN log :
            IsCheckpoint(log[i]) => (log[i].body \in gone' <=> log[i].body \in gone)
    BY <1>1, <1>2, <1>5, <1>10, OthersStayGone
  <2>2. RecordAnew(log, gone)
    BY DEF RInv
  <2>3. event.body \notin gone'
    BY <1>1
  <2>4. event.body.id = <<event.run, event.body.next - 1>>
    BY <1>3, <1>5
  <2>5. \A o \in DOMAIN log :
            log[o].kind = "run.open" /\ log[o].run = event.run /\ log[o].body.restored # NoCheckpoint =>
                \E m \in DOMAIN log :
                    /\ LastOf(m, Legible(log, event.body.task, log[o].body.after))
                    /\ log[m].body.next < event.body.next
    <3> SUFFICES ASSUME NEW o \in DOMAIN log, log[o].kind = "run.open", log[o].run = event.run,
                        log[o].body.restored # NoCheckpoint
                 PROVE  \E m \in DOMAIN log :
                            /\ LastOf(m, Legible(log, event.body.task, log[o].body.after))
                            /\ log[m].body.next < event.body.next
      OBVIOUS
    <3>1. PICK m \in DOMAIN log :
              /\ LastOf(m, Legible(log, job[p].task, log[o].body.after))
              /\ log[m].body.next <= job[p].next
      BY <1>5, <1>11
    <3>2. log[m].body.next < event.body.next
      BY <1>3, <1>5, <1>12, <3>1
    <3> QED
      BY <1>5, <3>1, <3>2
  <2>6. event.kind # "run.open" /\ event.kind # "retention.expire"
    BY <1>5
  <2> QED
    BY <1>6, <1>10, <2>1, <2>2, <2>3, <2>4, <2>5, <2>6, RecordGrowsAnew
<1>14. /\ \A i \in DOMAIN log : i \in DOMAIN log' /\ log'[i] = log[i]
       /\ \A i \in DOMAIN log' : (i \in DOMAIN log /\ log'[i] = log[i])
                                 \/ (i = Len(log) + 1 /\ log'[i] = event)
  BY <1>6 DEF Longer
<1>15. PastItsOwn(log', run[p], job'[p])
  <2> SUFFICES ASSUME NEW i \in DOMAIN log', IsCheckpoint(log'[i]), log'[i].run = run[p]
               PROVE  log'[i].body.next <= job[p].next + 1
    BY <1>7 DEF PastItsOwn
  <2>1. CASE i \in DOMAIN log /\ log'[i] = log[i]
    <3>1. log[i].body.next <= job[p].next /\ log[i].body.next \in Nat
      BY <1>8, <1>9, <2>1 DEF PastItsOwn
    <3> QED
      BY <1>3, <2>1, <3>1
  <2>2. CASE log'[i] = event
    BY <1>3, <1>5, <2>2
  <2> QED
    BY <1>14, <2>1, <2>2
<1>16. PastRestored(log', "working", run[p], job'[p])
  <2> SUFFICES ASSUME NEW o \in DOMAIN log', log'[o].kind = "run.open", log'[o].run = run[p],
                      log'[o].body.restored # NoCheckpoint
               PROVE  \E m \in DOMAIN log' :
                          /\ LastOf(m, Legible(log', job[p].task, log'[o].body.after))
                          /\ log'[m].body.next <= job[p].next + 1
    BY <1>7 DEF PastRestored
  <2>1. o \in DOMAIN log /\ log'[o] = log[o]
    BY <1>5, <1>14
  <2>2. PICK m \in DOMAIN log :
            /\ LastOf(m, Legible(log, job[p].task, log[o].body.after))
            /\ log[m].body.next <= job[p].next
    BY <1>11, <2>1
  <2>3. Legible(log', job[p].task, log[o].body.after) = Legible(log, job[p].task, log[o].body.after)
    <3>1. log[o].body.after \in 0..Len(log)
      BY <1>8, <2>1 DEF ReadsBack
    <3> QED
      BY <1>6, <3>1, LegibleStays
  <2>4. log[m].body.next <= job[p].next + 1
    BY <1>3, <1>12, <2>2
  <2>5. m \in DOMAIN log' /\ log'[m] = log[m]
    BY <1>14
  <2> QED
    BY <2>1, <2>2, <2>3, <2>4, <2>5
<1>17. job'[p].read \in 0..Len(log')
  BY <1>6, <1>7, <1>8 DEF Longer
<1>18. ASSUME NEW q \in Process PROVE JobAnew(log', phase'[q], run'[q], job'[q])
  <2>1. CASE q = p
    BY <1>1, <1>15, <1>16, <1>17, <2>1 DEF JobAnew
  <2>2. CASE q # p
    <3>1. phase'[q] = phase[q] /\ run'[q] = run[q] /\ job'[q] = job[q]
      BY <1>1, <1>2, <2>2 DEF TypeOK
    <3>2. phase[q] # "closed" => event.run # run[q]
      BY <1>1, <1>2, <1>5, <2>2, OwnRun
    <3>3. JobAnew(log, phase[q], run[q], job[q])
      BY DEF RInv
    <3> QED
      BY <1>6, <1>8, <3>1, <3>2, <3>3, OthersKeepAnew
  <2> QED
    BY <2>1, <2>2
<1> QED
  BY <1>2, <1>13, <1>18 DEF RInv

\* A run that ends leaves the other jobs as far as they were.
LEMMA SealKeepsAnew ==
    ASSUME RInv, NEW p \in Process, Seal(p)
    PROVE  RInv'
<1> DEFINE body  == [task |-> job[p].task, outcome |-> "complete", steps |-> Len(job[p].results)]
           event == Stamped(run[p], seq[p], "run.seal", body)
<1>1. /\ log' = Append(log, event) /\ gone' = gone \ {event.body}
      /\ phase' = [phase EXCEPT ![p] = "closed"] /\ phase[p] = "working"
      /\ run' = [run EXCEPT ![p] = NoRun] /\ job' = [job EXCEPT ![p] = NoJob]
  BY DEF Seal, Depart, Leave, Goto, Stamped
<1>2. /\ IInv /\ IInv' /\ TypeOK /\ JobGood(p) /\ job[p] \in Job
      /\ run[p] \in Nat /\ seq[p] \in Nat
  BY SealKeeps DEF RInv, IInv, TypeOK
<1>3. body \in Sealing
  BY <1>1, <1>2 DEF Sealing, JobGood, JobWhole, Job
<1>4. event \in Event /\ event.kind = "run.seal" /\ ~IsCheckpoint(event)
  BY <1>2, <1>3 DEF Event, Stamped, IsCheckpoint
<1> HIDE DEF event
<1>5. Longer(log', log, event)
  BY <1>1, <1>2, <1>4, GrownLonger
<1>6. RecordAnew(log', gone')
  <2>1. \A i \in DOMAIN log :
            IsCheckpoint(log[i]) => (log[i].body \in gone' <=> log[i].body \in gone)
    BY <1>1, <1>2, <1>4, OthersStayGone
  <2>2. RecordAnew(log, gone)
    BY DEF RInv
  <2> QED
    BY <1>4, <1>5, <2>1, <2>2, RecordGrowsAnew
<1>7. ASSUME NEW q \in Process PROVE JobAnew(log', phase'[q], run'[q], job'[q])
  <2>1. CASE q = p
    BY <1>1, <1>2, <2>1 DEF TypeOK, JobAnew
  <2>2. CASE q # p
    <3>1. phase'[q] = phase[q] /\ run'[q] = run[q] /\ job'[q] = job[q]
      BY <1>1, <1>2, <2>2 DEF TypeOK
    <3>2. JobAnew(log, phase[q], run[q], job[q]) /\ ReadsBack(log)
      BY DEF RInv, RecordAnew
    <3> QED
      BY <1>4, <1>5, <3>1, <3>2, OthersKeepAnew
  <2> QED
    BY <2>1, <2>2
<1> QED
  BY <1>2, <1>6, <1>7 DEF RInv

LEMMA KillKeepsAnew ==
    ASSUME RInv, NEW p \in Process, Kill(p)
    PROVE  RInv'
<1>1. /\ log' = log /\ gone' = gone /\ phase' = [phase EXCEPT ![p] = "closed"]
      /\ run' = [run EXCEPT ![p] = NoRun] /\ job' = [job EXCEPT ![p] = NoJob]
  BY DEF Kill, Die, Exit, Leave, Goto
<1>2. IInv /\ IInv' /\ TypeOK
  BY KillKeeps DEF RInv, IInv
<1>3. ASSUME NEW q \in Process PROVE JobAnew(log', phase'[q], run'[q], job'[q])
  <2>1. CASE q = p
    BY <1>1, <1>2, <2>1 DEF TypeOK, JobAnew
  <2>2. CASE q # p
    BY <1>1, <1>2, <2>2 DEF TypeOK, RInv
  <2> QED
    BY <2>1, <2>2
<1> QED
  BY <1>1, <1>2, <1>3 DEF RInv

LEMMA ExpireKeepsAnew ==
    ASSUME RInv, NEW i \in DOMAIN log, Expire(i), UNCHANGED durableVars
    PROVE  RInv'
<1> DEFINE event == Stamped(NoRun, 0, "retention.expire", [event |-> i])
<1>1. /\ log' = Append(log, event) /\ gone' = gone \cup {log[i].body} /\ phase' = phase
      /\ \A p \in Process : ~IsOpen(p)
  BY DEF Expire, durableVars
<1>2. IInv /\ IInv' /\ TypeOK
  BY ExpireKeeps DEF RInv, IInv
<1>3. event \in Event /\ event.kind = "retention.expire" /\ event.body.event = i
  BY <1>2 DEF TypeOK, Event, Expiry, Stamped, NoRun
<1> HIDE DEF event
<1>4. Longer(log', log, event)
  BY <1>1, <1>2, <1>3, GrownLonger
<1>5. ASSUME NEW k \in DOMAIN log, IsCheckpoint(log[k]), ~IsCheckpoint(log[i])
      PROVE  log[k].body # log[i].body
  <2>1. log[k] \in Event /\ log[i] \in Event
    BY <1>2, EventBodies
  <2> QED
    BY <1>5, <2>1, BodiesDiffer
<1>6. RecordAnew(log', gone')
  <2>1. RecordAnew(log, gone)
    BY DEF RInv
  <2>2. RecordAnew(log', gone \cup {log[i].body})
    BY <1>3, <1>4, <1>5, <2>1, RecordExpires
  <2> QED
    BY <1>1, <2>2
<1>7. \A q \in Process : phase'[q] = "closed"
  BY <1>1, <1>2 DEF IInv, RunsApart, IsOpen
<1> QED
  BY <1>2, <1>6, <1>7 DEF RInv, JobAnew

LEMMA StepKeepsAnew == RInv /\ [Next]_vars => RInv'
<1> SUFFICES ASSUME RInv, [Next]_vars PROVE RInv'
  OBVIOUS
<1>1. ASSUME NEW p \in Process, NEW t \in Task, OpenFresh(p, t) \/ Resume(p, t) PROVE RInv'
  BY <1>1, OpenFreshKeepsAnew, ResumeKeepsAnew
<1>2. ASSUME NEW p \in Process, DeclareOpen(p) PROVE RInv'
  BY <1>2, DeclareOpenKeepsAnew
<1>3. ASSUME NEW p \in Process, NEW c \in Content, CheckpointStep(p, c) PROVE RInv'
  BY <1>3, CheckpointStepKeepsAnew
<1>4. ASSUME NEW p \in Process, Seal(p) PROVE RInv'
  BY <1>4, SealKeepsAnew
<1>5. ASSUME NEW p \in Process, Kill(p) PROVE RInv'
  BY <1>5, KillKeepsAnew
<1>6. ASSUME NEW i \in DOMAIN log, Expire(i), UNCHANGED durableVars PROVE RInv'
  BY <1>6, ExpireKeepsAnew
<1>7. CASE UNCHANGED vars
  <2>1. UNCHANGED <<log, gone, run, phase, job>>
    BY <1>7 DEF vars, logVars, durableVars
  <2>2. IInv'
    BY <1>7, StepKeepsGood DEF RInv
  <2> QED
    BY <2>1, <2>2 DEF RInv
<1> QED
  BY <1>1, <1>2, <1>3, <1>4, <1>5, <1>6, <1>7 DEF Next

\* What was lost to the prefix of the log up to the opening is what had expired
\* by it, so the latest checkpoint left is the one the record is past.
LEMMA AnewRepeatsNothing == RInv => NoStepIsRepeated
<1> SUFFICES ASSUME RInv, NEW t \in Task, NEW i \in Checkpoints(t), NEW o \in OpeningOf(i),
                    log[o].body.restored # NoCheckpoint
             PROVE  LET after  == log[o].body.after
                        lost   == {log[x].body.event :
                                      x \in OfKind(SubSeq(log, 1, after), "retention.expire")}
                        before == {k \in Checkpoints(t) : k <= after} \ lost
                    IN  log[i].body.next > log[Max(before)].body.next
  BY DEF NoStepIsRepeated
<1> DEFINE n      == log[o].body.after
           lost   == {log[x].body.event : x \in OfKind(SubSeq(log, 1, n), "retention.expire")}
           before == {k \in Checkpoints(t) : k <= n} \ lost
<1>1. /\ TypeOK /\ Anew(log) /\ ReadsBack(log)
      /\ i \in DOMAIN log /\ IsCheckpoint(log[i]) /\ log[i].body.task = t
      /\ o \in DOMAIN log /\ log[o].kind = "run.open" /\ log[o].run = log[i].run
  BY DEF RInv, IInv, RecordAnew, Checkpoints, OpeningOf, OfKind, IsCheckpoint
<1>2. PICK m \in DOMAIN log :
          LastOf(m, Legible(log, t, n)) /\ log[m].body.next < log[i].body.next
  BY <1>1 DEF Anew
<1>3. /\ log \in Seq(Event) /\ n \in 0..Len(log) /\ Len(log) \in Nat
      /\ DOMAIN log = 1..Len(log)
  BY <1>1 DEF TypeOK, ReadsBack
<1> HIDE DEF n
<1>4. /\ DOMAIN SubSeq(log, 1, n) = 1..n
      /\ \A x \in 1..n : SubSeq(log, 1, n)[x] = log[x]
  BY <1>3
<1>5. OfKind(SubSeq(log, 1, n), "retention.expire") =
          {x \in DOMAIN log : x <= n /\ log[x].kind = "retention.expire"}
  <2>1. 1..n = {x \in DOMAIN log : x <= n}
    BY <1>3
  <2> QED
    BY <1>4, <2>1 DEF OfKind
<1>6. \A k : k \in lost <=> ExpiredBy(log, n, k)
  BY <1>5 DEF ExpiredBy
<1>7. before = Legible(log, t, n)
  BY <1>6 DEF Legible, Checkpoints, OfKind, IsCheckpoint
<1>8. /\ m \in before /\ \A k \in before : k <= m
      /\ \A k \in before : k \in Nat
  BY <1>2, <1>3, <1>7 DEF LastOf, Legible
<1> HIDE DEF before
<1>9. Max(before) = m
  <2>1. \A x \in before : (\A k \in before : x >= k) => x = m
    BY <1>8
  <2>2. \A k \in before : m >= k
    BY <1>8
  <2> QED
    BY <1>8, <2>1, <2>2 DEF Max
<1>10. log[i].body.next \in Nat /\ log[m].body.next \in Nat
  <2>1. IsCheckpoint(log[m])
    BY <1>2 DEF LastOf, Legible
  <2> QED
    BY <1>1, <2>1, EventBodies DEF IsCheckpoint, Checkpoint
<1>11. log[i].body.next > log[Max(before)].body.next
  BY <1>2, <1>9, <1>10
<1> QED
  BY <1>11 DEF before, n

\* What a checkpoint that could be read has kept is never done again, whatever
\* expires between a kill and the resume, and whoever else is at work on the
\* task (last_checkpoint, DurableRun::resume and checkpoint_step).
THEOREM NoStepsRepeat == Recorded = <<>> /\ Spec => []NoStepIsRepeated
  BY InitIsAnew, StepKeepsAnew, AnewRepeatsNothing, PTL DEF Spec

=============================================================================
