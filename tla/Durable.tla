------------------------------ MODULE Durable ------------------------------
(***************************************************************************)
(* Durable tasks (src/src/durable.rs) as `trunnion durable run` and        *)
(* `trunnion durable resume` drive them (src/src/main.rs): a run does the  *)
(* steps of a task in order and checkpoints each on the ledger; killed, it *)
(* is resumed from the last checkpoint another process can still read.     *)
(* Meanwhile payloads expire, and a checkpoint whose payload is gone is no *)
(* longer seen.                                                            *)
(***************************************************************************)
EXTENDS EventLog, SequencesExt

CONSTANTS
    Task,       \* task names
    Steps,      \* steps of a task: the files every run of it is given
    Content     \* what a step's file may hold when it is read

ASSUME DurableAssumption == Steps \in Nat \ {0}

VARIABLES
    phase,      \* phase[p]: where p is
    job         \* job[p]: the task p runs, the length of the log p read, the
                \* checkpoint it restored from it, its results

durableVars == <<phase, job>>

vars == <<logVars, durableVars>>

NoCheckpoint == <<NoRun, 0>>

NoJob == [task |-> "none", read |-> 0, restored |-> NoCheckpoint, next |-> 0, results |-> <<>>]

Init ==
    /\ LogInit
    /\ phase = [p \in Process |-> "closed"]
    /\ job = [p \in Process |-> NoJob]

Goto(p, label) == phase' = [phase EXCEPT ![p] = label]

-----------------------------------------------------------------------------
Checkpoints(task) ==
    {i \in OfKind(log, "state.checkpoint") : log[i].body.task = task}

\* last_checkpoint looks among those it can read.
Restorable(task) == {i \in Checkpoints(task) : log[i].body \notin gone}

\* The last of them.
LastReadable(task, i) == i \in Restorable(task) /\ \A k \in Restorable(task) : k <= i

\* Ledger::open of `durable run`: a fresh run.
OpenFresh(p, task) ==
    /\ OpenRun(p, <<>>, <<>>)
    /\ job' = [job EXCEPT ![p] = [task |-> task, read |-> Len(log), restored |-> NoCheckpoint,
                                  next |-> 0, results |-> <<>>]]
    /\ Goto(p, "opening")

\* Mutant: the first checkpoint is restored.
ResumeFromFirst(p, task) ==
    \E i \in Restorable(task) :
        /\ \A k \in Restorable(task) : k >= i
        /\ OpenRun(p, <<>>, <<>>)
        /\ LET checkpoint == log[i].body
           IN  job' = [job EXCEPT ![p] = [task |-> task, read |-> Len(log), restored |-> checkpoint.id,
                                          next |-> checkpoint.next, results |-> checkpoint.results]]
        /\ Goto(p, "opening")

\* Mutant: the cursor is restored and the results are not.
ResumeCursorOnly(p, task) ==
    \E i \in DOMAIN log :
        /\ LastReadable(task, i)
        /\ OpenRun(p, <<>>, <<>>)
        /\ LET checkpoint == log[i].body
           IN  job' = [job EXCEPT ![p] = [task |-> task, read |-> Len(log), restored |-> checkpoint.id,
                                          next |-> checkpoint.next, results |-> <<>>]]
        /\ Goto(p, "opening")

\* DurableRun::resume: refused without a checkpoint.
Resume(p, task) ==
    \E i \in DOMAIN log :
        /\ LastReadable(task, i)
        /\ OpenRun(p, <<>>, <<>>)
        /\ LET checkpoint == log[i].body
           IN  job' = [job EXCEPT ![p] = [task |-> task, read |-> Len(log), restored |-> checkpoint.id,
                                          next |-> checkpoint.next, results |-> checkpoint.results]]
        /\ Goto(p, "opening")

\* The run.open a run begins with.  "after" stands for its prev_hash, the last
\* event this process read: another may append before it does.
DeclareOpen(p) ==
    /\ phase[p] = "opening"
    /\ Emit(p, "run.open", [workload |-> job[p].task, after |-> job[p].read, restored |-> job[p].restored])
    /\ Goto(p, "working")
    /\ UNCHANGED job

\* The job after a step: its results so far, and the step to do next.
Advanced(j, results) ==
    [j EXCEPT !.next = @ + 1, !.results = results]

\* Mutant: the cursor points past the step after this one.
CheckpointStepTwo(p, content) ==
    /\ phase[p] = "working"
    /\ job[p].next < Steps
    /\ LET results == Append(job[p].results, [step |-> job[p].next, content |-> content])
       IN  /\ Emit(p, "state.checkpoint",
                   [id |-> <<run[p], job[p].next>>, task |-> job[p].task,
                    next |-> job[p].next + 2, results |-> results])
           /\ job' = [job EXCEPT ![p] = Advanced(@, results)]
    /\ UNCHANGED phase

\* One step: its file is read, its result joins those before it, and the whole
\* vector is checkpointed.
CheckpointStep(p, content) ==
    /\ phase[p] = "working"
    /\ job[p].next < Steps
    /\ LET results == Append(job[p].results, [step |-> job[p].next, content |-> content])
       IN  /\ Emit(p, "state.checkpoint",
                   [id |-> <<run[p], job[p].next>>, task |-> job[p].task,
                    next |-> job[p].next + 1, results |-> results])
           /\ job' = [job EXCEPT ![p] = Advanced(@, results)]
    /\ UNCHANGED phase

Seal(p) ==
    /\ phase[p] = "working"
    /\ job[p].next >= Steps
    /\ Depart(p, "run.seal",
              [task |-> job[p].task, outcome |-> "complete", steps |-> Len(job[p].results)])
    /\ job' = [job EXCEPT ![p] = NoJob]
    /\ Goto(p, "closed")

\* The exit of crash-after, a step file that cannot be read, or a kill.
Kill(p) ==
    /\ Die(p)
    /\ job' = [job EXCEPT ![p] = NoJob]
    /\ Goto(p, "closed")

Next ==
    \/ \E p \in Process :
          \/ \E t \in Task : OpenFresh(p, t) \/ Resume(p, t)
          \/ DeclareOpen(p)
          \/ \E c \in Content : CheckpointStep(p, c)
          \/ Seal(p)
          \/ Kill(p)
    \/ \E i \in DOMAIN log : Expire(i) /\ UNCHANGED durableVars

Spec == Init /\ [][Next]_vars

-----------------------------------------------------------------------------
(* Properties *)

\* Where the run of event i began, if it did.
OpeningOf(i) == {o \in OfKind(log, "run.open") : log[o].run = log[i].run}

\* A checkpoint is a complete restore point: it carries one result for each
\* step before the one it resumes at, in order (checkpoint_step).
CheckpointRestoresAll ==
    \A t \in Task : \A i \in Checkpoints(t) :
        LET body == log[i].body
        IN  /\ Len(body.results) = body.next
            /\ \A n \in DOMAIN body.results : body.results[n].step = n - 1

\* What a resumed run declares it restored is in everything it records: its
\* checkpoints begin with the very results of the checkpoint its run.open
\* names, which a killed or an earlier run of the same task left.
ResumeCarriesOver ==
    \A t \in Task : \A i \in Checkpoints(t) : \A o \in OpeningOf(i) :
        log[o].body.restored # NoCheckpoint =>
            \E k \in Checkpoints(t) :
                /\ k < o
                /\ log[k].body.id = log[o].body.restored
                /\ IsPrefix(log[k].body.results, log[i].body.results)

\* No step whose checkpoint can be read is done again: a resumed run records
\* only checkpoints past the latest one that was on the log, its payload not
\* expired, when the run read it ("nothing produced before the kill is lost"),
\* also while other processes are at work on the task.
NoStepIsRepeated ==
    \A t \in Task : \A i \in Checkpoints(t) : \A o \in OpeningOf(i) :
        LET after  == log[o].body.after
            lost   == {log[x].body.event : x \in OfKind(SubSeq(log, 1, after), "retention.expire")}
            before == {k \in Checkpoints(t) : k <= after} \ lost
        IN  log[o].body.restored # NoCheckpoint =>
                log[i].body.next > log[Max(before)].body.next

\* A sealed task is whole: the count its seal gives is that of its steps, and
\* the last checkpoint of its run, or the one it restored, carries a result for
\* each (durable_run and durable_resume, seal "complete").
SealedTaskIsWhole ==
    \A s \in OfKind(log, "run.seal") :
        /\ log[s].body.steps = Steps
        /\ \E i \in Checkpoints(log[s].body.task) :
              /\ i < s
              /\ log[i].body.next = Steps
              /\ \/ log[i].run = log[s].run
                 \/ \E o \in OpeningOf(s) : log[o].body.restored = log[i].body.id

=============================================================================
