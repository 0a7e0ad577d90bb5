---------------------------- MODULE Orchestrator ----------------------------
(***************************************************************************)
(* `trunnion orchestrate step` (src/src/trust.rs, Orchestrator): one       *)
(* process runs a capability's sensor once, records the outcome as a       *)
(* capability.run and demotes or promotes on the history it has in memory. *)
(* What it read when it opened the ledger is all it knows of others.       *)
(***************************************************************************)
EXTENDS EventLog, Trust

CONSTANT Orchestrators      \* processes that run `trunnion orchestrate step`

ASSUME OrchestratorAssumption == Orchestrators \subseteq Process

VARIABLES
    stage,      \* stage[o]: where o is
    task        \* task[o]: the capability o steps, and the promoter once approved

orchestratorVars == <<stage, task>>

NoTask == [cap |-> NoCap, promoter |-> "none"]

OrchestratorInit ==
    /\ stage = [o \in Orchestrators |-> "closed"]
    /\ task = [o \in Orchestrators |-> NoTask]

MoveTo(o, label) == stage' = [stage EXCEPT ![o] = label]

\* Orchestrator::open, with its run.open.
StartStep(o, cap) ==
    /\ stage[o] = "closed"
    /\ OpenRun(o, <<"run.open">>, [workload |-> "orchestrate"])
    /\ task' = [task EXCEPT ![o].cap = cap]
    /\ MoveTo(o, "sensing")

\* run_sensor: any verdict but a pass is not clean.
Sense(o, verdict) ==
    /\ stage[o] = "sensing"
    /\ Emit(o, "sensor.verdict", [verdict |-> verdict])
    /\ MoveTo(o, IF verdict = "pass" THEN "clean" ELSE "failed")
    /\ UNCHANGED task

\* The rung step() replays before anything else; nothing o appends until the
\* rung.change moves it.
Before(o) == EarnedRung(view[o], task[o].cap)

RecordRun(o, outcome) ==
    Emit(o, "capability.run", [cap |-> task[o].cap, rung |-> Before(o), outcome |-> outcome])

RecordFailure(o) ==
    /\ stage[o] = "failed"
    /\ RecordRun(o, "sensor.fail")
    /\ MoveTo(o, IF "sensor.fail" \in Triggers /\ HasDown(Before(o)) THEN "demoting" ELSE "sealing")
    /\ UNCHANGED task

RecordClean(o) ==
    /\ stage[o] = "clean"
    /\ RecordRun(o, "clean")
    /\ MoveTo(o, IF PromotionEarned(Replay(view'[o], task[o].cap)) THEN "promoting" ELSE "sealing")
    /\ UNCHANGED task

DemoteOnFailure(o) ==
    /\ stage[o] = "demoting"
    /\ Emit(o, "rung.change",
            RungChange(task[o].cap, Before(o), Down(Before(o)), "demotion", "none"))
    /\ MoveTo(o, "sealing")
    /\ UNCHANGED task

\* emit_rung_change: the approval first, then the change it authorises.
ApprovePromotion(o, who) ==
    /\ stage[o] = "promoting"
    /\ who \in Approvers
    /\ Emit(o, "approval", Approval(<<NoRun, 0>>, "approve", "none", "none", who, <<NoRun, 0>>))
    /\ task' = [task EXCEPT ![o].promoter = who]
    /\ MoveTo(o, "promoted")

Promote(o) ==
    /\ stage[o] = "promoted"
    /\ Emit(o, "rung.change",
            RungChange(task[o].cap, Before(o), Up(Before(o)), "earned", task[o].promoter))
    /\ MoveTo(o, "sealing")
    /\ UNCHANGED task

EndStep(o) ==
    /\ task' = [task EXCEPT ![o] = NoTask]
    /\ MoveTo(o, "closed")

SealStep(o) ==
    /\ stage[o] = "sealing"
    /\ SealRun(o, "complete", 0)
    /\ EndStep(o)

\* The artifact cannot be read, no promoter is named or not a permitted one:
\* the process exits and its run stays unsealed.
FailStep(o) ==
    /\ stage[o] \in {"sensing", "promoting"}
    /\ Leave(o)
    /\ EndStep(o)
    /\ UNCHANGED <<log, gone>>

KillStep(o) ==
    /\ Die(o)
    /\ EndStep(o)

OrchestratorStep(o) ==
    \/ \E cap \in CapId : StartStep(o, cap)
    \/ \E verdict \in {"pass", "fail"} : Sense(o, verdict)
    \/ RecordFailure(o)
    \/ RecordClean(o)
    \/ DemoteOnFailure(o)
    \/ \E who \in Identity : ApprovePromotion(o, who)
    \/ Promote(o)
    \/ SealStep(o)
    \/ FailStep(o)
    \/ KillStep(o)

OrchestratorNext == \E o \in Orchestrators : OrchestratorStep(o)

=============================================================================
