------------------------------- MODULE Sensor -------------------------------
(***************************************************************************)
(* The sensor bus (src/src/sensor.rs) as `trunnion sensor gate` drives it  *)
(* (src/src/main.rs): a sensor is tried on its own controls and then on an *)
(* artifact, and each verdict goes on the ledger.  A blocking failure may  *)
(* be handed to a model, once, whose answer replaces the artifact before   *)
(* the second attempt.  The model's call is on a ledger of its own.        *)
(***************************************************************************)
EXTENDS EventLog

CONSTANTS
    SensorRuns,     \* the processes that gate an artifact
    Sensors,        \* the sensor definitions on disk
    Text            \* what the artifact may hold

ASSUME SensorAssumption ==
    /\ SensorRuns \subseteq Process
    /\ \A sensor \in Sensors : sensor.blocking \in BOOLEAN

VARIABLES
    artifact,       \* what the artifact holds, Null when it cannot be read
    gate            \* gate[p]: the sensor p runs, where it is, what it remembers

sensorVars == <<artifact, gate>>

NoSensor == "none"

NoGate == [sensor |-> NoSensor, repairs |-> FALSE, stage |-> "closed",
           blocked |-> FALSE, broken |-> FALSE]

SensorInit ==
    /\ artifact \in Text
    /\ gate = [p \in SensorRuns |-> NoGate]

-----------------------------------------------------------------------------
\* Sensor::validate: the fix names something, the check names its target, and
\* there is an input it must reject.
Loads(sensor) == sensor.fix /\ sensor.targeted /\ sensor.negative # {}

\* run_check: a check passes what it does not reject.
Passes(sensor, text) == text \notin sensor.rejects

\* liveness_failure: a control goes the wrong way.
Broken(sensor) ==
    \/ \E control \in sensor.negative : Passes(sensor, control)
    \/ \E control \in sensor.positive : ~Passes(sensor, control)

\* Sensor::evaluate: the controls come first.
Evaluate(sensor, text) ==
    LET Verdict(verdict, blocked) ==
            [sensor |-> sensor.id, verdict |-> verdict, blocked |-> blocked]
    IN  IF Broken(sensor) THEN Verdict("broken", sensor.blocking)
        ELSE IF Passes(sensor, text) THEN Verdict("pass", FALSE)
        ELSE Verdict("fail", sensor.blocking)

OpenSensorRun(p, sensor, repairs) ==
    /\ Loads(sensor)
    /\ OpenRun(p, <<"run.open">>, [workload |-> "sensor", sensor |-> sensor.id])
    /\ gate' = [gate EXCEPT ![p] = [NoGate EXCEPT !.sensor = sensor, !.repairs = repairs,
                                                  !.stage = "first"]]
    /\ UNCHANGED artifact

\* Mutant: the second verdict is the one that is remembered.
GateForgets(p) ==
    LET verdict == Evaluate(gate[p].sensor, artifact)
        again   == gate[p].stage = "first" /\ gate[p].repairs
    IN  /\ gate[p].stage \in {"first", "second"}
        /\ artifact # Null
        /\ Emit(p, "sensor.verdict", verdict)
        /\ gate' = [gate EXCEPT
              ![p].blocked = verdict.blocked,
              ![p].broken = verdict.verdict = "broken",
              ![p].stage = IF again /\ verdict.verdict = "fail" /\ verdict.blocked
                           THEN "repair" ELSE "seal"]
        /\ UNCHANGED artifact

\* SensorRun::gate: what blocked or broke is remembered until the seal.
Gate(p) ==
    LET verdict == Evaluate(gate[p].sensor, artifact)
        again   == gate[p].stage = "first" /\ gate[p].repairs
    IN  /\ gate[p].stage \in {"first", "second"}
        /\ artifact # Null
        /\ Emit(p, "sensor.verdict", verdict)
        /\ gate' = [gate EXCEPT
              ![p].blocked = @ \/ verdict.blocked,
              ![p].broken = @ \/ verdict.verdict = "broken",
              ![p].stage = IF again /\ verdict.verdict = "fail" /\ verdict.blocked
                           THEN "repair" ELSE "seal"]
        /\ UNCHANGED artifact

\* repair_artifact: the model's answer is the artifact.
RepairArtifact(p, answer) ==
    /\ gate[p].stage = "repair"
    /\ artifact # Null
    /\ artifact' = answer
    /\ gate' = [gate EXCEPT ![p].stage = "second"]
    /\ UNCHANGED logVars

\* SensorRun::seal.
SealSensorRun(p) ==
    /\ gate[p].stage = "seal"
    /\ Depart(p, "run.seal",
              [outcome |-> IF gate[p].broken THEN "sealed-with-broken-sensor"
                           ELSE IF gate[p].blocked THEN "sealed-with-blocking-failure"
                           ELSE "clean"])
    /\ gate' = [gate EXCEPT ![p] = NoGate]
    /\ UNCHANGED artifact

\* The artifact cannot be read, or the model did not answer.
FailSensorRun(p) ==
    /\ \/ gate[p].stage \in {"first", "second", "repair"} /\ artifact = Null
       \/ gate[p].stage = "repair"
    /\ Exit(p)
    /\ gate' = [gate EXCEPT ![p] = NoGate]
    /\ UNCHANGED artifact

KillSensorRun(p) ==
    /\ Die(p)
    /\ gate' = [gate EXCEPT ![p] = NoGate]
    /\ UNCHANGED artifact

\* Somebody else writes the artifact, or takes it away.
Edit(text) ==
    /\ artifact' = text
    /\ UNCHANGED <<logVars, gate>>

SensorNext ==
    \/ \E p \in SensorRuns :
          \/ \E sensor \in Sensors, repairs \in BOOLEAN : OpenSensorRun(p, sensor, repairs)
          \/ Gate(p)
          \/ \E answer \in Text : RepairArtifact(p, answer)
          \/ SealSensorRun(p)
          \/ FailSensorRun(p)
          \/ KillSensorRun(p)
    \/ \E text \in Text \cup {Null} : Edit(text)

=============================================================================
