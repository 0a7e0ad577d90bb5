-------------------------------- MODULE Drift --------------------------------
(***************************************************************************)
(* `trunnion drift` (src/src/drift.rs, src/src/main.rs): every field of    *)
(* the profile is compared with what the running system can be asked, one  *)
(* report for each goes on the ledger, and the seal counts them.  Half of  *)
(* what it reads it reads off that same ledger.                            *)
(***************************************************************************)
EXTENDS Profile

CONSTANTS
    DriftRuns,      \* the processes that scan
    Fields,         \* the fields in the policy's order: name, source, declared value
    Files           \* what the instruction pack and the host settings may hold

ASSUME DriftAssumption ==
    /\ DriftRuns \subseteq Process
    /\ Fields \in Seq({Fields[i] : i \in DOMAIN Fields})

VARIABLES
    pack,           \* the instruction pack, Null when it is missing
    settings,       \* the host settings, Null when there are none
    reports         \* reports[p]: what p found, and is putting on the ledger

driftVars == <<pack, settings, reports>>

DriftInit ==
    /\ pack \in Files
    /\ settings \in Files \cup {Null}
    /\ reports = [p \in DriftRuns |-> <<>>]

-----------------------------------------------------------------------------
\* Whether the run of an event has a signer: the sensor bus has none, and an
\* event of no run is never signed.
Attested(events, i) ==
    /\ events[i].run # NoRun
    /\ ~\E j \in OfKind(events, "run.open") :
           events[j].run = events[i].run /\ events[j].body.workload = "sensor"

\* drift::read, of a ledger with these events: Null when there is no reading.
Read(source, events) ==
    LET newest == Len(events)
    IN  CASE source = "sandbox.active_backend"   -> machine.backend
          [] source = "gateway.instruction_hash" -> pack
          [] source = "hook.settings_hash"       -> settings
          [] source = "ledger.head"              -> IF newest = 0 THEN Null ELSE "local_file"
          [] source = "gateway.identity_source"  -> IF newest = 0 THEN Null ELSE "local"
          [] source = "event.attestation.key_id" ->
                IF newest = 0 THEN Null
                ELSE IF Attested(events, newest) THEN SigningKey ELSE "unsigned"
          [] OTHER -> Null

\* The readings that come off the ledger.
OffLedger == {"ledger.head", "gateway.identity_source", "event.attestation.key_id"}

\* drift::satisfies: a property is met by a backend that holds it.
Satisfies(declared, observed) == declared = "per_run_confinement" /\ observed \in Confining

\* drift::report.  Nothing declared and nothing read are gaps, never a match.
Report(field, events) ==
    LET reading == Read(field.source, events)
        Outcome(outcome, observed) ==
            [field |-> field.name, source |-> field.source, outcome |-> outcome,
             observed |-> observed]
    IN  IF field.declared = Null \/ reading = Null THEN Outcome("unobservable", Null)
        ELSE IF reading = field.declared \/ Satisfies(field.declared, reading)
             THEN Outcome("match", reading)
             ELSE Outcome("divergence", reading)

\* drift::walk.
Walk(events) == [i \in DOMAIN Fields |-> Report(Fields[i], events)]

\* drift::tally.
Tally(walked) ==
    [outcome \in {"match", "divergence", "unobservable"} |->
        Cardinality({i \in DOMAIN walked : walked[i].outcome = outcome})]

-----------------------------------------------------------------------------
\* Running::observe and the walk come before the run appends anything.  The
\* authority its events carry pins the instruction pack, so that a harness
\* without one is refused and not walked.
OpenDrift(p) ==
    /\ pack # Null
    /\ SignerLoads
    /\ OpenRun(p, <<>>, <<>>)
    /\ reports' = [reports EXCEPT ![p] = Walk(log)]
    /\ UNCHANGED <<pack, settings>>

\* Mutant: each field is read when its report is due.
AppendReportLate(p) ==
    /\ IsOpen(p)
    /\ seq[p] < Len(reports[p])
    /\ Emit(p, "drift.report", Report(Fields[seq[p] + 1], log))
    /\ UNCHANGED driftVars

\* One report for each field, matches included.
AppendReport(p) ==
    /\ IsOpen(p)
    /\ seq[p] < Len(reports[p])
    /\ Emit(p, "drift.report", reports[p][seq[p] + 1])
    /\ UNCHANGED driftVars

SealDrift(p) ==
    /\ IsOpen(p)
    /\ seq[p] = Len(reports[p])
    /\ Depart(p, "run.seal", [outcome |-> "complete", drift |-> Tally(reports[p])])
    /\ reports' = [reports EXCEPT ![p] = <<>>]
    /\ UNCHANGED <<pack, settings>>

KillDrift(p) ==
    /\ Die(p)
    /\ reports' = [reports EXCEPT ![p] = <<>>]
    /\ UNCHANGED <<pack, settings>>

\* Somebody moves the pack or the settings.
MoveFiles(newPack, newSettings) ==
    /\ <<newPack, newSettings>> # <<pack, settings>>
    /\ pack' = newPack
    /\ settings' = newSettings
    /\ UNCHANGED <<logVars, reports>>

DriftNext ==
    \/ \E p \in DriftRuns : OpenDrift(p) \/ AppendReport(p) \/ SealDrift(p) \/ KillDrift(p)
    \/ \E p, s \in Files \cup {Null} : MoveFiles(p, s)

=============================================================================
