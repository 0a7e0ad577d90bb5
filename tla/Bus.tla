--------------------------------- MODULE Bus ---------------------------------
(***************************************************************************)
(* The commands that share the ledger with the broker: the sensor bus, the *)
(* model gateway, the drift scan, the scorer, the corpus graph and the     *)
(* skills, beside the template they are installed from; and what must hold *)
(* of the record they leave.                                               *)
(***************************************************************************)
EXTENDS Sensor, Gateway, Drift, Scorer, CodeGraph, Skill, Template

\* The log earlier runs left is one, and a process runs one command.
ASSUME BusAssumption ==
    /\ Recorded \in Seq({Recorded[i] : i \in DOMAIN Recorded})
    /\ DriftRuns \cap (SensorRuns \cup GatewayRuns \cup SkillRuns) = {}
    /\ SensorRuns \cap (GatewayRuns \cup SkillRuns) = {}
    /\ GatewayRuns \cap SkillRuns = {}

vars == <<logVars, profileVars, sensorVars, gatewayVars, driftVars, card, graphVars, skillVars,
          templateVars>>

Init ==
    /\ LogInit
    /\ ProfileInit
    /\ SensorInit
    /\ GatewayInit
    /\ DriftInit
    /\ ScorerInit
    /\ GraphInit
    /\ SkillInit
    /\ TemplateInit

SensorStep ==
    /\ SensorNext
    /\ UNCHANGED <<profileVars, gatewayVars, driftVars, card, graphVars, skillVars, templateVars>>

GatewayStep ==
    /\ GatewayNext
    /\ UNCHANGED <<profileVars, sensorVars, driftVars, card, graphVars, skillVars, templateVars>>

DriftStep ==
    /\ DriftNext
    /\ UNCHANGED <<profileVars, sensorVars, gatewayVars, card, graphVars, skillVars, templateVars>>

ProfileStep ==
    /\ ProfileNext
    /\ UNCHANGED <<sensorVars, gatewayVars, driftVars, card, graphVars, skillVars, templateVars>>

ScorerStep ==
    /\ ScorerNext
    /\ UNCHANGED <<profileVars, sensorVars, gatewayVars, driftVars, graphVars, skillVars, templateVars>>

GraphStep ==
    /\ GraphNext
    /\ UNCHANGED <<profileVars, sensorVars, gatewayVars, driftVars, card, skillVars, templateVars>>

SkillStep ==
    /\ SkillNext
    /\ UNCHANGED <<profileVars, sensorVars, gatewayVars, driftVars, card, graphVars, templateVars>>

TemplateStep ==
    /\ TemplateNext
    /\ UNCHANGED <<logVars, profileVars, sensorVars, gatewayVars, driftVars, card, graphVars, skillVars>>

ExpireStep ==
    /\ \E i \in DOMAIN log : Expire(i)
    /\ UNCHANGED <<profileVars, sensorVars, gatewayVars, driftVars, card, graphVars, skillVars,
                   templateVars>>

Next ==
    \/ SensorStep
    \/ GatewayStep
    \/ DriftStep
    \/ ProfileStep
    \/ ScorerStep
    \/ GraphStep
    \/ SkillStep
    \/ TemplateStep
    \/ ExpireStep

Spec == Init /\ [][Next]_vars

-----------------------------------------------------------------------------
(* Properties *)

\* The events of one kind of a run.
OfRun(events, id, kind) == {j \in OfKind(events, kind) : events[j].run = id}

\* A sensor run is clean only if none of its verdicts blocked or was broken,
\* however the last came out (SensorRun::seal, "the seal cannot claim clean").
GateTold(events, seal) ==
    LET outcome  == seal.body.outcome
        verdicts == {events[j].body : j \in OfRun(events, seal.run, "sensor.verdict")}
    IN  verdicts # {} =>
            /\ outcome = "clean" <=> \A v \in verdicts : ~v.blocked /\ v.verdict # "broken"
            /\ outcome = "sealed-with-broken-sensor" <=>
                  \E v \in verdicts : v.verdict = "broken"

\* A gateway run was answered every time, and cost what the answers with a
\* known cost did (GatewayRun::seal).
BillTold(events, seal) ==
    LET calls == OfRun(events, seal.run, "model.call")
        known == {c \in calls : events[c].body.cost # Null}
    IN  calls # {} =>
            /\ Cardinality(calls) = Turns
            /\ \A c \in calls : events[c].body.outcome = "ok"
            /\ seal.body.cost = SumFunction([c \in known |-> events[c].body.cost])

\* A drift run has one report for each field of the profile, in order, and
\* counts them by outcome (drift_scan, "every field reports every run").
ScanTold(events, seal) ==
    LET told == OfRun(events, seal.run, "drift.report")
    IN  "drift" \in DOMAIN seal.body =>
            /\ Cardinality(told) = Len(Fields)
            /\ \A r \in told :
                  events[r].body.field = Fields[Cardinality({q \in told : q <= r})].name
            /\ \A outcome \in {"match", "divergence", "unobservable"} :
                  seal.body.drift[outcome] =
                      Cardinality({r \in told : events[r].body.outcome = outcome})

\* A skill's run is complete only if every step was read (skill_run).
SkillTold(events, seal) ==
    LET results == OfRun(events, seal.run, "tool.result")
    IN  results # {} =>
            (seal.body.outcome = "complete" <=> \A t \in results : events[t].body.read)

SealTold(events, seal) ==
    /\ GateTold(events, seal)
    /\ BillTold(events, seal)
    /\ ScanTold(events, seal)
    /\ SkillTold(events, seal)

\* A seal tells what the events of its run add up to, whichever command made it
\* and whatever the others append meanwhile.
SealTellsItsRun == \A s \in OfKind(log, "run.seal") : SealTold(log, log[s])

\* What a drift run reports of the ledger is what the ledger said at one moment
\* before the run's first report: no reading sees the run's own reports (drift
\* Running, "A walk that read the ledger after its own reports were written
\* would be observing itself").
DriftObservesOthers ==
    \A first \in OfKind(log, "drift.report") :
        log[first].seq = 0 =>
            \E n \in 0..(first - 1) :
                \A r \in OfRun(log, log[first].run, "drift.report") :
                    log[r].body.source \in OffLedger /\ log[r].body.observed # Null
                        => log[r].body.observed = Read(log[r].body.source, SubSeq(log, 1, n))

\* While no payload has expired, a snapshot on the ledger is the score of the
\* events it says it scored, whatever was appended meanwhile, and no primitive
\* scores lower, or falls back to N/A, in a later one: evidence only adds up
\* (score, "Record the score on the ledger it scored").
SnapshotsAgree ==
    OfKind(log, "retention.expire") = {} =>
        \A s \in OfKind(log, "score.snapshot") :
            LET snapshot == log[s].body
            IN  /\ snapshot.scored < s
                /\ snapshot = Score(SubSeq(log, 1, snapshot.scored))
                /\ \A t \in OfKind(log, "score.snapshot") :
                      snapshot.scored <= log[t].body.scored =>
                          \A primitive \in DOMAIN snapshot.scores :
                              LET earlier == snapshot.scores[primitive]
                                  later   == log[t].body.scores[primitive]
                              IN  earlier # Null => later # Null /\ later >= earlier

\* A query of the graph answers for every file it has visited as the file was
\* at some moment of the query: it reports a hit only for a file that held the
\* symbol then, and leaves a file out only if it did not, however stale the
\* index (Graph::query, "re-read any hit whose file hash has changed").  Not
\* for a file that was missing, nor for a word too short to be a symbol.
HitsAreCurrent ==
    \A f \in File :
        /\ Querying
        /\ query.symbol \in Long
        /\ f \in DOMAIN graph \ query.todo
        /\ Null \notin seen[f]
        => IF f \in query.hits THEN \E words \in seen[f] : query.symbol \in words
                               ELSE \E words \in seen[f] : query.symbol \notin words

\* A package with a signature resolves only as what the holder of that very key
\* signed, word for word, and never as unsigned; and a run is given no grant but
\* the scope of a manifest that resolved, within what a parent may hold
\* (verify_signature, "An unverifiable signature is worse than no signature";
\* delegate, "Scope can narrow, never widen").
SkillIsWhatWasSigned ==
    [][\A i \in DOMAIN log' \ DOMAIN log :
          LET event == log'[i]
              state == event.body.signature
          IN  /\ event.kind = "skill.resolve" /\ event.body.verdict = "resolved" =>
                    IF package.signature = Null THEN state = "unsigned"
                    ELSE [key |-> state, of |-> event.body.manifest] \in signings
              /\ event.kind = "subagent.spawn" =>
                    /\ \E parent \in Parent : event.body.granted \subseteq parent
                    /\ \E r \in OfKind(log, "skill.resolve") :
                          /\ log[r].body.verdict = "resolved"
                          /\ log[r].body.manifest.scope = event.body.granted]_vars

=============================================================================
