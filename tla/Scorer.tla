------------------------------- MODULE Scorer -------------------------------
(***************************************************************************)
(* The scorer (src/src/scorer.rs) and `trunnion score` (src/src/main.rs):  *)
(* each primitive is scored from the events alone, climbing its levels     *)
(* until one lacks its evidence, and the card goes on the ledger it        *)
(* scored.                                                                 *)
(***************************************************************************)
EXTENDS EventLog, FiniteSetsExt

CONSTANT ScoreRules     \* the rules: primitive, base predicate, levels

\* Scoring, Level and Pred: a level is a byte, a least number of events a word,
\* and no number is a null.
ASSUME ScorerAssumption ==
    /\ Null \notin Nat
    /\ \A rule \in ScoreRules :
          /\ rule.base.min \in Nat
          /\ \A level \in rule.levels :
                /\ level.level \in 0..255
                /\ \A pred \in level.requires : pred.min \in Nat

VARIABLE card           \* the card computed and not yet recorded, or Null

ScorerInit == card = Null

\* The field of a subject a predicate points at, Null when it is not there.
At(event, field) == IF field \in DOMAIN event.body THEN event.body[field] ELSE Null

\* A predicate's constraint on the subject.  What differs from a value must
\* be there first.
Credits(pred, event) ==
    CASE pred.test = "any"        -> TRUE
      [] pred.test = "equals"     -> At(event, pred.field) = pred.value
      [] pred.test = "not_equals" -> At(event, pred.field) \notin {Null, pred.value}
      [] pred.test = "present"    -> At(event, pred.field) # Null

Unsealed(events, i) ==
    ~\E s \in OfKind(events, "run.seal") : events[s].run = events[i].run

Evidence(pred, events) ==
    {i \in OfKind(events, pred.kind) :
        Credits(pred, events[i]) /\ (pred.unsealed => Unsealed(events, i))}

\* Mutant: as many as asked for, and no more.
SatisfiedExactly(pred, events) == Cardinality(Evidence(pred, events)) = pred.min

\* pred_matches.
Satisfied(pred, events) == Cardinality(Evidence(pred, events)) >= pred.min

\* The highest level whose evidence, and that of every lower one, is there;
\* Null, which is not zero, where the workload never used the primitive.  The
\* levels of a rule are taken to be numbered apart, as in config/scoring.json:
\* of two with one number the code climbs the one its file names first.
ScoreOf(rule, events) ==
    LET Earned(level) == \A pred \in level.requires : Satisfied(pred, events)
        climbed == {level \in rule.levels :
                        \A lower \in rule.levels : lower.level <= level.level => Earned(lower)}
    IN  IF Satisfied(rule.base, events) THEN Max({0} \cup {level.level : level \in climbed})
        ELSE Null

\* Scoring::score: the least of the scores there are is the overall one.
Score(events) ==
    LET scores == [primitive \in {rule.primitive : rule \in ScoreRules} |->
                      ScoreOf(CHOOSE rule \in ScoreRules : rule.primitive = primitive, events)]
        known  == {scores[primitive] : primitive \in DOMAIN scores} \ {Null}
    IN  [scores |-> scores, overall |-> IF known = {} THEN Null ELSE Min(known),
         scored |-> Len(events)]

\* `trunnion score` opens the ledger, which may be empty, and scores it.
ScoreLedger ==
    /\ card = Null
    /\ Room
    /\ card' = Score(Readable(log))
    /\ UNCHANGED logVars

RecordScore ==
    /\ card # Null
    /\ Record("score.snapshot", card)
    /\ card' = Null

\* Killed in between.
LoseScore ==
    /\ card # Null
    /\ card' = Null
    /\ UNCHANGED logVars

ScorerNext == ScoreLedger \/ RecordScore \/ LoseScore

=============================================================================
