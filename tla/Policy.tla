------------------------------- MODULE Policy -------------------------------
(***************************************************************************)
(* The policy engine (src/src/policy.rs): capabilities on a rung ladder,   *)
(* the gate table, the ordered rules and the one decision per call.        *)
(*                                                                         *)
(* A tool pattern or target pattern is the set of calls it matches; the    *)
(* matching of the text itself is the subject of module Glob.              *)
(***************************************************************************)
EXTENDS Naturals, Sequences, FiniteSets, SequencesExt

CONSTANTS
    Call,          \* tool calls: a tool with its arguments
    Capability,    \* the policy's capabilities in order
    Rule           \* the policy's rules in order

Rungs   == {"led", "assisted", "autonomous"}
Effects == {"read", "write.local", "write.shared", "irreversible"}
Actions == {"allow", "deny", "hold"}
NoCap   == "none"  \* no capability: a rule for all, a call nothing declares

CapabilityType ==
    [id : STRING, calls : SUBSET Call, effect : Effects, rung : Rungs, rollback : BOOLEAN]

\* everyTarget is an absent target_in; applies is a when clause that is absent
\* or names the profile in force.
RuleType ==
    [id : STRING, cap : STRING, calls : SUBSET Call, everyTarget : BOOLEAN,
     applies : BOOLEAN, action : Actions]

\* The trust-budget table.
Gate(rung, effect) ==
    CASE rung = "led" \/ effect = "irreversible"           -> "pre"
      [] rung = "assisted" /\ effect = "write.shared"      -> "pre"
      [] rung = "assisted" /\ effect \in {"read", "write.local"} -> "none"
      [] rung = "autonomous" /\ effect = "read"            -> "none"
      [] rung = "autonomous" /\ effect \in {"write.local", "write.shared"} -> "post"

\* Policy::validate, of the parts kept here: a post gate has a rollback
\* handle, and a rule names a declared capability.
Valid ==
    /\ \A i \in DOMAIN Capability :
          Gate(Capability[i].rung, Capability[i].effect) = "post" => Capability[i].rollback
    /\ \A j \in DOMAIN Rule : Rule[j].cap # NoCap =>
          \E i \in DOMAIN Capability : Capability[i].id = Rule[j].cap

ASSUME PolicyAssumption ==
    /\ Capability \in Seq(CapabilityType)
    /\ Rule \in Seq(RuleType)
    /\ \A i \in DOMAIN Capability : Capability[i].id # NoCap
    /\ Valid

Up(rung)   == CASE rung = "led" -> "assisted" [] OTHER -> "autonomous"
Down(rung) == CASE rung = "autonomous" -> "assisted" [] OTHER -> "led"
HasUp(rung)   == rung # "autonomous"
HasDown(rung) == rung # "led"

-----------------------------------------------------------------------------
CapId == {Capability[i].id : i \in DOMAIN Capability}

DeclaredRung(cap) == Capability[SelectInSeq(Capability, LAMBDA c : c.id = cap)].rung

RuleMatches(rule, cap, call) ==
    /\ rule.cap \in {NoCap, cap}
    /\ rule.everyTarget \/ call \in rule.calls
    /\ rule.applies

\* The rule a denial names when nothing else does.
DefaultRule ==
    LET i == SelectInSeq(Rule, LAMBDA r : r.cap = NoCap /\ r.everyTarget)
    IN  IF i = 0 THEN "r-default" ELSE Rule[i].id

Decision(verdict, cap, rule, obligation) ==
    [verdict |-> verdict, cap |-> cap, rule |-> rule, obligation |-> obligation]

\* An earned rung can move a gate to post; without a rollback handle that
\* gate degrades to pre.
EffectiveGate(capability, rung) ==
    LET g == Gate(rung, capability.effect)
    IN  IF g = "post" /\ ~capability.rollback THEN "pre" ELSE g

\* Policy::decide_with_earned: the first capability that declares the call,
\* the first rule that matches, gated on the rung the capability has earned.
Decide(call, earnedRung) ==
    LET c == SelectInSeq(Capability, LAMBDA x : call \in x.calls)
        capability == Capability[c]
        r == SelectInSeq(Rule, LAMBDA x : RuleMatches(x, capability.id, call))
        gate == EffectiveGate(capability, earnedRung[capability.id])
        verdict == IF Rule[r].action = "allow" /\ gate = "pre" THEN "hold"
                   ELSE Rule[r].action
        obligation == CASE verdict = "allow" /\ gate = "post" -> "review"
                        [] verdict = "hold"                   -> "approval"
                        [] OTHER                              -> "none"
    IN  IF c = 0 THEN Decision("deny", NoCap, DefaultRule, "none")
        ELSE IF r = 0 THEN Decision("deny", capability.id, DefaultRule, "none")
        ELSE Decision(verdict, capability.id, Rule[r].id, obligation)

=============================================================================
