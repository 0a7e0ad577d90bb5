-------------------------------- MODULE Trust --------------------------------
(***************************************************************************)
(* The trust budget (src/src/trust.rs): the rung a capability holds is     *)
(* never stored, it is replayed from the rung.change and capability.run    *)
(* events of the ledger.                                                   *)
(***************************************************************************)
EXTENDS Policy

CONSTANTS
    RunsAtRung,     \* clean runs that earn a promotion
    Identity,       \* people who may answer or promote
    Approvers,      \* those the budget permits; all of them when it says "any"
    Triggers        \* what demotes: "sensor.fail", "policy.deny"

ASSUME TrustAssumption ==
    /\ RunsAtRung \in Nat
    /\ Approvers \subseteq Identity
    /\ Triggers \subseteq {"sensor.fail", "policy.deny"}

\* One event of TrustState::replay for a capability.
ReplayEvent(cap, state, event) ==
    IF event.kind = "rung.change" /\ event.body.cap = cap
      THEN [rung |-> event.body.to, clean |-> 0]
    ELSE IF event.kind = "capability.run" /\ event.body.cap = cap
      THEN [state EXCEPT !.clean = IF event.body.outcome = "clean" THEN @ + 1 ELSE 0]
    ELSE state

Replay(events, cap) ==
    FoldLeft(LAMBDA state, event : ReplayEvent(cap, state, event),
             [rung |-> DeclaredRung(cap), clean |-> 0], events)

EarnedRung(events, cap) == Replay(events, cap).rung

\* Mutant: one clean run short.
PromotionEarnedEarly(state) == state.clean + 1 >= RunsAtRung /\ HasUp(state.rung)

PromotionEarned(state) == state.clean >= RunsAtRung /\ HasUp(state.rung)

\* The subject of an approval event.
Approval(grant, verdict, call, rule, approver, request) ==
    [grant |-> grant, verdict |-> verdict, call |-> call, rule |-> rule,
     approver |-> approver, request |-> request]

RungChange(cap, from, to, trigger, approver) ==
    [cap |-> cap, from |-> from, to |-> to, trigger |-> trigger, approver |-> approver]

=============================================================================
