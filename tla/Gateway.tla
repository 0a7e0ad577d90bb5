------------------------------- MODULE Gateway -------------------------------
(***************************************************************************)
(* The model gateway (src/src/gateway.rs) as `trunnion run` drives it      *)
(* (src/src/main.rs): two calls of a provider, each on the ledger whether  *)
(* it succeeded or not, and a seal that carries what they cost.            *)
(***************************************************************************)
EXTENDS Profile

CONSTANTS
    GatewayRuns,    \* the processes that call a model
    Usage           \* the tokens a provider may report, Null when it reports none

ASSUME GatewayAssumption ==
    /\ GatewayRuns \subseteq Process
    /\ Usage \subseteq Nat \cup {Null}

Turns == 2

VARIABLE bill       \* bill[p]: the calls p's run has made and what they cost

gatewayVars == <<bill>>

NoBill == [calls |-> 0, cost |-> 0]

GatewayInit == bill = [p \in GatewayRuns |-> NoBill]

\* The event of a call.  A provider that reports no usage has no known cost,
\* which is not a cost of nothing; a token costs one.
ModelCall(outcome, tokens) == [outcome |-> outcome, tokens |-> tokens, cost |-> tokens]

\* GatewayRun::open: refused, before it appends anything, under a profile the
\* machine does not provide or a key it cannot sign with.
OpenGatewayRun(p) ==
    /\ Available
    /\ SignerLoads
    /\ OpenRun(p, <<"run.open">>,
               [workload |-> "gateway-smoke", unavailable |-> Shortfalls(machine.backend)])
    /\ UNCHANGED bill

\* call_on, answered.
CallModel(p, tokens) ==
    /\ IsOpen(p)
    /\ bill[p].calls < Turns
    /\ Emit(p, "model.call", ModelCall("ok", tokens))
    /\ bill' = [bill EXCEPT ![p].calls = @ + 1, ![p].cost = IF tokens = Null THEN @ ELSE @ + tokens]

\* call_on, failed: the failure is on the ledger, the fault ends the command,
\* and the run is left unsealed.
FailModel(p) ==
    /\ IsOpen(p)
    /\ bill[p].calls < Turns
    /\ Depart(p, "model.call", ModelCall("error", Null))
    /\ bill' = [bill EXCEPT ![p] = NoBill]

\* The provider's key is not in the environment: nothing is called or recorded.
KeyUnset(p) ==
    /\ IsOpen(p)
    /\ bill[p].calls < Turns
    /\ Exit(p)
    /\ bill' = [bill EXCEPT ![p] = NoBill]

SealGatewayRun(p) ==
    /\ IsOpen(p)
    /\ bill[p].calls = Turns
    /\ Depart(p, "run.seal", [outcome |-> "complete", cost |-> bill[p].cost])
    /\ bill' = [bill EXCEPT ![p] = NoBill]

KillGatewayRun(p) ==
    /\ Die(p)
    /\ bill' = [bill EXCEPT ![p] = NoBill]

GatewayNext ==
    \E p \in GatewayRuns :
        \/ OpenGatewayRun(p)
        \/ \E tokens \in Usage : CallModel(p, tokens)
        \/ FailModel(p)
        \/ KeyUnset(p)
        \/ SealGatewayRun(p)
        \/ KillGatewayRun(p)

=============================================================================
