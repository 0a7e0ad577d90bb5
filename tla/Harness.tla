------------------------------- MODULE Harness -------------------------------
(***************************************************************************)
(* The processes that act on one ledger: brokers making calls, approvers   *)
(* answering held ones and orchestrators moving rungs, and what must hold  *)
(* of the log they leave and of the calls that ran.                        *)
(***************************************************************************)
EXTENDS Broker, Orchestrator

vars == <<logVars, brokerVars, orchestratorVars>>

Init == LogInit /\ BrokerInit /\ OrchestratorInit

Next ==
    \/ BrokerNext /\ UNCHANGED orchestratorVars
    \/ OrchestratorNext /\ UNCHANGED brokerVars
    \/ \E i \in DOMAIN log : Expire(i) /\ UNCHANGED <<brokerVars, orchestratorVars>>

Spec == Init /\ [][Next]_vars

\* A broker that is not killed takes the next step of the call it is making.
FairSpec == Spec /\ \A p \in Broker : WF_vars(CallStep(p) /\ UNCHANGED orchestratorVars)

-----------------------------------------------------------------------------
Prefix(n) == SubSeq(log, 1, n)

IdType == (0..MaxRuns) \X Nat

RuleName == {Rule[r].id : r \in DOMAIN Rule} \cup {"r-default", "r-delegation", "none"}

DecisionType == [verdict : Actions, cap : CapId \cup {NoCap}, rule : RuleName,
                 obligation : {"none", "review", "approval"}]

CallType == [call : Call \cup {"none"}, request : IdType, decision : DecisionType, grant : IdType]

EventKinds ==
    {"run.open", "run.seal", "tool.register", "tool.request", "tool.result", "policy.decision",
     "approval", "approval.use", "subagent.spawn", "sensor.verdict", "capability.run",
     "rung.change", "retention.expire"}

\* The fields of the subject of an event, by its kind.
Fields(kind) ==
    CASE kind = "run.open"         -> {"workload"}
      [] kind = "run.seal"         -> {"outcome", "reviews"}
      [] kind = "tool.register"    -> {"tool", "verdict"}
      [] kind = "tool.request"     -> {"request", "call"}
      [] kind = "tool.result"      -> {"request", "outcome"}
      [] kind = "policy.decision"  -> {"request", "call", "cap", "verdict", "rule", "obligation"}
      [] kind = "approval"         -> {"grant", "verdict", "call", "rule", "approver", "request"}
      [] kind = "approval.use"     -> {"grant", "call", "rule", "request", "approver"}
      [] kind = "subagent.spawn"   -> {"granted"}
      [] kind = "sensor.verdict"   -> {"verdict"}
      [] kind = "capability.run"   -> {"cap", "rung", "outcome"}
      [] kind = "rung.change"      -> {"cap", "from", "to", "trigger", "approver"}
      [] kind = "retention.expire" -> {"event"}

IsEvent(e) ==
    /\ e \in [kind : EventKinds, run : 0..MaxRuns, seq : Nat, body : {e.body}]
    /\ DOMAIN e.body = Fields(e.kind)
    /\ e.kind = "approval" => e.body.grant \in IdType

IsSeq(s) == s \in Seq({s[i] : i \in DOMAIN s})

\* A process runs one command, what a reader finds in place of an expired
\* payload, or of a count nobody kept, is no answer, no id and no number, and
\* the log earlier runs left is one of events.
ASSUME HarnessAssumption ==
    /\ Orchestrators \cap (Broker \cup Approver) = {}
    /\ Null \notin {"approve", "deny"} \cup IdType \cup Nat
    /\ IsSeq(Recorded)
    /\ \A i \in DOMAIN Recorded : IsEvent(Recorded[i])

TypeOK ==
    /\ \A i \in DOMAIN log : IsEvent(log[i])
    /\ \A p \in Process : \A i \in DOMAIN view[p] :
          \E j \in DOMAIN log :
             /\ view[p][i] = [log[j] EXCEPT !.body = view[p][i].body]
             /\ view[p][i].body \in {log[j].body, [field \in DOMAIN log[j].body |-> Null]}
    /\ gone \subseteq {log[j].body : j \in DOMAIN log}
    /\ run \in [Process -> 0..MaxRuns]
    /\ seq \in [Process -> Nat]
    /\ clock \in 0..MaxRuns
    /\ pc \in [Broker \cup Approver ->
                  {"closed", "ready", "deciding", "denied", "refused", "held", "cleared",
                   "done", "answering", "answered"}]
    /\ registered \in [Broker -> SUBSET Publishable]
    /\ scope \in [Broker -> SUBSET CapId]
    /\ reviews \in [Broker -> Nat]
    /\ current \in [Broker -> CallType]
    /\ \A x \in DOMAIN executed : executed[x] \in CallType
    /\ stage \in [Orchestrators ->
                  {"closed", "sensing", "clean", "failed", "demoting", "promoting",
                   "promoted", "sealing"}]
    /\ task \in [Orchestrators -> [cap : CapId \cup {NoCap}, promoter : Identity \cup {"none"}]]

-----------------------------------------------------------------------------
(* Calls *)

RequestOf(x)  == {r \in OfKind(log, "tool.request") : log[r].body.request = x}
DecisionOf(x) == {d \in OfKind(log, "policy.decision") : log[d].body.request = x}
ResultOf(x)   == {t \in OfKind(log, "tool.result") : log[t].body.request = x}

\* The approval on the log at a releases a call held under a rule.
Approves(a, grant, call, rule) ==
    LET approval == log[a].body
    IN  /\ approval.grant = grant
        /\ approval.verdict = "approve"
        /\ approval.call = call
        /\ approval.rule = rule
        /\ approval.approver \in Approvers

\* No call runs unless the log already carries its request, then the decision
\* on it, and that decision is an allow, or a hold that a permitted approver
\* answered for this very call and rule, the answer spent before the call ran
\* (BrokerRun::call, "executes only on allow or on a held call whose approval
\* is on the ledger").
ExecutedWasCleared ==
    \A i \in DOMAIN executed :
        LET x == executed[i]
        IN  \E r \in RequestOf(x.request), d \in DecisionOf(x.request) :
                /\ r < d
                /\ log[r].body.call = x.call
                /\ log[d].body.call = x.call
                /\ \/ log[d].body.verdict = "allow"
                   \/ /\ log[d].body.verdict = "hold"
                      /\ \E a \in OfKind(log, "approval"), u \in OfKind(log, "approval.use") :
                            /\ a < u /\ d < u
                            /\ log[u].body.request = x.request
                            /\ Approves(a, log[u].body.grant, x.call, log[d].body.rule)

\* A run that put a delegated grant on the record runs no call of a capability
\* outside it (delegate_scope and the check at the chokepoint).
DelegationNarrows ==
    \A i \in DOMAIN executed, s \in OfKind(log, "subagent.spawn") :
        executed[i].request[1] = log[s].run =>
            executed[i].decision.cap \in log[s].body.granted

\* A sealed run accounts for itself: every request of the run has one decision
\* and after it one result, the seal counts the reviews those decisions left
\* owing, and it says "complete" only when there are none.
SealAccountsForRun ==
    \A s \in OfKind(log, "run.seal") :
        LET Of(kind) == {j \in OfKind(log, kind) : log[j].run = log[s].run}
            owed == {d \in Of("policy.decision") : log[d].body.obligation = "review"}
        IN  /\ \A r \in Of("tool.request") :
                  \E d, t \in r..s : /\ DecisionOf(log[r].body.request) = {d}
                                     /\ ResultOf(log[r].body.request) = {t}
                                     /\ d < t
            /\ log[s].body.reviews = Cardinality(owed)
            /\ log[s].body.outcome = "complete" => owed = {}

\* A grant releases one call and never a second (usable_grant, "Single use").
GrantReleasesOneCall ==
    \A i, j \in DOMAIN executed :
        /\ i # j
        /\ executed[i].grant # NoId
        => executed[i].grant # executed[j].grant

\* The answer an operator gives last stands: once an approver has refused a
\* request, no call is released by an approval of that same request (approve,
\* "the call stays held and nothing releases it").
RefusalStands ==
    \A u \in OfKind(log, "approval.use"), a, b \in OfKind(log, "approval") :
        /\ log[u].body.grant = log[a].body.grant
        /\ log[a].body.request = log[b].body.request
        /\ a < b
        => ~(b < u /\ log[b].body.verdict = "deny")

\* Again and again every request of a run that is still open has its result:
\* whatever the policy decides and however a call ends, none stays outstanding
\* (BrokerRun::call, "emits tool.result in every case").
EveryRequestIsAnswered ==
    []<>(\A r \in OfKind(log, "tool.request"), p \in Broker :
            log[r].run = run[p] => ResultOf(log[r].body.request) # {})

-----------------------------------------------------------------------------
(* Rungs *)

RungAt(n, cap) == EarnedRung(Prefix(n), cap)

\* Every decision is the one a reader of the log before it computes from the
\* policy and the replayed rungs, but for the delegated grant.
DecisionIsReplayable ==
    \A d \in OfKind(log, "policy.decision") :
        LET body == log[d].body
            replayed == Decide(body.call, [cap \in CapId |-> RungAt(d - 1, cap)])
        IN  body.rule # "r-delegation" =>
                Decision(body.verdict, body.cap, body.rule, body.obligation) = replayed

\* Every rung.change moves its capability one rung, from the rung the log
\* before it replays to.
ChangeMovesOneRung ==
    \A i \in OfKind(log, "rung.change") :
        LET change == log[i].body
        IN  /\ change.from = RungAt(i - 1, change.cap)
            /\ change.trigger = "demotion" => HasDown(change.from) /\ change.to = Down(change.from)
            /\ change.trigger = "earned" => HasUp(change.from) /\ change.to = Up(change.from)

\* A promotion was earned on the record, by RunsAtRung clean runs of the
\* capability since it entered its rung, and the event before it is a
\* permitted approver's approval.
PromotionIsEarned ==
    \A i \in OfKind(log, "rung.change") :
        LET change == log[i].body
            since == {j \in 1..(i - 1) :
                        /\ log[j].kind = "capability.run"
                        /\ log[j].body.cap = change.cap
                        /\ \A k \in j..(i - 1) :
                              log[k].kind \in {"rung.change", "capability.run"} /\ log[k].body.cap = change.cap
                                => log[k].kind = "capability.run" /\ log[k].body.outcome = "clean"}
        IN  change.trigger = "earned" =>
                /\ Cardinality(since) >= RunsAtRung
                /\ log[i - 1].kind = "approval"
                /\ log[i - 1].body.verdict = "approve"
                /\ log[i - 1].body.approver = change.approver
                /\ change.approver \in Approvers

\* A denial that has been answered has cost the capability a rung, when the
\* budget says denials demote and there was a rung to lose.
DenialNarrows ==
    \A t \in OfKind(log, "tool.result") :
        \A d \in DecisionOf(log[t].body.request) :
            LET cap == log[d].body.cap
            IN  /\ log[d].body.verdict = "deny"
                /\ cap # NoCap
                /\ "policy.deny" \in Triggers
                /\ HasDown(RungAt(d, cap))
                => RungAt(t, cap) = Down(RungAt(d, cap))

=============================================================================
