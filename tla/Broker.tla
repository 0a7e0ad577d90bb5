------------------------------- MODULE Broker -------------------------------
(***************************************************************************)
(* The tool broker (src/src/broker.rs) and `trunnion approve`              *)
(* (src/src/main.rs).  A broker process opens a run, registers tools, may  *)
(* narrow itself to a delegated scope, makes calls and seals; every call   *)
(* leaves a request, one decision and a result.  An approver process reads *)
(* the ledger and answers one held request.  Each append is a step of its  *)
(* own, so a process can be killed, and others can run, between any two.   *)
(***************************************************************************)
EXTENDS EventLog, Trust

CONSTANTS
    Broker,         \* processes that make calls
    Approver,       \* processes that run `trunnion approve`
    Tool,           \* tools that may be offered for registration
    ToolOf,         \* ToolOf[c]: the tool call c names
    Publishable,    \* tools whose definition the registry accepts
    Refused,        \* calls using a credential handle their capability lacks
    Scopes,         \* grants a delegated run may be narrowed to
    CanFail         \* whether a cleared call may fail to execute

ASSUME BrokerAssumption ==
    /\ Broker \cap Approver = {}
    /\ Broker \cup Approver \subseteq Process
    /\ ToolOf \in [Call -> Tool]
    /\ Publishable \subseteq Tool
    /\ Refused \subseteq Call
    /\ Scopes \subseteq SUBSET CapId
    /\ CanFail \in BOOLEAN

VARIABLES
    pc,             \* pc[p]: where p is
    registered,     \* registered[p]: the tools the run has published
    scope,          \* scope[p]: the delegated grant, or every capability
    reviews,        \* reviews[p]: post-gate reviews the run owes
    current,        \* current[p]: the call p is making
    executed        \* the calls that ran, in order, each as its current record

brokerVars == <<pc, registered, scope, reviews, current, executed>>

NoId == <<NoRun, 0>>

NoCall == [call |-> "none", request |-> NoId,
           decision |-> Decision("deny", NoCap, "none", "none"), grant |-> NoId]

BrokerInit ==
    /\ pc = [p \in Broker \cup Approver |-> "closed"]
    /\ registered = [p \in Broker |-> {}]
    /\ scope = [p \in Broker |-> CapId]
    /\ reviews = [p \in Broker |-> 0]
    /\ current = [p \in Broker |-> NoCall]
    /\ executed = <<>>

Goto(p, label) == pc' = [pc EXCEPT ![p] = label]

At(p, label) == pc[p] = label

-----------------------------------------------------------------------------
(* Opening a run, registering tools, delegating *)

\* The run's own state starts anew with every process.
Close(p) ==
    /\ Goto(p, "closed")
    /\ registered' = [registered EXCEPT ![p] = {}]
    /\ scope' = [scope EXCEPT ![p] = CapId]
    /\ reviews' = [reviews EXCEPT ![p] = 0]
    /\ current' = [current EXCEPT ![p] = NoCall]

\* BrokerRun::open; nothing reads run.open, so it comes with the opening.
StartBroker(p) ==
    /\ At(p, "closed")
    /\ OpenRun(p, <<"run.open">>, [workload |-> "broker"])
    /\ Goto(p, "ready")
    /\ UNCHANGED <<registered, scope, reviews, current, executed>>

\* One registration, one tool.register event, accepted or not.
Register(p, tool) ==
    /\ At(p, "ready")
    /\ tool \notin registered[p]
    /\ Room
    /\ LET accepted == tool \in Publishable /\
               \E i \in DOMAIN Capability : \E c \in Capability[i].calls : ToolOf[c] = tool
       IN  /\ Emit(p, "tool.register",
                   [tool |-> tool, verdict |-> IF accepted THEN "registered" ELSE "rejected"])
           /\ registered' = [registered EXCEPT ![p] = IF accepted THEN @ \cup {tool} ELSE @]
    /\ UNCHANGED <<pc, scope, reviews, current, executed>>

\* Mutant: the grant is recorded and not kept.
DelegateScopeUnkept(p, granted) ==
    /\ At(p, "ready")
    /\ Room
    /\ Emit(p, "subagent.spawn", [granted |-> granted])
    /\ UNCHANGED <<pc, registered, scope, reviews, current, executed>>

\* skill_run delegates once, after the run opens and before any call.
DelegateScope(p, granted) ==
    /\ At(p, "ready")
    /\ \A i \in DOMAIN view[p] :
          view[p][i].kind \in {"subagent.spawn", "tool.request"} => view[p][i].run # run[p]
    /\ Room
    /\ Emit(p, "subagent.spawn", [granted |-> granted])
    /\ scope' = [scope EXCEPT ![p] = granted]
    /\ UNCHANGED <<pc, registered, reviews, current, executed>>

-----------------------------------------------------------------------------
(* One call *)

\* The request goes on the ledger first.  The history is read back once it is
\* there; the events of the call itself change neither a rung nor a grant, so
\* the memory of the process stands for it until the call is over.
Request(p, call) ==
    /\ At(p, "ready")
    /\ ToolOf[call] \in registered[p]
    /\ Room
    /\ LET request == <<run[p], seq[p]>>
       IN  /\ Emit(p, "tool.request", [request |-> request, call |-> call])
           /\ current' = [current EXCEPT ![p] =
                 [NoCall EXCEPT !.call = call, !.request = request]]
    /\ Goto(p, "deciding")
    /\ UNCHANGED <<registered, scope, reviews, executed>>

\* Mutant: the decision gates on the rung the policy declares.
DecidedOnDeclaredRung(p) == Decide(current[p].call, [cap \in CapId |-> DeclaredRung(cap)])

\* The policy's decision on the earned rung, then the delegated grant.
Decided(p) ==
    LET d == Decide(current[p].call, [cap \in CapId |-> EarnedRung(view[p], cap)])
    IN  IF d.cap # NoCap /\ d.verdict # "deny" /\ d.cap \notin scope[p]
        THEN Decision("deny", d.cap, "r-delegation", "none")
        ELSE d

\* Mutant: a review is owed and not counted.
MakeDecisionUncounted(p) ==
    /\ At(p, "deciding")
    /\ \E d \in {Decided(p)} :
          /\ Emit(p, "policy.decision",
                  [request |-> current[p].request, call |-> current[p].call, cap |-> d.cap,
                   verdict |-> d.verdict, rule |-> d.rule, obligation |-> d.obligation])
          /\ current' = [current EXCEPT ![p].decision = d]
          /\ Goto(p, CASE d.verdict = "deny"  -> "denied"
                       [] d.verdict = "hold"  -> "held"
                       [] d.verdict = "allow" -> "cleared")
    /\ UNCHANGED <<registered, scope, reviews, executed>>

MakeDecision(p) ==
    /\ At(p, "deciding")
    /\ \E d \in {Decided(p)} :
          /\ Emit(p, "policy.decision",
                  [request |-> current[p].request, call |-> current[p].call, cap |-> d.cap,
                   verdict |-> d.verdict, rule |-> d.rule, obligation |-> d.obligation])
          /\ current' = [current EXCEPT ![p].decision = d]
          /\ reviews' = [reviews EXCEPT ![p] = IF d.obligation = "review" THEN @ + 1 ELSE @]
          /\ Goto(p, CASE d.verdict = "deny"  -> "denied"
                       [] d.verdict = "hold"  -> "held"
                       [] d.verdict = "allow" -> "cleared")
    /\ UNCHANGED <<registered, scope, executed>>

\* demote_on_denial: one rung down from the rung of the history, if the
\* budget says denials demote and the denial names a capability above led.
DemotionDue(p) ==
    LET cap == current[p].decision.cap
    IN  /\ "policy.deny" \in Triggers
        /\ cap # NoCap
        /\ HasDown(EarnedRung(view[p], cap))

\* Mutant: one rung down from the rung the policy declares.
DemoteFromDeclared(p) ==
    /\ At(p, "denied")
    /\ DemotionDue(p)
    /\ LET cap  == current[p].decision.cap
           from == DeclaredRung(cap)
       IN  Emit(p, "rung.change", RungChange(cap, from, Down(from), "demotion", "none"))
    /\ Goto(p, "refused")
    /\ UNCHANGED <<registered, scope, reviews, current, executed>>

Demote(p) ==
    /\ At(p, "denied")
    /\ DemotionDue(p)
    /\ LET cap  == current[p].decision.cap
           from == EarnedRung(view[p], cap)
       IN  Emit(p, "rung.change", RungChange(cap, from, Down(from), "demotion", "none"))
    /\ Goto(p, "refused")
    /\ UNCHANGED <<registered, scope, reviews, current, executed>>

\* emit_result, and the call is over.
Result(p, outcome) ==
    /\ Emit(p, "tool.result", [request |-> current[p].request, outcome |-> outcome])
    /\ current' = [current EXCEPT ![p] = NoCall]
    /\ Goto(p, "ready")
    /\ UNCHANGED <<registered, scope, reviews>>

\* Mutant: the result goes out whether or not a demotion is due.
RefuseUndemoted(p) ==
    /\ pc[p] \in {"refused", "denied"}
    /\ Result(p, "denied")
    /\ UNCHANGED executed

\* Mutant: a denial at the floor waits for a demotion that is not due.
RefuseDemotedOnly(p) ==
    /\ At(p, "refused")
    /\ Result(p, "denied")
    /\ UNCHANGED executed

Refuse(p) ==
    /\ At(p, "refused") \/ (At(p, "denied") /\ ~DemotionDue(p))
    /\ Result(p, "denied")
    /\ UNCHANGED executed

\* usable_grant: an approval of this call under this rule by a permitted
\* approver, that no approval.use in the history names.
Spent(history) == {history[i].body.grant : i \in OfKind(history, "approval.use")}

\* Mutant: any answer releases.
UsableWhateverAnswered(approval, call, rule, spent) ==
    /\ approval.call = call
    /\ approval.rule = rule
    /\ approval.approver \in Approvers
    /\ approval.grant \notin spent

\* Mutant: a spent grant releases again.
UsableAgain(approval, call, rule, spent) ==
    /\ approval.call = call
    /\ approval.rule = rule
    /\ approval.verdict = "approve"
    /\ approval.approver \in Approvers

\* A promotion's approval names neither call nor rule, so it releases nothing.
Usable(approval, call, rule, spent) ==
    /\ approval.call = call
    /\ approval.rule = rule
    /\ approval.verdict = "approve"
    /\ approval.approver \in Approvers
    /\ approval.grant \notin spent

UsableGrant(p) ==
    LET h == view[p]
    IN  SelectInSeq(h, LAMBDA e :
            e.kind = "approval" /\ Usable(e.body, current[p].call, current[p].decision.rule, Spent(h)))

Block(p) ==
    /\ At(p, "held")
    /\ UsableGrant(p) = 0
    /\ Result(p, "blocked")
    /\ UNCHANGED executed

UseGrant(p) ==
    /\ At(p, "held")
    /\ UsableGrant(p) # 0
    /\ LET approval == view[p][UsableGrant(p)].body
       IN  /\ Emit(p, "approval.use",
                   [grant |-> approval.grant, call |-> current[p].call, rule |-> approval.rule,
                    request |-> current[p].request, approver |-> approval.approver])
           /\ current' = [current EXCEPT ![p].grant = approval.grant]
    /\ Goto(p, "cleared")
    /\ UNCHANGED <<registered, scope, reviews, executed>>

\* A handle the capability does not declare stops the call at the boundary.
RefuseCredential(p) ==
    /\ At(p, "cleared")
    /\ current[p].call \in Refused
    /\ Result(p, "denied")
    /\ UNCHANGED executed

Execute(p) ==
    /\ At(p, "cleared")
    /\ current[p].call \notin Refused
    /\ executed' = Append(executed, current[p])
    /\ Goto(p, "done")
    /\ UNCHANGED <<logVars, registered, scope, reviews, current>>

FailToExecute(p) ==
    /\ At(p, "cleared")
    /\ CanFail
    /\ current[p].call \notin Refused
    /\ Result(p, "blocked")
    /\ UNCHANGED executed

Finish(p) ==
    /\ At(p, "done")
    /\ Result(p, "ok")
    /\ UNCHANGED executed

\* What the caller says of the run: skill_run reports a refused or failed step,
\* a plain call seals as complete however it ended.
Outcome(p) ==
    LET own == {i \in DOMAIN view[p] : view[p][i].run = run[p]}
    IN  IF /\ \E i \in own : view[p][i].kind = "subagent.spawn"
           /\ \E i \in own : view[p][i].kind = "tool.result" /\ view[p][i].body.outcome # "ok"
        THEN "failed" ELSE "complete"

\* A run that owes reviews cannot seal as complete.
SealBroker(p) ==
    /\ At(p, "ready")
    /\ SealRun(p, IF reviews[p] > 0 /\ Outcome(p) = "complete"
                   THEN "complete-with-outstanding-review" ELSE Outcome(p), reviews[p])
    /\ Close(p)
    /\ UNCHANGED executed

\* Killed between two steps, or an append failed and the process exits.
KillBroker(p) ==
    /\ Die(p)
    /\ Close(p)
    /\ UNCHANGED executed

-----------------------------------------------------------------------------
(* trunnion approve *)

StartApprove(p) ==
    /\ At(p, "closed")
    /\ OpenRun(p, <<>>, <<>>)
    /\ Goto(p, "answering")
    /\ UNCHANGED <<registered, scope, reviews, current, executed>>

\* The request and the call an event names.  Neither is there once its payload
\* has expired, and decisions of older ledgers never carried them.
NoPair == <<NoId, "none">>

NamedPair(event) ==
    IF event.body.request \in {NoId, Null} THEN NoPair ELSE <<event.body.request, event.body.call>>

\* One event of the walk that pairs a decision with its call, by what it names,
\* else with the request just before it, which is used up either way; and keeps
\* the calls that were held.
Pairing(state, event) ==
    LET named == NamedPair(event)
        pair  == IF named # NoPair THEN named ELSE state.pending
    IN  IF event.kind = "tool.request" THEN [state EXCEPT !.pending = named]
        ELSE IF event.kind # "policy.decision" THEN state
        ELSE [pending |-> NoPair,
              holds |-> IF pair = NoPair \/ event.body.verdict # "hold" THEN state.holds ELSE
                 Append(state.holds, [request |-> pair[1], call |-> pair[2],
                                      rule |-> event.body.rule])]

Holds(events) == FoldLeft(Pairing, [pending |-> NoPair, holds |-> <<>>], events).holds

\* The hold `approve` answers when it is given a request: the first one.
Answerable(events, request) == SelectInSeq(Holds(events), LAMBDA h : h.request = request)

\* write_grant binds the call and the rule of the hold.
Answer(p, request, verdict, who) ==
    /\ At(p, "answering")
    /\ who \in Approvers
    /\ Answerable(view[p], request) # 0
    /\ LET hold == Holds(view[p])[Answerable(view[p], request)]
       IN  Emit(p, "approval",
                Approval(<<run[p], seq[p]>>, verdict, hold.call, hold.rule, who, request))
    /\ Goto(p, "answered")
    /\ UNCHANGED <<registered, scope, reviews, current, executed>>

SealApprove(p) ==
    /\ At(p, "answered")
    /\ SealRun(p, "complete", 0)
    /\ Goto(p, "closed")
    /\ UNCHANGED <<registered, scope, reviews, current, executed>>

\* The request was never held or is not on the ledger, and nothing is written.
RefuseApprove(p) ==
    /\ At(p, "answering")
    /\ Leave(p)
    /\ Goto(p, "closed")
    /\ UNCHANGED <<log, gone, registered, scope, reviews, current, executed>>

KillApprove(p) ==
    /\ Die(p)
    /\ Goto(p, "closed")
    /\ UNCHANGED <<registered, scope, reviews, current, executed>>

-----------------------------------------------------------------------------
Requested == {log[i].body.request : i \in OfKind(log, "tool.request")}

\* What a broker does by itself once it has put a request on the log.
CallStep(p) ==
    \/ MakeDecision(p)
    \/ Demote(p)
    \/ Refuse(p)
    \/ Block(p)
    \/ UseGrant(p)
    \/ RefuseCredential(p)
    \/ Execute(p)
    \/ FailToExecute(p)
    \/ Finish(p)

BrokerStep(p) ==
    \/ StartBroker(p)
    \/ \E t \in Tool : Register(p, t)
    \/ \E s \in Scopes : DelegateScope(p, s)
    \/ \E c \in Call : Request(p, c)
    \/ CallStep(p)
    \/ SealBroker(p)
    \/ KillBroker(p)

ApproverStep(p) ==
    \/ StartApprove(p)
    \/ \E r \in Requested, v \in {"approve", "deny"}, who \in Identity : Answer(p, r, v, who)
    \/ SealApprove(p)
    \/ RefuseApprove(p)
    \/ KillApprove(p)

BrokerNext == (\E p \in Broker : BrokerStep(p)) \/ (\E p \in Approver : ApproverStep(p))

=============================================================================
