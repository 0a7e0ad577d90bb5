------------------------------ MODULE Console ------------------------------
(***************************************************************************)
(* What the console shows of a ledger (src/src/console.rs): every page is  *)
(* computed from the events on request and nothing is kept.  The pages are *)
(* operators over the events a reader has, and the properties say where    *)
(* they must agree with what the broker does and with one another.         *)
(***************************************************************************)
EXTENDS Harness

-----------------------------------------------------------------------------
(* /api/approvals *)

\* Mutant: a hold is counted as released once anything was spent on it.
ReleasesUnspent(events, call, rule) ==
    \E a \in OfKind(events, "approval") :
        /\ events[a].body.call = call
        /\ events[a].body.rule = rule
        /\ events[a].body.verdict = "approve"
        /\ events[a].body.approver \in Approvers

\* The inbox repeats the broker's test of a usable grant.
Releases(events, call, rule) ==
    \E a \in OfKind(events, "approval") :
        /\ events[a].body.call = call
        /\ events[a].body.rule = rule
        /\ events[a].body.verdict = "approve"
        /\ events[a].body.approver \in Approvers
        /\ ~\E u \in OfKind(events, "approval.use") : events[u].body.grant = events[a].body.grant

Answers(events, call, rule) ==
    {a \in OfKind(events, "approval") : events[a].body.call = call /\ events[a].body.rule = rule}

\* Mutant: a refusal leaves the hold waiting.
HoldStateUnrefused(events, call, rule) ==
    LET answers == {events[a].body : a \in Answers(events, call, rule)}
    IN  IF Releases(events, call, rule) THEN "released"
        ELSE IF \E a \in answers : a.grant \in Spent(events) THEN "spent"
        ELSE IF \E a \in answers : a.verdict = "approve" THEN "ineffective"
        ELSE "waiting"

\* The five things an operator may be told of a hold.
HoldState(events, call, rule) ==
    LET answers   == Answers(events, call, rule)
        refused   == answers # {} /\ events[Max(answers)].body.verdict = "deny"
        approvals == {a \in answers : events[a].body.verdict = "approve"}
    IN  IF Releases(events, call, rule) THEN "released"
        ELSE IF refused THEN "refused"
        ELSE IF \E a \in approvals : events[a].body.grant \in Spent(events) THEN "spent"
        ELSE IF \E a \in approvals : events[a].body.approver \notin Approvers THEN "ineffective"
        ELSE "waiting"

\* One entry for each call and rule, however often the call was held; the
\* command printed for it names the latest request.
Entry(events, call, rule) ==
    LET holds == Holds(events)
        held  == {h \in DOMAIN holds : holds[h].call = call /\ holds[h].rule = rule}
    IN  [call |-> call, rule |-> rule, held |-> Cardinality(held),
         request |-> holds[Max(held)].request,
         state |-> HoldState(events, call, rule), releases |-> Releases(events, call, rule)]

Inbox(events) ==
    LET holds == Holds(events) IN {Entry(events, holds[h].call, holds[h].rule) : h \in DOMAIN holds}

Blocked(events) == Cardinality({e \in Inbox(events) : ~e.releases})

-----------------------------------------------------------------------------
(* /api/runs, /api/operations, /api/policy, /api/verify *)

\* Mutant: a hold is counted among the denials.
RunRowWithHolds(events, id) ==
    LET own == {i \in DOMAIN events : events[i].run = id}
    IN  [run     |-> id,
         events  |-> Cardinality(own),
         opened  |-> \E i \in own : events[i].kind = "run.open",
         sealed  |-> \E i \in own : events[i].kind = "run.seal",
         denials |-> Cardinality({i \in own : /\ events[i].kind = "policy.decision"
                                              /\ events[i].body.verdict # "allow"})]

RunRow(events, id) ==
    LET own == {i \in DOMAIN events : events[i].run = id}
    IN  [run     |-> id,
         events  |-> Cardinality(own),
         opened  |-> \E i \in own : events[i].kind = "run.open",
         sealed  |-> \E i \in own : events[i].kind = "run.seal",
         denials |-> Cardinality({i \in own : /\ events[i].kind = "policy.decision"
                                              /\ events[i].body.verdict = "deny"})]

RunRows(events) == {RunRow(events, events[i].run) : i \in DOMAIN events}

\* A kind nobody ever recorded counts as nothing known, not as zero.
Counted(events, kind, n) == IF OfKind(events, kind) = {} THEN Null ELSE n

\* The counts over the events from the first one in the window on.
Operations(events, first) ==
    LET Within(kind) == {i \in OfKind(events, kind) : i >= first}
        Verdict(v) == {d \in Within("policy.decision") : events[d].body.verdict = v}
        Count(kind, found) == Counted(events, kind, Cardinality(found))
    IN  [scanned   |-> Cardinality({i \in DOMAIN events : i >= first}),
         opened    |-> Count("run.open", Within("run.open")),
         sealed    |-> Count("run.seal", Within("run.seal")),
         denials   |-> Count("policy.decision", Verdict("deny")),
         holds     |-> Count("policy.decision", Verdict("hold")),
         approvals |-> Count("approval", Within("approval"))]

\* The rung a capability declares, the one it has earned and the events on
\* record about it.
TrustRow(events, cap) ==
    LET state == Replay(events, cap)
    IN  [declared |-> DeclaredRung(cap), earned |-> state.rung, clean |-> state.clean,
         history |-> {i \in OfKind(events, "rung.change") \cup OfKind(events, "capability.run") :
                        events[i].body.cap = cap}]

\* How often each rule of the policy decided.
Fired(events) ==
    [id \in {Rule[r].id : r \in DOMAIN Rule} |->
        Cardinality({d \in OfKind(events, "policy.decision") : events[d].body.rule = id})]

\* Holes in the numbering of a run, between the least and the greatest number.
SeqGaps(events) ==
    LET Numbers(id) == {events[i].seq : i \in {j \in DOMAIN events : events[j].run = id}}
    IN  UNION {LET numbers == Numbers(events[i].run)
               IN  (Min(numbers)..Max(numbers)) \ numbers : i \in DOMAIN events}

-----------------------------------------------------------------------------
(* /api/events *)

\* No kind asked for is every kind.  The other filters of the page, by run, by
\* actor and by time, are left out: each is one more test of one event.
Matches(event, kinds) == kinds = {} \/ event.kind \in kinds

Matched(events, kinds) == {i \in DOMAIN events : Matches(events[i], kinds)}

\* The events of a page, as positions: those that have offset of the
\* matching ones before them, or up to limit - 1 more.
Page(events, kinds, offset, limit) ==
    LET all == Matched(events, kinds)
    IN  {i \in all : Cardinality(all \cap 1..(i - 1)) \in offset..(offset + limit - 1)}

-----------------------------------------------------------------------------
(* Properties *)

\* What the inbox says of a held call is what the broker does with it: a hold
\* shown as releasing is released when the broker reaches it, one shown as
\* blocked is blocked ("A console that showed a grant as releasing a call the
\* broker would still hold would be worse than showing nothing").
InboxAgreesWithBroker ==
    [][\A p \in Broker :
          pc[p] = "held" /\ pc'[p] \in {"cleared", "ready"} =>
              \E e \in Inbox(view[p]) :
                  /\ e.call = current[p].call
                  /\ e.rule = current[p].decision.rule
                  /\ e.releases <=> pc'[p] = "cleared"]_vars

\* The command the inbox prints is one `approve` acts on, and the grant it
\* writes is for the call and the rule of the entry, on ledgers of either age;
\* an entry is "waiting" only while nobody has answered it, and "ineffective"
\* only while nobody who is permitted to has.
InboxCommandAnswers ==
    \A e \in Inbox(log) :
        /\ Answerable(log, e.request) # 0
        /\ LET hold == Holds(log)[Answerable(log, e.request)]
           IN  hold.call = e.call /\ hold.rule = e.rule
        /\ e.state = "waiting" => Answers(log, e.call, e.rule) = {}
        /\ e.state = "ineffective" =>
              \A a \in Answers(log, e.call, e.rule) : log[a].body.approver \notin Approvers
        /\ e.state = "released" <=> e.releases

OrZero(n) == IF n = Null THEN 0 ELSE n

\* What operations counts over the whole log is what the rows of the runs add
\* up to: every run was opened once and sealed once at most.
RowsAddUp ==
    LET whole == Operations(log, 1)
        rows  == RunRows(log)
    IN  /\ whole.scanned = SumFunction([r \in rows |-> r.events])
        /\ OrZero(whole.denials) = SumFunction([r \in rows |-> r.denials])
        /\ OrZero(whole.opened) = Cardinality({r \in rows : r.opened})
        /\ OrZero(whole.sealed) = Cardinality({r \in rows : r.sealed})

\* The decisions counted under the rules of the policy are all but denials no
\* rule of it makes: outside a delegated grant, or by default.
RulesAccount ==
    LET decisions == OfKind(log, "policy.decision")
        unruled   == {d \in decisions : log[d].body.rule \notin DOMAIN Fired(log)}
    IN  /\ SumFunction(Fired(log)) + Cardinality(unruled) = Cardinality(decisions)
        /\ \A d \in unruled : /\ log[d].body.rule \in {"r-delegation", "r-default"}
                              /\ log[d].body.verdict = "deny"

\* A narrower window never counts more, and shows nothing known exactly when
\* the whole log does.
WindowsNarrow ==
    LET whole == Operations(log, 1)
    IN  \A n \in DOMAIN log :
            LET narrow == Operations(log, n)
            IN  \A field \in DOMAIN whole :
                    /\ narrow[field] = Null <=> whole[field] = Null
                    /\ OrZero(narrow[field]) <= OrZero(whole[field])

\* A client that pages through the events, or through those of a kind, while
\* more are appended sees what it would have seen at once.
PagingIsStable ==
    \A n \in DOMAIN log, kinds \in {{}, {"policy.decision"}} :
        LET one == Page(Prefix(n), kinds, 0, 2)
            two == Page(log, kinds, Cardinality(one), 2)
        IN  /\ one \cap two = {}
            /\ one \cup two = Page(log, kinds, 0, Cardinality(one) + 2)

\* The counts tell one story: the rows of the runs, the counts of operations and
\* of the rules, the holes in the numbering and the pages of events agree on
\* every log the processes can leave.
CountsAgree ==
    /\ RowsAddUp
    /\ RulesAccount
    /\ SeqGaps(log) = {}
    /\ WindowsNarrow
    /\ PagingIsStable

\* The changes the trust page lists for a capability lead, one from where the
\* last one ended, from its declared rung to the one shown as earned.
HistoryLeadsToRung ==
    \A cap \in CapId :
        LET row     == TrustRow(log, cap)
            changes == {i \in row.history : log[i].kind = "rung.change"}
            Earlier(i) == {j \in changes : j < i}
            Reached(I) == IF I = {} THEN row.declared ELSE log[Max(I)].body.to
        IN  /\ row.earned = Reached(changes)
            /\ \A i \in changes : log[i].body.from = Reached(Earlier(i))

\* The pages agree: the counts with one another, and what the trust page shows a
\* capability has earned with the history it lists.
PagesAgree == CountsAgree /\ HistoryLeadsToRung

=============================================================================
