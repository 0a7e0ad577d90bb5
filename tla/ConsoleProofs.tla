---------------------------- MODULE ConsoleProofs ----------------------------
(***************************************************************************)
(* Proofs about the inbox of the console: what it shows of a held call is  *)
(* what the broker does with it, and the command it prints answers it, for *)
(* any policy, any number of processes at once and whatever expires.       *)
(***************************************************************************)
EXTENDS Console, RungProofs, Sums

-----------------------------------------------------------------------------
(* Walking a log for the calls that were held *)

NoHolds == [pending |-> NoPair, holds |-> <<>>]

\* What the walk has of a log.
Walk(s) == FoldLeft(Pairing, NoHolds, s)

LEMMA WalkHolds == \A s : Holds(s) = Walk(s).holds
BY DEF Holds, Walk, NoHolds

\* A function from sets of indices to the state their events leave.
Walks(g, s, D) ==
    g = [S \in SUBSET D |->
            IF S = {} THEN NoHolds
            ELSE Pairing(g[S \ {Max(S)}], s[Max(S)])]

LEMMA WalkIsFold ==
    ASSUME NEW s
    PROVE  Walk(s) = (CHOOSE g : Walks(g, s, DOMAIN s))[DOMAIN s]
BY DEF Walk, FoldLeft, MapThenFoldSet, Walks

\* One more index is the greatest of the sets it is in.
LEMMA WalkExtends ==
    ASSUME NEW s, NEW n \in Nat, NEW g, Walks(g, s, 1..n)
    PROVE  \E h : Walks(h, s, 1..(n + 1))
<1> DEFINE D == 1..n
           E == 1..(n + 1)
           h == [S \in SUBSET E |->
                    IF n + 1 \in S THEN Pairing(g[S \ {n + 1}], s[n + 1]) ELSE g[S]]
<1>1. ASSUME NEW S \in SUBSET E, n + 1 \in S
      PROVE  Max(S) = n + 1 /\ S \ {n + 1} \in SUBSET D
  <2>1. S \subseteq Nat /\ \A i \in S : i <= n + 1
    OBVIOUS
  <2>2. Max(S) \in S /\ n + 1 <= Max(S) /\ Max(S) <= n + 1
    BY <1>1, <2>1, NatMax
  <2>3. Max(S) = n + 1
    <3>1. \A m \in Nat : n + 1 <= m /\ m <= n + 1 => m = n + 1
      OBVIOUS
    <3>2. Max(S) \in Nat
      BY <2>1, <2>2
    <3>3. QED
      BY <2>2, <3>1, <3>2
  <2>4. S \ {n + 1} \in SUBSET D
    OBVIOUS
  <2>5. QED
    BY <2>3, <2>4
<1>2. ASSUME NEW S \in SUBSET E, n + 1 \notin S
      PROVE  S \in SUBSET D
  BY <1>2
<1>3. ASSUME NEW S \in SUBSET D
      PROVE  /\ h[S] = g[S]
             /\ S # {} => S \ {Max(S)} \in SUBSET D
             /\ g[S] = IF S = {} THEN NoHolds ELSE Pairing(g[S \ {Max(S)}], s[Max(S)])
  <2>1. S \in SUBSET E /\ n + 1 \notin S
    OBVIOUS
  <2>2. h[S] = g[S]
    BY <2>1
  <2> HIDE DEF h
  <2>3. g[S] = IF S = {} THEN NoHolds ELSE Pairing(g[S \ {Max(S)}], s[Max(S)])
    BY DEF Walks
  <2>4. S \ {Max(S)} \in SUBSET D
    OBVIOUS
  <2>5. QED
    BY <2>2, <2>3, <2>4
<1>4. ASSUME NEW S \in SUBSET E
      PROVE  h[S] = IF S = {} THEN NoHolds ELSE Pairing(h[S \ {Max(S)}], s[Max(S)])
  <2>1. CASE n + 1 \in S
    <3>1. h[S] = Pairing(g[S \ {n + 1}], s[n + 1])
      BY <2>1
    <3>2. Max(S) = n + 1 /\ h[S \ {n + 1}] = g[S \ {n + 1}] /\ S # {}
      BY <2>1, <1>1, <1>3
    <3> HIDE DEF h
    <3>3. QED
      BY <3>1, <3>2
  <2>2. CASE n + 1 \notin S
    <3>1. S \in SUBSET D
      BY <2>2, <1>2
    <3>2. S # {} => h[S \ {Max(S)}] = g[S \ {Max(S)}]
      BY <3>1, <1>3
    <3> HIDE DEF h
    <3>3. QED
      BY <3>1, <3>2, <1>3
  <2>3. QED
    BY <2>1, <2>2
<1>5. h = [S \in SUBSET E |-> h[S]]
  OBVIOUS
<1> HIDE DEF h
<1>6. Walks(h, s, E)
  BY <1>4, <1>5 DEF Walks
<1>7. QED
  BY <1>6

LEMMA WalkExists ==
    ASSUME NEW s, NEW n \in Nat
    PROVE  \E g : Walks(g, s, 1..n)
<1> DEFINE I == {k \in Nat : ~\E g : Walks(g, s, 1..k)}
<1>1. 0 \notin I
  <2> DEFINE g == [S \in SUBSET (1..0) |-> NoHolds]
  <2>1. \A S \in SUBSET (1..0) : S = {}
    OBVIOUS
  <2>2. g = [S \in SUBSET (1..0) |->
                IF S = {} THEN NoHolds ELSE Pairing(g[S \ {Max(S)}], s[Max(S)])]
    BY <2>1
  <2>3. Walks(g, s, 1..0)
    BY <2>2 DEF Walks
  <2>4. QED
    BY <2>3
<1>2. I = {}
  <2>1. SUFFICES ASSUME I # {} PROVE FALSE
    OBVIOUS
  <2>2. Min(I) \in I /\ \A k \in I : Min(I) <= k
    BY <2>1, NatMin
  <2>3. PICK m \in Nat : Min(I) = m + 1
    <3>1. Min(I) \in Nat /\ Min(I) # 0
      BY <1>1, <2>2
    <3>2. \A k \in Nat : k # 0 => \E m \in Nat : k = m + 1
      <4>1. \A k \in Nat : k # 0 => k - 1 \in Nat /\ k = (k - 1) + 1
        OBVIOUS
      <4>2. QED
        BY <4>1
    <3>3. QED
      BY <3>1, <3>2
  <2>4. m \notin I
    <3>1. \A k \in Nat : ~(k + 1 <= k)
      OBVIOUS
    <3>2. m \in I => Min(I) <= m
      BY <2>2
    <3>3. QED
      BY <2>3, <3>1, <3>2
  <2>5. PICK g : Walks(g, s, 1..m)
    BY <2>4
  <2>6. m + 1 \notin I
    BY <2>5, WalkExtends
  <2>7. QED
    BY <2>2, <2>3, <2>6
<1>3. QED
  BY <1>2

\* What the first k events leave.
Walked(g, k) == g[1..k]

\* A log is walked from its first event to its last.
LEMMA WalkSteps ==
    ASSUME NEW s, NEW n \in Nat, NEW g, Walks(g, s, 1..n)
    PROVE  /\ Walked(g, 0) = NoHolds
           /\ \A k \in 1..n : Walked(g, k) = Pairing(Walked(g, k - 1), s[k])
<1>1. 1..0 = {} /\ 1..0 \in SUBSET (1..n)
  OBVIOUS
<1>2. Walked(g, 0) = NoHolds
  BY <1>1 DEF Walks, Walked
<1>3. ASSUME NEW k \in 1..n
      PROVE  Walked(g, k) = Pairing(Walked(g, k - 1), s[k])
  <2>1. /\ 1..k \in SUBSET (1..n)
        /\ 1..k # {}
        /\ (1..k) \ {k} = 1..(k - 1)
    OBVIOUS
  <2>2. Max(1..k) = k
    <3>1. 1..k \subseteq Nat /\ k \in Nat /\ k \in 1..k /\ \A i \in 1..k : i <= k
      OBVIOUS
    <3>2. Max(1..k) \in 1..k /\ k <= Max(1..k)
      BY <2>1, <3>1, NatMax
    <3>3. QED
      BY <3>1, <3>2
  <2>3. QED
    BY <2>1, <2>2 DEF Walks, Walked
<1>4. QED
  BY <1>2, <1>3

\* Two logs that begin with the same events.
SameEvents(s, t, n) ==
    \A i \in 1..n : s[i] = t[i]

LEMMA WalksAgree ==
    ASSUME NEW s, NEW t, NEW n \in Nat, NEW m \in Nat, n <= m, SameEvents(s, t, n),
           NEW g, Walks(g, s, 1..n), NEW h, Walks(h, t, 1..m)
    PROVE  \A k \in 0..n : Walked(g, k) = Walked(h, k)
<1> DEFINE I == {k \in 0..n : Walked(g, k) # Walked(h, k)}
<1>1. /\ Walked(g, 0) = NoHolds /\ Walked(h, 0) = NoHolds
      /\ \A k \in 1..n : Walked(g, k) = Pairing(Walked(g, k - 1), s[k])
      /\ \A k \in 1..m : Walked(h, k) = Pairing(Walked(h, k - 1), t[k])
  <2>1. /\ Walked(g, 0) = NoHolds
        /\ \A k \in 1..n : Walked(g, k) = Pairing(Walked(g, k - 1), s[k])
    BY WalkSteps
  <2>2. /\ Walked(h, 0) = NoHolds
        /\ \A k \in 1..m : Walked(h, k) = Pairing(Walked(h, k - 1), t[k])
    BY WalkSteps
  <2>3. QED
    BY <2>1, <2>2
<1>2. I = {}
  <2>1. SUFFICES ASSUME I # {} PROVE FALSE
    OBVIOUS
  <2>2. Min(I) \in I /\ \A k \in I : Min(I) <= k
    <3>1. I \subseteq Nat
      OBVIOUS
    <3>2. QED
      BY <2>1, <3>1, NatMin
  <2>3. Min(I) \in 0..n /\ Walked(g, Min(I)) # Walked(h, Min(I)) /\ Min(I) # 0
    BY <1>1, <2>2
  <2>4. PICK k \in 1..n : k = Min(I)
    <3>1. \A j \in 0..n : j # 0 => j \in 1..n
      OBVIOUS
    <3>2. QED
      BY <2>3, <3>1
  <2>5. k - 1 \in 0..n /\ k - 1 \notin I /\ k \in 1..m
    BY <2>2, <2>4
  <2>6. Walked(g, k - 1) = Walked(h, k - 1)
    BY <2>5
  <2>7. Walked(g, k) = Walked(h, k)
    BY <1>1, <2>5, <2>6 DEF SameEvents
  <2>8. QED
    BY <2>3, <2>4, <2>7
<1>3. QED
  BY <1>2

LEMMA WalkFound ==
    ASSUME NEW s, IsSeq(s)
    PROVE  \E g : Walks(g, s, 1..Len(s)) /\ Walk(s) = Walked(g, Len(s))
<1>1. Len(s) \in Nat /\ DOMAIN s = 1..Len(s)
  BY SeqDomain
<1>2. \E g : Walks(g, s, DOMAIN s)
  BY <1>1, WalkExists
<1>3. Walks(CHOOSE g : Walks(g, s, DOMAIN s), s, DOMAIN s)
  BY <1>2
<1>4. QED
  BY <1>1, <1>3, WalkIsFold DEF Walked

LEMMA WalkEmpty ==
    ASSUME NEW s, s = <<>>
    PROVE  Walk(s) = NoHolds
<1>1. IsSeq(s) /\ Len(s) = 0
  BY NoEventsSeq
<1>2. PICK g : Walks(g, s, 1..0) /\ Walk(s) = Walked(g, 0)
  BY <1>1, WalkFound
<1>3. QED
  BY <1>2, WalkSteps

LEMMA WalkAdds ==
    ASSUME NEW s, IsSeq(s), NEW t, IsSeq(t), NEW e, Adds(t, s, e)
    PROVE  Walk(t) = Pairing(Walk(s), e)
<1> DEFINE n == Len(s)
<1>1. /\ n \in Nat /\ DOMAIN s = 1..n
      /\ Len(t) = n + 1
      /\ \A i \in 1..n : t[i] = s[i]
      /\ t[n + 1] = e
  <2>1. Len(t) \in Nat /\ 1..Len(t) = 1..(n + 1) /\ n \in Nat
    BY SeqDomain DEF Adds
  <2>2. Len(t) = n + 1
    <3>1. \A i, j \in Nat : 1..i = 1..j => i = j
      OBVIOUS
    <3>2. n + 1 \in Nat
      BY <2>1
    <3>3. QED
      BY <2>1, <3>1, <3>2
  <2>3. QED
    BY <2>2 DEF Adds, Extends
<1> HIDE DEF n
<1>2. PICK g : Walks(g, s, 1..n) /\ Walk(s) = Walked(g, n)
  BY <1>1, WalkFound DEF n
<1>3. PICK h : Walks(h, t, 1..(n + 1)) /\ Walk(t) = Walked(h, n + 1)
  BY <1>1, WalkFound
<1>4. SameEvents(s, t, n)
  BY <1>1 DEF SameEvents
<1>5. Walked(g, n) = Walked(h, n)
  BY <1>1, <1>2, <1>3, <1>4, WalksAgree
<1>6. Walked(h, n + 1) = Pairing(Walked(h, n), e)
  <2>1. n + 1 \in Nat /\ n + 1 \in 1..(n + 1) /\ (n + 1) - 1 = n
    BY <1>1
  <2>2. \A k \in 1..(n + 1) : Walked(h, k) = Pairing(Walked(h, k - 1), t[k])
    BY <1>3, <2>1, WalkSteps
  <2>3. Walked(h, n + 1) = Pairing(Walked(h, (n + 1) - 1), t[n + 1])
    BY <2>1, <2>2
  <2>4. QED
    BY <1>1, <2>1, <2>3
<1>7. QED
  BY <1>2, <1>3, <1>5, <1>6

-----------------------------------------------------------------------------
(* What one event does to the holds *)

IsWalk(state) == state = [pending |-> state.pending, holds |-> state.holds]

\* The call a decision is about, and the hold it is.
PairOf(state, e) == IF NamedPair(e) # NoPair THEN NamedPair(e) ELSE state.pending

HoldOf(pair, e) == [request |-> pair[1], call |-> pair[2], rule |-> e.body.rule]

LEMMA PairingCases ==
    ASSUME NEW state, IsWalk(state), NEW e
    PROVE  /\ IsWalk(Pairing(state, e))
           /\ e.kind = "tool.request" =>
                 Pairing(state, e) = [pending |-> NamedPair(e), holds |-> state.holds]
           /\ e.kind \notin {"tool.request", "policy.decision"} => Pairing(state, e) = state
           /\ e.kind = "policy.decision" =>
                 /\ Pairing(state, e).pending = NoPair
                 /\ \/ Pairing(state, e).holds = state.holds
                    \/ /\ PairOf(state, e) # NoPair
                       /\ e.body.verdict = "hold"
                       /\ Pairing(state, e).holds = Append(state.holds, HoldOf(PairOf(state, e), e))
                 /\ PairOf(state, e) # NoPair /\ e.body.verdict = "hold" =>
                       Pairing(state, e).holds = Append(state.holds, HoldOf(PairOf(state, e), e))
<1> DEFINE a == state.pending
           b == state.holds
           named == NamedPair(e)
<1>1. state = [pending |-> a, holds |-> b]
  BY DEF IsWalk
<1> HIDE DEF a, b, named
<1>2. CASE e.kind = "tool.request"
  <2>1. Pairing(state, e) = [pending |-> named, holds |-> b]
    BY <1>1, <1>2 DEF Pairing, named
  <2>2. QED
    BY <1>2, <2>1 DEF IsWalk, named, b
<1>3. CASE e.kind \notin {"tool.request", "policy.decision"}
  <2>1. Pairing(state, e) = state
    BY <1>3 DEF Pairing
  <2>2. QED
    BY <1>3, <2>1
<1>4. CASE e.kind = "policy.decision"
  <2>1. Pairing(state, e) =
           [pending |-> NoPair,
            holds |-> IF PairOf(state, e) = NoPair \/ e.body.verdict # "hold" THEN state.holds
                      ELSE Append(state.holds, HoldOf(PairOf(state, e), e))]
    BY <1>4 DEF Pairing, PairOf, HoldOf
  <2>2. QED
    BY <1>4, <2>1 DEF IsWalk
<1>5. QED
  BY <1>2, <1>3, <1>4

\* What a walk keeps.
Kept(state) == IsWalk(state) /\ IsSeq(state.holds)

LEMMA PairingKeeps ==
    ASSUME NEW state, Kept(state), NEW e
    PROVE  Kept(Pairing(state, e))
<1> DEFINE next == Pairing(state, e)
<1>1. IsWalk(state) /\ IsSeq(state.holds)
  BY DEF Kept
<1>2. CASE e.kind = "tool.request"
  <2>1. next = [pending |-> NamedPair(e), holds |-> state.holds]
    BY <1>1, <1>2, PairingCases
  <2>2. next.holds = state.holds /\ IsWalk(next)
    BY <2>1 DEF IsWalk
  <2>3. QED
    BY <1>1, <2>2 DEF Kept
<1>3. CASE e.kind \notin {"tool.request", "policy.decision"}
  BY <1>1, <1>3, PairingCases
<1>4. CASE e.kind = "policy.decision"
  <2>1. /\ IsWalk(next)
        /\ \/ next.holds = state.holds
           \/ next.holds = Append(state.holds, HoldOf(PairOf(state, e), e))
    BY <1>1, <1>4, PairingCases
  <2>2. IsSeq(next.holds)
    <3>1. \A hold : IsSeq(Append(state.holds, hold))
      BY <1>1, AppendSeq
    <3> HIDE DEF next
    <3>2. QED
      BY <1>1, <2>1, <3>1
  <2>3. QED
    BY <2>1, <2>2 DEF Kept
<1>5. QED
  BY <1>2, <1>3, <1>4

LEMMA WalkKept ==
    ASSUME NEW s, IsSeq(s)
    PROVE  Kept(Walk(s))
<1> DEFINE n == Len(s)
<1>1. n \in Nat /\ DOMAIN s = 1..n
  BY SeqDomain
<1> HIDE DEF n
<1>2. PICK g : Walks(g, s, 1..n) /\ Walk(s) = Walked(g, n)
  BY WalkFound DEF n
<1>3. /\ Walked(g, 0) = NoHolds
      /\ \A k \in 1..n : Walked(g, k) = Pairing(Walked(g, k - 1), s[k])
  BY <1>1, <1>2, WalkSteps
<1>4. Kept(NoHolds)
  <2>1. NoHolds.holds = <<>> /\ IsWalk(NoHolds)
    BY DEF NoHolds, IsWalk
  <2>2. DOMAIN NoHolds.holds = {} /\ IsSeq(NoHolds.holds)
    BY <2>1, NoEventsSeq
  <2>3. QED
    BY <2>1, <2>2 DEF Kept
<1> DEFINE I == {k \in 0..n : ~Kept(Walked(g, k))}
<1>5. I = {}
  <2>1. SUFFICES ASSUME I # {} PROVE FALSE
    OBVIOUS
  <2>2. Min(I) \in I /\ \A k \in I : Min(I) <= k
    <3>1. I \subseteq Nat
      OBVIOUS
    <3>2. QED
      BY <2>1, <3>1, NatMin
  <2>3. Min(I) \in 0..n /\ ~Kept(Walked(g, Min(I))) /\ Min(I) # 0
    BY <1>3, <1>4, <2>2
  <2>4. PICK k \in 1..n : k = Min(I)
    <3>1. \A j \in 0..n : j # 0 => j \in 1..n
      OBVIOUS
    <3>2. QED
      BY <2>3, <3>1
  <2>5. k - 1 \in 0..n /\ ~(k <= k - 1)
    BY <1>1
  <2>6. k - 1 \notin I
    BY <2>2, <2>4, <2>5
  <2>7. Kept(Walked(g, k - 1))
    BY <2>5, <2>6
  <2>8. Kept(Walked(g, k))
    BY <1>1, <1>3, <2>7, PairingKeeps
  <2>9. QED
    BY <2>3, <2>4, <2>8
<1>6. n \in 0..n
  BY <1>1
<1>7. QED
  BY <1>2, <1>5, <1>6

\* The holds of a log are a sequence.
LEMMA HoldsSeq ==
    ASSUME NEW s, IsSeq(s)
    PROVE  IsSeq(Holds(s))
BY WalkKept, WalkHolds DEF Kept

\* The hold of a decision that names its call.
NamedHold(e) == [request |-> e.body.request, call |-> e.body.call, rule |-> e.body.rule]

\* A decision that holds adds one, whatever else was pending, and nothing else
\* does.
LEMMA HoldsAdds ==
    ASSUME NEW s, IsSeq(s), NEW t, IsSeq(t), NEW e, Adds(t, s, e)
    PROVE  /\ e.kind # "policy.decision" => Holds(t) = Holds(s)
           /\ e.kind = "policy.decision" /\ e.body.request \notin {NoId, Null} =>
                 \/ e.body.verdict # "hold" /\ Holds(t) = Holds(s)
                 \/ e.body.verdict = "hold" /\ Holds(t) = Append(Holds(s), NamedHold(e))
<1>1. IsWalk(Walk(s)) /\ Walk(t) = Pairing(Walk(s), e)
  BY WalkKept, WalkAdds DEF Kept
<1>2. Holds(s) = Walk(s).holds /\ Holds(t) = Walk(t).holds
  BY WalkHolds
<1>3. CASE e.kind # "policy.decision"
  <2>1. CASE e.kind = "tool.request"
    <3>1. Walk(t) = [pending |-> NamedPair(e), holds |-> Walk(s).holds]
      BY <1>1, <2>1, PairingCases
    <3>2. QED
      BY <1>2, <1>3, <3>1
  <2>2. CASE e.kind # "tool.request"
    <3>1. Walk(t) = Walk(s)
      BY <1>1, <1>3, <2>2, PairingCases
    <3>2. QED
      BY <1>2, <1>3, <3>1
  <2>3. QED
    BY <2>1, <2>2
<1>4. CASE e.kind = "policy.decision" /\ e.body.request \notin {NoId, Null}
  <2>1. NamedPair(e) = <<e.body.request, e.body.call>> /\ NamedPair(e) # NoPair
    BY <1>4 DEF NamedPair, NoPair
  <2>2. PairOf(Walk(s), e) = <<e.body.request, e.body.call>> /\ PairOf(Walk(s), e) # NoPair
    BY <2>1 DEF PairOf
  <2>3. HoldOf(PairOf(Walk(s), e), e) = NamedHold(e)
    BY <2>2 DEF HoldOf, NamedHold
  <2>4. CASE e.body.verdict = "hold"
    <3>1. Walk(t).holds = Append(Walk(s).holds, HoldOf(PairOf(Walk(s), e), e))
      BY <1>1, <1>4, <2>2, <2>4, PairingCases
    <3>2. QED
      BY <1>2, <1>4, <2>3, <2>4, <3>1
  <2>5. CASE e.body.verdict # "hold"
    <3>1. Walk(t).holds = Walk(s).holds
      BY <1>1, <1>4, <2>5, PairingCases
    <3>2. QED
      BY <1>2, <1>4, <2>5, <3>1
  <2>6. QED
    BY <2>4, <2>5
<1>5. QED
  BY <1>3, <1>4

-----------------------------------------------------------------------------
(* What a broker holds, the inbox of what it has read lists *)

Listed(s, x) ==
    \E h \in DOMAIN Holds(s) : Holds(s)[h].call = x.call /\ Holds(s)[h].rule = x.decision.rule

HeldListed == \A p \in Broker : pc[p] = "held" => Listed(view[p], current[p])

\* The request of a call being decided is one of the run, so it has an id.
LEMMA RequestNamed ==
    ASSUME Base, ScopesKept, NEW p \in Broker, pc[p] = "deciding"
    PROVE  current[p].request \notin {NoId, Null}
<1>1. current[p].request \in IdType /\ current[p].request[1] = run[p]
  BY DEF Base, Typed, CallType, ScopesKept, InScope
<1>2. run[p] # NoRun
  BY DEF Base, Control, IsOpen
<1>3. NoId[1] = NoRun
  BY DEF NoId
<1>4. QED
  BY <1>1, <1>2, <1>3, HarnessAssumption

\* The decision a broker records: the hold of its call, or no hold at all.
LEMMA DecisionRecorded ==
    ASSUME Base, ScopesKept, NEW p \in Broker, MakeDecision(p)
    PROVE  \E e : /\ log' = Append(log, e)
                  /\ view'[p] = Append(view[p], e)
                  /\ e.kind = "policy.decision"
                  /\ e.body.request = current[p].request
                  /\ e.body.request \notin {NoId, Null}
                  /\ e.body.call = current'[p].call
                  /\ e.body.rule = current'[p].decision.rule
                  /\ pc'[p] = "held" => e.body.verdict = "hold"
<1> DEFINE d == Decided(p)
           body == [request |-> current[p].request, call |-> current[p].call, cap |-> d.cap,
                    verdict |-> d.verdict, rule |-> d.rule, obligation |-> d.obligation]
           e == Stamped(run[p], seq[p], "policy.decision", body)
<1>1. /\ Emit(p, "policy.decision", body)
      /\ current' = [current EXCEPT ![p].decision = d]
      /\ pc[p] = "deciding"
      /\ pc' = [pc EXCEPT ![p] = CASE d.verdict = "deny"  -> "denied"
                                   [] d.verdict = "hold"  -> "held"
                                   [] d.verdict = "allow" -> "cleared"]
  BY DEF MakeDecision, Goto, At
<1>2. d.verdict \in {"deny", "hold", "allow"}
  BY DecidedType DEF DecisionType, Actions
<1>3. /\ p \in Process
      /\ view = [q \in Process |-> view[q]]
      /\ pc = [q \in Broker \cup Approver |-> pc[q]]
      /\ current \in [Broker -> CallType]
  BY BrokerAssumption DEF Base, Logged, ViewsOK, Control, Typed
<1>4. current[p].request \notin {NoId, Null}
  BY <1>1, RequestNamed
<1>5. /\ body.request = current[p].request
      /\ body.call = current[p].call
      /\ body.rule = d.rule
      /\ body.verdict = d.verdict
  OBVIOUS
<1>6. current'[p].call = current[p].call /\ current'[p].decision.rule = d.rule
  <2>1. current'[p] = [current[p] EXCEPT !.decision = d]
    BY <1>1, <1>3
  <2>2. current[p] \in CallType
    BY <1>3
  <2>3. QED
    BY <2>1, <2>2 DEF CallType
<1>7. e.kind = "policy.decision" /\ e.body = body
  BY DEF Stamped
<1>8. log' = Append(log, e) /\ view'[p] = Append(view[p], e)
  BY <1>1, <1>3 DEF Emit
<1>9. pc'[p] = "held" => d.verdict = "hold"
  BY <1>1, <1>2, <1>3
<1> HIDE DEF e, body, d
<1>10. QED
  BY <1>4, <1>5, <1>6, <1>7, <1>8, <1>9

LEMMA DecisionListed ==
    ASSUME Base, ScopesKept, NEW p \in Broker, MakeDecision(p), pc'[p] = "held"
    PROVE  Listed(view'[p], current'[p])
<1>1. PICK e : /\ view'[p] = Append(view[p], e)
               /\ e.kind = "policy.decision"
               /\ e.body.request \notin {NoId, Null}
               /\ e.body.call = current'[p].call
               /\ e.body.rule = current'[p].decision.rule
               /\ e.body.verdict = "hold"
  BY DecisionRecorded
<1>2. IsSeq(view[p])
  BY BrokerAssumption DEF Base, Logged, ViewsOK, ReadFrom
<1>3. IsSeq(view'[p]) /\ Adds(view'[p], view[p], e)
  BY <1>1, <1>2, AppendSeq, AppendAdds
<1>4. Holds(view'[p]) = Append(Holds(view[p]), NamedHold(e))
  BY <1>1, <1>2, <1>3, HoldsAdds
<1>5. IsSeq(Holds(view[p]))
  BY <1>2, HoldsSeq
<1>6. /\ Len(Holds(view[p])) + 1 \in DOMAIN Holds(view'[p])
      /\ Holds(view'[p])[Len(Holds(view[p])) + 1] = NamedHold(e)
  <2>1. \A n \in Nat : n + 1 \in 1..(n + 1)
    OBVIOUS
  <2>2. QED
    BY <1>4, <1>5, <2>1, AppendSeq
<1>7. NamedHold(e).call = current'[p].call /\ NamedHold(e).rule = current'[p].decision.rule
  BY <1>1 DEF NamedHold
<1>8. QED
  BY <1>6, <1>7 DEF Listed

\* Only a decision puts a broker before a hold, and only an answer, or a kill,
\* takes it away.
LEMMA HeldMoves ==
    ASSUME Base, NEW p \in Broker, BrokerStep(p)
    PROVE  /\ pc'[p] = "held" => MakeDecision(p)
           /\ pc[p] = "held" /\ pc'[p] = "cleared" => UsableGrant(p) # 0
           /\ pc[p] = "held" /\ pc'[p] = "ready" => UsableGrant(p) = 0
<1>0. pc = [q \in Broker \cup Approver |-> pc[q]]
  BY DEF Base, Control
<1>1. CASE \/ StartBroker(p)
           \/ \E t \in Tool : Register(p, t)
           \/ \E s \in Scopes : DelegateScope(p, s)
           \/ \E c \in Call : Request(p, c)
  BY <1>0, <1>1 DEF StartBroker, Register, DelegateScope, Request, Goto, At
<1>2. CASE MakeDecision(p)
  BY <1>2 DEF MakeDecision, At
<1>3. CASE Demote(p) \/ Refuse(p)
  BY <1>0, <1>3 DEF Demote, Refuse, Result, Goto, At
<1>4. CASE Block(p)
  BY <1>0, <1>4 DEF Block, Result, Goto, At
<1>5. CASE UseGrant(p)
  BY <1>0, <1>5 DEF UseGrant, Goto, At
<1>6. CASE RefuseCredential(p) \/ Execute(p) \/ FailToExecute(p) \/ Finish(p)
  BY <1>0, <1>6 DEF RefuseCredential, Execute, FailToExecute, Finish, Result, Goto, At
<1>7. CASE SealBroker(p) \/ KillBroker(p)
  BY <1>0, <1>7 DEF SealBroker, KillBroker, Close, Goto
<1>8. QED
  BY <1>1, <1>2, <1>3, <1>4, <1>5, <1>6, <1>7 DEF BrokerStep, CallStep

LEMMA NextKeepsListed ==
    ASSUME Base, ScopesKept, HeldListed, [Next]_vars
    PROVE  HeldListed'
<1>1. ASSUME NEW p \in Broker, BrokerStep(p)
      PROVE  HeldListed'
  <2>1. pc'[p] = "held" => Listed(view'[p], current'[p])
    BY <1>1, HeldMoves, DecisionListed
  <2>2. ASSUME NEW q \in Broker, q # p
        PROVE  SameCall(q) /\ view'[q] = view[q]
    <3>1. LogStep(p) /\ p \in Process /\ q \in Process
      BY <1>1, BrokerLogSteps, BrokerAssumption DEF Base
    <3>2. QED
      BY <1>1, <2>2, <3>1, BrokerFrame, LogStepFrame
  <2>3. QED
    BY <2>1, <2>2 DEF HeldListed, SameCall
<1>2. CASE ~\E p \in Broker : BrokerStep(p)
  BY <1>2, OtherFrame, OthersAdd DEF HeldListed, SameCall
<1>3. QED
  BY <1>1, <1>2

\* The inbox's test of a usable grant is the broker's.
LEMMA ReleasesWhenUsable ==
    ASSUME Base, NEW p \in Broker
    PROVE  Releases(view[p], current[p].call, current[p].decision.rule) <=> UsableGrant(p) # 0
<1> DEFINE h == view[p]
           call == current[p].call
           rule == current[p].decision.rule
           Found(i) == h[i].kind = "approval" /\ Usable(h[i].body, call, rule, Spent(h))
           I == {i \in 1..Len(h) : Found(i)}
<1>1. UsableGrant(p) = IF I # {} THEN Min(I) ELSE 0
  BY DEF UsableGrant, SelectInSeq
<1>2. IsSeq(h)
  BY BrokerAssumption DEF Base, Logged, ViewsOK, ReadFrom
<1>3. Len(h) \in Nat /\ DOMAIN h = 1..Len(h)
  BY <1>2, SeqDomain
<1>4. UsableGrant(p) # 0 <=> I # {}
  <2> HIDE DEF Found
  <2>1. I \subseteq Nat /\ 0 \notin I
    BY <1>3
  <2>2. I # {} => Min(I) \in I
    BY <2>1, NatMin
  <2>3. QED
    BY <1>1, <2>1, <2>2
<1>5. \A i \in DOMAIN h : Found(i) <=>
         /\ h[i].kind = "approval"
         /\ h[i].body.call = call
         /\ h[i].body.rule = rule
         /\ h[i].body.verdict = "approve"
         /\ h[i].body.approver \in Approvers
         /\ ~\E u \in OfKind(h, "approval.use") : h[u].body.grant = h[i].body.grant
  BY DEF Usable, Spent
<1> HIDE DEF Found
<1>6. I # {} <=> \E i \in DOMAIN h : Found(i)
  BY <1>3
<1>7. QED
  BY <1>4, <1>5, <1>6 DEF Releases, OfKind

\* A broker reaches a held call with the inbox of what it has read before it,
\* and does what that says.
LEMMA StepAgrees ==
    ASSUME Base, HeldListed, [Next]_vars, NEW p \in Broker,
           pc[p] = "held", pc'[p] \in {"cleared", "ready"}
    PROVE  \E e \in Inbox(view[p]) :
              /\ e.call = current[p].call
              /\ e.rule = current[p].decision.rule
              /\ e.releases <=> pc'[p] = "cleared"
<1> DEFINE call == current[p].call
           rule == current[p].decision.rule
<1>1. BrokerStep(p)
  <2>1. pc'[p] # pc[p]
    OBVIOUS
  <2>2. PICK q \in Broker : BrokerStep(q)
    BY <2>1, OtherFrame DEF SameCall
  <2>3. q = p
    BY <2>1, <2>2, BrokerFrame DEF SameCall
  <2>4. QED
    BY <2>2, <2>3
<1>2. pc'[p] = "cleared" <=> UsableGrant(p) # 0
  BY <1>1, HeldMoves
<1>3. pc'[p] = "cleared" <=> Releases(view[p], call, rule)
  BY <1>2, ReleasesWhenUsable
<1>4. PICK h \in DOMAIN Holds(view[p]) :
         Holds(view[p])[h].call = call /\ Holds(view[p])[h].rule = rule
  BY DEF HeldListed, Listed
<1>5. Entry(view[p], call, rule) \in Inbox(view[p])
  BY <1>4 DEF Inbox
<1>6. /\ Entry(view[p], call, rule).call = call
      /\ Entry(view[p], call, rule).rule = rule
      /\ Entry(view[p], call, rule).releases = Releases(view[p], call, rule)
  BY DEF Entry
<1>7. QED
  BY <1>3, <1>5, <1>6

\* What the inbox shows of a held call is what the broker does when it reaches
\* it, when both have read the same of the ledger: for any number of brokers,
\* approvers and orchestrators at once, whoever is killed and whatever expires.
THEOREM InboxAgrees == Spec => InboxAgreesWithBroker
<1>1. Init => Base /\ ScopesKept /\ HeldListed
  <2> SUFFICES ASSUME Init PROVE Base /\ ScopesKept /\ HeldListed
    OBVIOUS
  <2>1. Base
    BY InitBase
  <2>2. \A p \in Broker : pc[p] = "closed" /\ ~IsOpen(p)
    BY BrokerAssumption DEF Init, BrokerInit, LogInit, IsOpen
  <2>3. executed = <<>>
    BY DEF Init, BrokerInit
  <2>4. QED
    BY <2>1, <2>2, <2>3 DEF ScopesKept, InScope, HeldListed
<1>2. Base /\ ScopesKept /\ HeldListed /\ [Next]_vars => (Base /\ ScopesKept /\ HeldListed)'
  BY NextKeepsBase, NextKeepsScopes, NextKeepsListed
<1>3. Base /\ HeldListed /\ [Next]_vars =>
         [\A p \in Broker :
             pc[p] = "held" /\ pc'[p] \in {"cleared", "ready"} =>
                 \E e \in Inbox(view[p]) :
                     /\ e.call = current[p].call
                     /\ e.rule = current[p].decision.rule
                     /\ e.releases <=> pc'[p] = "cleared"]_vars
  BY StepAgrees
<1>4. QED
  BY <1>1, <1>2, <1>3, PTL DEF Spec, InboxAgreesWithBroker

-----------------------------------------------------------------------------
(* Requests are held once, and answers given by those who may *)

\* However often a request is held, it is the same call under the same rule.
HoldsAgree(s) ==
    \A g, h \in DOMAIN Holds(s) :
        Holds(s)[g].request = Holds(s)[h].request =>
            Holds(s)[g].call = Holds(s)[h].call /\ Holds(s)[g].rule = Holds(s)[h].rule

\* An approval is a yes or a no, and once somebody who is permitted to has
\* answered for a call and a rule, nobody else does.
AnswersGiven(s) ==
    /\ \A a \in OfKind(s, "approval") : s[a].body.verdict \in {"approve", "deny"}
    /\ \A a, b \in OfKind(s, "approval") :
          /\ a < b
          /\ s[a].body.call = s[b].body.call
          /\ s[a].body.rule = s[b].body.rule
          /\ s[a].body.approver \in Approvers
          => s[b].body.approver \in Approvers

\* What the log earlier runs left must say of itself: that, and that what was
\* held was a request of one of them.
RecordedAnswers ==
    /\ HoldsAgree(Recorded)
    /\ AnswersGiven(Recorded)
    /\ \A h \in DOMAIN Holds(Recorded) :
          \E j \in DOMAIN Recorded : Holds(Recorded)[h].request[1] = Recorded[j].run

LEMMA NoAnswersRecorded == Recorded = <<>> => RecordedAnswers
<1> SUFFICES ASSUME Recorded = <<>> PROVE RecordedAnswers
  OBVIOUS
<1>1. DOMAIN Recorded = {}
  BY NoEventsSeq
<1>2. Holds(Recorded) = <<>>
  BY WalkEmpty, WalkHolds DEF NoHolds
<1>3. DOMAIN Holds(Recorded) = {}
  BY <1>2, NoEventsSeq
<1>4. QED
  BY <1>1, <1>3 DEF RecordedAnswers, HoldsAgree, AnswersGiven, OfKind

\* A request is named by its run and its number in it.  What was held is of a
\* run that has opened, and by the numbers of those that are open; the request
\* a broker is deciding is none of it.
HeldBelow(s, id, n) ==
    \A h \in DOMAIN Holds(s) :
        Holds(s)[h].request[1] = id => Holds(s)[h].request[2] \in Nat /\ Holds(s)[h].request[2] < n

HeldUpTo(s, c) ==
    \A h \in DOMAIN Holds(s) : Holds(s)[h].request[1] \in Nat /\ Holds(s)[h].request[1] <= c

Unheld(s, x) == \A h \in DOMAIN Holds(s) : Holds(s)[h].request # x

NumberedBelow(x, n) == x[2] \in Nat /\ x[2] < n

NumbersKept ==
    /\ HeldUpTo(log, clock)
    /\ \A p \in Broker : IsOpen(p) => HeldBelow(log, run[p], seq[p])
    /\ \A p \in Broker : pc[p] = "deciding" =>
          Unheld(log, current[p].request) /\ NumberedBelow(current[p].request, seq[p])

InboxKept == HoldsAgree(log) /\ AnswersGiven(log) /\ NumbersKept

\* Every event but a decision; and an approval among them is an answer of
\* somebody who is permitted to give it.
Plain(e) ==
    /\ e.kind # "policy.decision"
    /\ e.kind = "approval" =>
          e.body.verdict \in {"approve", "deny"} /\ e.body.approver \in Approvers

PlainStep == log' = log \/ \E e : Adds(log', log, e) /\ Plain(e)

LEMMA PlainEmits ==
    ASSUME Base, NEW p, NEW kind, NEW body, kind # "policy.decision",
           kind = "approval" => body.verdict \in {"approve", "deny"} /\ body.approver \in Approvers,
           Emit(p, kind, body) \/ Depart(p, kind, body)
    PROVE  PlainStep
<1>1. Adds(log', log, Stamped(run[p], seq[p], kind, body))
  BY EmitAdds, DepartAdds
<1>2. Plain(Stamped(run[p], seq[p], kind, body))
  BY StampedFields DEF Plain
<1>3. QED
  BY <1>1, <1>2 DEF PlainStep

LEMMA PlainOpens ==
    ASSUME Base, NEW p, NEW kinds \in {<<>>, <<"run.open">>}, NEW body, OpenRun(p, kinds, body)
    PROVE  PlainStep
<1> DEFINE e == Stamped(clock + 1, 0, "run.open", body)
<1>1. log' = log \/ log' = Append(log, e)
  BY OpenRunLogs DEF Base, Logged
<1>2. Adds(Append(log, e), log, e)
  BY BaseLog, AppendAdds
<1>3. Plain(e)
  BY StampedFields DEF Plain
<1>4. QED
  BY <1>1, <1>2, <1>3 DEF PlainStep

LEMMA BrokerPlain ==
    ASSUME Base, NEW p \in Broker, BrokerStep(p), ~MakeDecision(p)
    PROVE  PlainStep
<1>1. ASSUME NEW outcome, Result(p, outcome)
      PROVE  PlainStep
  <2>1. \E body : Emit(p, "tool.result", body)
    BY <1>1 DEF Result
  <2>2. QED
    BY <2>1, PlainEmits
<1>2. CASE StartBroker(p)
  BY <1>2, PlainOpens DEF StartBroker
<1>3. ASSUME NEW kind \in {"tool.register", "subagent.spawn", "tool.request", "rung.change", "approval.use"},
             NEW body, Emit(p, kind, body)
      PROVE  PlainStep
  BY <1>3, PlainEmits
<1>4. CASE \/ \E t \in Tool : Register(p, t)
           \/ \E s \in Scopes : DelegateScope(p, s)
           \/ \E c \in Call : Request(p, c)
           \/ Demote(p)
           \/ UseGrant(p)
  <2>1. \E kind \in {"tool.register", "subagent.spawn", "tool.request", "rung.change", "approval.use"} :
           \E body : Emit(p, kind, body)
    BY <1>4 DEF Register, DelegateScope, Request, Demote, UseGrant
  <2>2. QED
    BY <1>3, <2>1
<1>5. CASE Refuse(p) \/ Block(p) \/ RefuseCredential(p) \/ FailToExecute(p) \/ Finish(p)
  BY <1>1, <1>5 DEF Refuse, Block, RefuseCredential, FailToExecute, Finish
<1>6. CASE Execute(p) \/ KillBroker(p)
  BY <1>6 DEF Execute, KillBroker, Die, Exit, logVars, PlainStep
<1>7. CASE SealBroker(p)
  <2>1. \E body : Depart(p, "run.seal", body)
    BY <1>7 DEF SealBroker, SealRun
  <2>2. QED
    BY <2>1, PlainEmits
<1>8. QED
  BY <1>2, <1>4, <1>5, <1>6, <1>7 DEF BrokerStep, CallStep

LEMMA ApprovalFields ==
    \A grant, verdict, call, rule, who, request :
        /\ Approval(grant, verdict, call, rule, who, request).verdict = verdict
        /\ Approval(grant, verdict, call, rule, who, request).approver = who
BY DEF Approval

LEMMA OthersPlain ==
    ASSUME Base, [Next]_vars, ~\E p \in Broker : BrokerStep(p)
    PROVE  PlainStep
<1>1. ASSUME NEW p \in Approver, ApproverStep(p)
      PROVE  PlainStep
  <2>1. CASE StartApprove(p)
    BY <2>1, PlainOpens DEF StartApprove
  <2>2. ASSUME NEW r, NEW v \in {"approve", "deny"}, NEW who, Answer(p, r, v, who)
        PROVE  PlainStep
    <3>1. PICK grant, call, rule : Emit(p, "approval", Approval(grant, v, call, rule, who, r))
      BY <2>2 DEF Answer
    <3>2. who \in Approvers
      BY <2>2 DEF Answer
    <3>3. QED
      BY <3>1, <3>2, ApprovalFields, PlainEmits
  <2>3. CASE SealApprove(p)
    <3>1. \E body : Depart(p, "run.seal", body)
      BY <2>3 DEF SealApprove, SealRun
    <3>2. QED
      BY <3>1, PlainEmits
  <2>4. CASE RefuseApprove(p) \/ KillApprove(p)
    BY <2>4 DEF RefuseApprove, KillApprove, Die, Exit, PlainStep
  <2>5. QED
    BY <1>1, <2>1, <2>2, <2>3, <2>4 DEF ApproverStep
<1>2. ASSUME NEW o \in Orchestrators, OrchestratorStep(o)
      PROVE  PlainStep
  <2>1. ASSUME NEW cap, StartStep(o, cap)
        PROVE  PlainStep
    <3>1. OpenRun(o, <<"run.open">>, [workload |-> "orchestrate"])
      BY <2>1 DEF StartStep
    <3>2. QED
      BY <3>1, PlainOpens
  <2>2. CASE \/ \E verdict \in {"pass", "fail"} : Sense(o, verdict)
             \/ RecordFailure(o) \/ RecordClean(o) \/ DemoteOnFailure(o) \/ Promote(o)
    <3>1. \E kind \in {"sensor.verdict", "capability.run", "rung.change"} : \E body : Emit(o, kind, body)
      BY <2>2 DEF Sense, RecordFailure, RecordClean, RecordRun, DemoteOnFailure, Promote
    <3>2. QED
      BY <3>1, PlainEmits
  <2>3. ASSUME NEW who \in Identity, ApprovePromotion(o, who)
        PROVE  PlainStep
    <3>1. /\ who \in Approvers
          /\ Emit(o, "approval",
                  Approval(<<NoRun, 0>>, "approve", "none", "none", who, <<NoRun, 0>>))
      BY <2>3 DEF ApprovePromotion
    <3>2. QED
      BY <3>1, ApprovalFields, PlainEmits
  <2>4. CASE SealStep(o)
    <3>1. \E body : Depart(o, "run.seal", body)
      BY <2>4 DEF SealStep, SealRun
    <3>2. QED
      BY <3>1, PlainEmits
  <2>5. CASE FailStep(o) \/ KillStep(o)
    BY <2>5 DEF FailStep, KillStep, Die, Exit, PlainStep
  <2>6. QED
    BY <1>2, <2>1, <2>2, <2>3, <2>4, <2>5 DEF OrchestratorStep
<1>3. ASSUME NEW i \in DOMAIN log, Expire(i)
      PROVE  PlainStep
  <2> DEFINE e == Stamped(NoRun, 0, "retention.expire", [event |-> i])
  <2>1. e.kind = "retention.expire"
    BY StampedFields
  <2>2. log' = Append(log, e)
    BY <1>3 DEF Expire
  <2> HIDE DEF e
  <2>3. QED
    BY <2>1, <2>2, BaseLog, AppendAdds DEF Plain, PlainStep
<1>4. CASE UNCHANGED vars
  BY <1>4 DEF vars, logVars, PlainStep
<1>5. QED
  BY <1>1, <1>2, <1>3, <1>4 DEF Next, BrokerNext, OrchestratorNext

-----------------------------------------------------------------------------
(* Appending keeps all this *)

LEMMA GrowthKeepsAnswers ==
    ASSUME NEW s, NEW t, NEW e, Adds(t, s, e), AnswersGiven(s),
           e.kind = "approval" =>
               e.body.verdict \in {"approve", "deny"} /\ e.body.approver \in Approvers
    PROVE  AnswersGiven(t)
<1>1. \A i \in DOMAIN t : \/ (i \in DOMAIN s /\ t[i] = s[i] /\ i <= Len(s))
                          \/ (i = Len(s) + 1 /\ t[i] = e)
  BY AddedIndex
<1>2. Len(s) \in Nat /\ DOMAIN s = 1..Len(s)
  BY DEF Adds
<1>3. ASSUME NEW a \in OfKind(t, "approval")
      PROVE  t[a].body.verdict \in {"approve", "deny"}
  BY <1>1, <1>3 DEF AnswersGiven, OfKind
<1>4. ASSUME NEW a \in OfKind(t, "approval"), NEW b \in OfKind(t, "approval"), a < b,
             t[a].body.call = t[b].body.call, t[a].body.rule = t[b].body.rule,
             t[a].body.approver \in Approvers
      PROVE  t[b].body.approver \in Approvers
  <2>1. a \in DOMAIN t /\ b \in DOMAIN t /\ t[a].kind = "approval" /\ t[b].kind = "approval"
    BY DEF OfKind
  <2>2. CASE b = Len(s) + 1 /\ t[b] = e
    BY <2>1, <2>2
  <2>3. CASE b \in DOMAIN s /\ t[b] = s[b] /\ b <= Len(s)
    <3>1. a \in DOMAIN s /\ t[a] = s[a]
      <4>1. \A n, x \in Nat : x <= n => ~(n + 1 < x)
        OBVIOUS
      <4>2. a # Len(s) + 1
        BY <1>2, <1>4, <2>3, <4>1
      <4>3. QED
        BY <1>1, <2>1, <4>2
    <3>2. QED
      BY <1>4, <2>1, <2>3, <3>1 DEF AnswersGiven, OfKind
  <2>4. QED
    BY <1>1, <2>1, <2>2, <2>3
<1>5. QED
  BY <1>3, <1>4 DEF AnswersGiven

\* The counter of a broker that stays open never falls, and the clock neither.
LEMMA SeqMoves ==
    ASSUME Base, [Next]_vars, NEW p \in Broker, IsOpen(p)'
    PROVE  /\ seq[p] \in Nat /\ seq'[p] \in Nat
           /\ clock \in Nat /\ clock' \in Nat /\ clock <= clock'
           /\ \/ IsOpen(p) /\ run'[p] = run[p] /\ seq[p] <= seq'[p]
              \/ run'[p] = clock + 1
<1>1. /\ p \in Process
      /\ seq = [q \in Process |-> seq[q]]
      /\ seq[p] \in Nat
      /\ \A n \in Nat : n <= n /\ n <= n + 1
  BY BrokerAssumption DEF Base, Logged, RunsOK
<1>2. Base'
  BY NextKeepsBase
<1>3. seq'[p] \in Nat
  BY <1>1, <1>2 DEF Base, Logged, RunsOK
<1>4. ASSUME NEW q \in Broker, BrokerStep(q)
      PROVE  /\ clock \in Nat /\ clock' \in Nat /\ clock <= clock'
             /\ IsOpen(p) /\ run'[p] = run[p] => seq[p] <= seq'[p]
  <2>1. LogStep(q) /\ q \in Process
    BY <1>4, BrokerLogSteps, BrokerAssumption DEF Base
  <2>2. clock \in Nat /\ clock' \in Nat /\ clock <= clock' /\ (p # q => seq'[p] = seq[p])
    BY <1>1, <2>1, LogStepFrame
  <2>3. ASSUME p = q, IsOpen(p), run'[p] = run[p]
        PROVE  seq[p] <= seq'[p]
    <3>1. \A kinds, body : ~OpenRun(p, kinds, body)
      BY <2>3 DEF OpenRun
    <3>2. ~Leave(p) /\ \A kind, body : ~Depart(p, kind, body)
      BY <1>1, <2>3, RunMoves DEF Base, IsOpen
    <3>3. \/ UNCHANGED logVars
          \/ \E kind, body : Emit(p, kind, body)
      BY <2>1, <2>3, <3>1, <3>2 DEF LogStep
    <3>4. QED
      BY <1>1, <3>3 DEF Emit, logVars
  <2>4. QED
    BY <1>1, <2>2, <2>3
<1>5. CASE ~\E q \in Broker : BrokerStep(q)
  BY <1>1, <1>3, <1>5, NextRuns, OthersAdd
<1>6. QED
  BY <1>1, <1>3, <1>4, <1>5, NextRuns

\* A call comes to be decided when it is requested, and stays as it is until
\* its broker moves.
LEMMA DecidingMoves ==
    ASSUME Base, [Next]_vars, NEW p \in Broker, pc'[p] = "deciding"
    PROVE  \/ \E c \in Call : Request(p, c)
           \/ pc[p] = "deciding" /\ current'[p] = current[p] /\ seq'[p] = seq[p] /\ ~BrokerStep(p)
<1>0. pc = [q \in Broker \cup Approver |-> pc[q]]
  BY DEF Base, Control
<1>1. CASE BrokerStep(p)
  <2>1. CASE StartBroker(p) \/ SealBroker(p) \/ KillBroker(p)
    BY <1>0, <2>1 DEF StartBroker, SealBroker, KillBroker, Close, Goto
  <2>2. CASE (\E t \in Tool : Register(p, t)) \/ (\E s \in Scopes : DelegateScope(p, s))
    BY <2>2 DEF Register, DelegateScope, At
  <2>3. CASE MakeDecision(p)
    <3>1. Decided(p).verdict \in {"deny", "hold", "allow"}
      BY DecidedType DEF DecisionType, Actions
    <3>2. QED
      BY <1>0, <2>3, <3>1 DEF MakeDecision, Goto
  <2>4. CASE Demote(p) \/ Refuse(p) \/ Block(p) \/ UseGrant(p)
    BY <1>0, <2>4 DEF Demote, Refuse, Block, UseGrant, Result, Goto
  <2>5. CASE RefuseCredential(p) \/ Execute(p) \/ FailToExecute(p) \/ Finish(p)
    BY <1>0, <2>5 DEF RefuseCredential, Execute, FailToExecute, Finish, Result, Goto
  <2>6. QED
    BY <1>1, <2>1, <2>2, <2>3, <2>4, <2>5 DEF BrokerStep, CallStep
<1>2. ASSUME ~BrokerStep(p), NEW q \in Broker, BrokerStep(q)
      PROVE  SameCall(p) /\ seq'[p] = seq[p]
  <2>1. p # q /\ LogStep(q) /\ p \in Process /\ q \in Process
    BY <1>2, BrokerLogSteps, BrokerAssumption DEF Base
  <2>2. QED
    BY <1>2, <2>1, BrokerFrame, LogStepFrame
<1>3. CASE ~\E q \in Broker : BrokerStep(q)
  BY <1>3, OtherFrame, OthersAdd DEF SameCall
<1>4. QED
  BY <1>1, <1>2, <1>3 DEF SameCall

\* What is held when nothing new is.
LEMMA SameHoldsKeepNumbers ==
    ASSUME Base, ScopesKept, NumbersKept, [Next]_vars, Holds(log') = Holds(log)
    PROVE  NumbersKept'
<1>1. clock \in Nat /\ clock' \in Nat /\ clock <= clock'
  <2>1. ASSUME NEW q \in Broker, BrokerStep(q)
        PROVE  clock \in Nat /\ clock' \in Nat /\ clock <= clock'
    BY <2>1, BrokerLogSteps, LogStepFrame, BrokerAssumption DEF Base
  <2>2. QED
    BY <2>1, OthersAdd
<1>2. HeldUpTo(log', clock')
  <2>1. \A n \in Nat : n <= clock => n <= clock'
    BY <1>1
  <2>2. QED
    BY <2>1 DEF NumbersKept, HeldUpTo
<1>3. ASSUME NEW p \in Broker, IsOpen(p)'
      PROVE  HeldBelow(log', run'[p], seq'[p])
  <2>1. /\ seq[p] \in Nat /\ seq'[p] \in Nat
        /\ \/ IsOpen(p) /\ run'[p] = run[p] /\ seq[p] <= seq'[p]
           \/ run'[p] = clock + 1
    BY <1>3, SeqMoves
  <2>2. CASE IsOpen(p) /\ run'[p] = run[p] /\ seq[p] <= seq'[p]
    <3>1. \A n \in Nat : n < seq[p] => n < seq'[p]
      BY <2>1, <2>2
    <3>2. QED
      BY <2>2, <3>1 DEF NumbersKept, HeldBelow
  <2>3. CASE run'[p] = clock + 1
    <3>1. \A n \in Nat : n <= clock => n # clock + 1
      BY <1>1
    <3>2. QED
      BY <2>3, <3>1 DEF NumbersKept, HeldUpTo, HeldBelow
  <2>4. QED
    BY <2>1, <2>2, <2>3
<1>4. ASSUME NEW p \in Broker, pc'[p] = "deciding"
      PROVE  Unheld(log', current'[p].request) /\ NumberedBelow(current'[p].request, seq'[p])
  <2>1. ASSUME NEW c \in Call, Request(p, c)
        PROVE  Unheld(log', current'[p].request) /\ NumberedBelow(current'[p].request, seq'[p])
    <3>1. /\ p \in Process /\ IsOpen(p)
          /\ seq = [q \in Process |-> seq[q]]
          /\ seq[p] \in Nat
          /\ current \in [Broker -> CallType]
      BY <2>1, BrokerAssumption DEF Base, Logged, RunsOK, Control, Typed, Request, At
    <3>2. current' = [current EXCEPT ![p] = [NoCall EXCEPT !.call = c, !.request = <<run[p], seq[p]>>]]
      BY <2>1 DEF Request
    <3>3. current'[p].request = <<run[p], seq[p]>>
      BY <3>1, <3>2 DEF NoCall
    <3>4. seq'[p] = seq[p] + 1
      BY <2>1, <3>1 DEF Request, Emit
    <3>5. NumberedBelow(current'[p].request, seq'[p])
      <4>1. \A n \in Nat : n < n + 1
        OBVIOUS
      <4>2. QED
        BY <3>1, <3>3, <3>4, <4>1 DEF NumberedBelow
    <3>6. HeldBelow(log, run[p], seq[p])
      BY <3>1 DEF NumbersKept
    <3>7. \A n \in Nat : n < seq[p] => n # seq[p]
      BY <3>1
    <3>8. Unheld(log', current'[p].request)
      BY <3>3, <3>6, <3>7 DEF HeldBelow, Unheld
    <3>9. QED
      BY <3>5, <3>8
  <2>2. CASE pc[p] = "deciding" /\ current'[p] = current[p] /\ seq'[p] = seq[p]
    BY <2>2 DEF NumbersKept, Unheld
  <2>3. QED
    BY <1>4, <2>1, <2>2, DecidingMoves
<1>5. QED
  BY <1>2, <1>3, <1>4 DEF NumbersKept

LEMMA PlainKeepsInbox ==
    ASSUME Base, ScopesKept, InboxKept, [Next]_vars, PlainStep
    PROVE  InboxKept'
<1>1. Base'
  BY NextKeepsBase
<1>2. IsSeq(log) /\ IsSeq(log')
  BY <1>1 DEF Base, Logged, LogOK, EventsUpTo
<1>3. Holds(log') = Holds(log) /\ AnswersGiven(log')
  <2>1. CASE log' = log
    BY <2>1 DEF InboxKept
  <2>2. ASSUME NEW e, Adds(log', log, e), Plain(e)
        PROVE  Holds(log') = Holds(log) /\ AnswersGiven(log')
    BY <1>2, <2>2, HoldsAdds, GrowthKeepsAnswers DEF Plain, InboxKept
  <2>3. QED
    BY <2>1, <2>2 DEF PlainStep
<1>4. HoldsAgree(log')
  BY <1>3 DEF InboxKept, HoldsAgree
<1>5. NumbersKept'
  BY <1>3, SameHoldsKeepNumbers DEF InboxKept
<1>6. QED
  BY <1>3, <1>4, <1>5 DEF InboxKept

\* A hold more: of the request that was being decided.
LEMMA NewHoldKeepsNumbers ==
    ASSUME Base, ScopesKept, NumbersKept, [Next]_vars, NEW p \in Broker, MakeDecision(p), NEW hold,
           hold.request = current[p].request, Holds(log') = Append(Holds(log), hold)
    PROVE  NumbersKept'
<1> DEFINE s == Holds(log)
           t == Holds(log')
           x == current[p].request
<1>1. /\ p \in Process /\ IsOpen(p) /\ pc[p] = "deciding"
      /\ run[p] \in Nat /\ seq[p] \in Nat /\ clock \in Nat /\ run[p] <= clock
      /\ seq = [q \in Process |-> seq[q]] /\ run' = run /\ clock' = clock
  <2>1. 0..MaxRuns \subseteq Nat
    BY EventLogAssumption
  <2>2. QED
    BY <2>1, BrokerAssumption DEF Base, Logged, RunsOK, Control, MakeDecision, At, Emit
<1>2. x[1] = run[p] /\ NumberedBelow(x, seq[p])
  BY <1>1 DEF ScopesKept, InScope, NumbersKept
<1>3. seq' = [seq EXCEPT ![p] = seq[p] + 1]
  BY DEF MakeDecision, Emit
<1>4. IsSeq(s) /\ t = Append(s, hold)
  BY BaseLog, HoldsSeq
<1> HIDE DEF s, t, x
<1>5. \A h \in DOMAIN t : t[h] = hold \/ (h \in DOMAIN s /\ t[h] = s[h])
  BY <1>4, AppendAdds, AddedIndex
<1>6. hold.request = x
  BY DEF x
<1>7. HeldUpTo(log', clock')
  <2>1. \A h \in DOMAIN s : s[h].request[1] \in Nat /\ s[h].request[1] <= clock
    BY DEF NumbersKept, HeldUpTo, s
  <2>2. \A h \in DOMAIN t : t[h].request[1] \in Nat /\ t[h].request[1] <= clock
    BY <1>1, <1>2, <1>5, <1>6, <2>1
  <2>3. QED
    BY <1>1, <2>2 DEF HeldUpTo, t
<1>8. ASSUME NEW q \in Broker, IsOpen(q)'
      PROVE  HeldBelow(log', run'[q], seq'[q])
  <2>1. q \in Process /\ IsOpen(q) /\ run'[q] = run[q]
    BY <1>1, <1>8, BrokerAssumption DEF IsOpen
  <2>2. \A h \in DOMAIN s : s[h].request[1] = run[q] => NumberedBelow(s[h].request, seq[q])
    BY <2>1 DEF NumbersKept, HeldBelow, NumberedBelow, s
  <2>3. seq[q] \in Nat /\ seq'[q] \in Nat /\ seq[q] <= seq'[q]
    <3>1. seq[q] \in Nat /\ (seq'[q] = seq[q] \/ seq'[q] = seq[q] + 1)
      BY <1>1, <1>3, <2>1 DEF Base, Logged, RunsOK
    <3>2. \A n \in Nat : n + 1 \in Nat /\ n <= n /\ n <= n + 1
      OBVIOUS
    <3>3. QED
      BY <3>1, <3>2
  <2>4. \A y : NumberedBelow(y, seq[q]) => NumberedBelow(y, seq'[q])
    <3>1. \A n \in Nat : n < seq[q] => n < seq'[q]
      BY <2>3
    <3>2. QED
      BY <3>1 DEF NumberedBelow
  <2>5. x[1] = run[q] => q = p
    BY <1>1, <1>2, <2>1 DEF Base, Logged, RunsOK, IsOpen
  <2>6. \A h \in DOMAIN t : t[h].request[1] = run[q] => NumberedBelow(t[h].request, seq'[q])
    BY <1>2, <1>5, <1>6, <2>2, <2>4, <2>5
  <2>7. QED
    BY <2>1, <2>6 DEF HeldBelow, NumberedBelow, t
<1>9. ASSUME NEW q \in Broker, pc'[q] = "deciding"
      PROVE  Unheld(log', current'[q].request) /\ NumberedBelow(current'[q].request, seq'[q])
  <2>1. /\ pc[q] = "deciding" /\ current'[q] = current[q] /\ seq'[q] = seq[q]
        /\ ~BrokerStep(q)
    <3>1. ~\E c \in Call : Request(q, c)
      <4>1. SUFFICES ASSUME NEW c \in Call, Request(q, c) PROVE FALSE
        OBVIOUS
      <4>2. pc[q] = "ready"
        BY <4>1 DEF Request, At
      <4>3. q # p
        BY <1>1, <4>2
      <4>4. pc' = [pc EXCEPT ![p] = pc'[p]]
        BY BrokerMoves DEF Base, BrokerStep, CallStep, BrokerMove
      <4>5. pc'[q] = pc[q]
        BY <4>3, <4>4 DEF Base, Control
      <4>6. QED
        BY <1>9, <4>2, <4>5
    <3>2. QED
      BY <1>9, <3>1, DecidingMoves
  <2>2. q # p
    BY <2>1 DEF BrokerStep, CallStep
  <2>3. current[q].request[1] = run[q] /\ run[q] # run[p]
    BY <1>1, <2>1, <2>2, BrokerAssumption DEF ScopesKept, InScope, Base, Logged, RunsOK, IsOpen
  <2>4. current[q].request # x
    BY <1>2, <2>3
  <2>5. Unheld(log, current[q].request) /\ NumberedBelow(current[q].request, seq[q])
    BY <2>1 DEF NumbersKept
  <2>6. \A h \in DOMAIN t : t[h].request # current[q].request
    BY <1>5, <1>6, <2>4, <2>5 DEF Unheld, s
  <2>7. QED
    BY <2>1, <2>5, <2>6 DEF Unheld, t
<1>10. QED
  BY <1>7, <1>8, <1>9 DEF NumbersKept

LEMMA DecisionKeepsInbox ==
    ASSUME Base, ScopesKept, InboxKept, [Next]_vars, NEW p \in Broker, MakeDecision(p)
    PROVE  InboxKept'
<1>0. Base'
  BY NextKeepsBase
<1>1. IsSeq(log) /\ IsSeq(log')
  BY <1>0 DEF Base, Logged, LogOK, EventsUpTo
<1>2. PICK e : /\ log' = Append(log, e)
               /\ e.kind = "policy.decision"
               /\ e.body.request = current[p].request
               /\ e.body.request \notin {NoId, Null}
  BY DecisionRecorded
<1>3. Adds(log', log, e)
  BY <1>1, <1>2, AppendAdds
<1>4. AnswersGiven(log')
  BY <1>2, <1>3, GrowthKeepsAnswers DEF InboxKept
<1>5. CASE Holds(log') = Holds(log)
  <2>1. HoldsAgree(log')
    BY <1>5 DEF InboxKept, HoldsAgree
  <2>2. NumbersKept'
    BY <1>5, SameHoldsKeepNumbers DEF InboxKept
  <2>3. QED
    BY <1>4, <2>1, <2>2 DEF InboxKept
<1>6. CASE Holds(log') = Append(Holds(log), NamedHold(e))
  <2> DEFINE s == Holds(log)
             t == Holds(log')
  <2>1. IsSeq(s) /\ t = Append(s, NamedHold(e))
    BY <1>1, <1>6, HoldsSeq
  <2>2. NamedHold(e).request = current[p].request
    BY <1>2 DEF NamedHold
  <2>3. NumbersKept'
    BY <1>6, <2>2, NewHoldKeepsNumbers DEF InboxKept
  <2>4. /\ \A h \in DOMAIN s : s[h].request # current[p].request
        /\ \A g, h \in DOMAIN s : s[g].request = s[h].request =>
              s[g].call = s[h].call /\ s[g].rule = s[h].rule
    BY DEF InboxKept, HoldsAgree, NumbersKept, Unheld, MakeDecision, At
  <2> HIDE DEF s, t
  <2>5. \A h \in DOMAIN t : t[h] = NamedHold(e) \/ (h \in DOMAIN s /\ t[h] = s[h])
    BY <2>1, AppendAdds, AddedIndex
  <2>6. \A g, h \in DOMAIN t : t[g].request = t[h].request => t[g].call = t[h].call /\ t[g].rule = t[h].rule
    BY <2>2, <2>4, <2>5
  <2>7. HoldsAgree(log')
    BY <2>6 DEF HoldsAgree, t
  <2>8. QED
    BY <1>4, <2>3, <2>7 DEF InboxKept
<1>7. QED
  BY <1>1, <1>2, <1>3, <1>5, <1>6, HoldsAdds

LEMMA NextKeepsInbox ==
    ASSUME Base, ScopesKept, InboxKept, [Next]_vars
    PROVE  InboxKept'
BY PlainKeepsInbox, DecisionKeepsInbox, BrokerPlain, OthersPlain

-----------------------------------------------------------------------------
(* What the inbox prints and what it says *)

\* The request printed for a call and rule is the latest hold of it, and
\* `approve` finds a hold of that request.
LEMMA EntryAnswerable ==
    ASSUME NEW s, IsSeq(s), HoldsAgree(s), NEW h \in DOMAIN Holds(s)
    PROVE  LET e == Entry(s, Holds(s)[h].call, Holds(s)[h].rule)
               n == Answerable(s, e.request)
           IN  n # 0 /\ Holds(s)[n].call = e.call /\ Holds(s)[n].rule = e.rule
<1> DEFINE holds == Holds(s)
           call == holds[h].call
           rule == holds[h].rule
           e == Entry(s, call, rule)
           held == {g \in DOMAIN holds : holds[g].call = call /\ holds[g].rule = rule}
           I == {i \in 1..Len(holds) : holds[i].request = e.request}
<1>1. Len(holds) \in Nat /\ DOMAIN holds = 1..Len(holds)
  BY HoldsSeq, SeqDomain
<1>2. e.call = call /\ e.rule = rule /\ e.request = holds[Max(held)].request
  BY DEF Entry
<1> HIDE DEF e
<1>3. Max(held) \in held
  <2>1. /\ held \subseteq Nat /\ held # {}
        /\ \A g \in held : g <= Len(holds)
    BY <1>1
  <2> HIDE DEF held
  <2>2. QED
    BY <1>1, <2>1, NatMax
<1>4. Answerable(s, e.request) = IF I # {} THEN Min(I) ELSE 0
  BY DEF Answerable, SelectInSeq
<1>5. Max(held) \in I /\ I \subseteq Nat
  BY <1>1, <1>2, <1>3
<1>6. Min(I) \in I
  BY <1>5, NatMin
<1>7. Answerable(s, e.request) \in I
  BY <1>4, <1>5, <1>6
<1>8. Answerable(s, e.request) # 0 /\ Answerable(s, e.request) \in DOMAIN holds
  BY <1>1, <1>7
<1>9. holds[Answerable(s, e.request)].request = holds[Max(held)].request
  BY <1>2, <1>7
<1>10. /\ Max(held) \in DOMAIN holds
       /\ holds[Max(held)].call = call
       /\ holds[Max(held)].rule = rule
  BY <1>3
<1>11. QED
  BY <1>2, <1>8, <1>9, <1>10 DEF HoldsAgree, e

\* The five states, in the order they are tried.
LEMMA HoldStateCases ==
    ASSUME NEW s, NEW call, NEW rule
    PROVE  LET state     == HoldState(s, call, rule)
               answers   == Answers(s, call, rule)
               refused   == answers # {} /\ s[Max(answers)].body.verdict = "deny"
               approvals == {a \in answers : s[a].body.verdict = "approve"}
           IN  /\ state = "released" <=> Releases(s, call, rule)
               /\ state \in {"waiting", "ineffective"} =>
                     /\ ~refused
                     /\ \A a \in approvals : s[a].body.grant \notin Spent(s)
               /\ state = "waiting" => \A a \in approvals : s[a].body.approver \in Approvers
<1> DEFINE answers == Answers(s, call, rule)
           refused == answers # {} /\ s[Max(answers)].body.verdict = "deny"
           approvals == {a \in answers : s[a].body.verdict = "approve"}
           used == \E a \in approvals : s[a].body.grant \in Spent(s)
           barred == \E a \in approvals : s[a].body.approver \notin Approvers
           state == HoldState(s, call, rule)
<1>1. state = IF Releases(s, call, rule) THEN "released"
              ELSE IF refused THEN "refused"
              ELSE IF used THEN "spent"
              ELSE IF barred THEN "ineffective"
              ELSE "waiting"
  BY DEF HoldState
<1> HIDE DEF state, refused, used, barred
<1>2. /\ state = "released" <=> Releases(s, call, rule)
      /\ state \in {"waiting", "ineffective"} => ~refused /\ ~used
      /\ state = "waiting" => ~barred
  BY <1>1
<1>3. QED
  BY <1>2 DEF state, refused, used, barred

\* An approval of somebody permitted, unspent, is one the hold is released by.
LEMMA UnspentReleases ==
    ASSUME NEW s, NEW call, NEW rule, NEW a \in Answers(s, call, rule),
           s[a].body.verdict = "approve", s[a].body.approver \in Approvers,
           s[a].body.grant \notin Spent(s)
    PROVE  Releases(s, call, rule)
<1>1. /\ a \in OfKind(s, "approval")
      /\ s[a].body.call = call
      /\ s[a].body.rule = rule
  BY DEF Answers
<1>2. ~\E u \in OfKind(s, "approval.use") : s[u].body.grant = s[a].body.grant
  BY DEF Spent
<1>3. QED
  BY <1>1, <1>2 DEF Releases

LEMMA StateTruthful ==
    ASSUME NEW s, IsSeq(s), AnswersGiven(s), NEW call, NEW rule
    PROVE  /\ HoldState(s, call, rule) = "waiting" => Answers(s, call, rule) = {}
           /\ HoldState(s, call, rule) = "ineffective" =>
                 \A a \in Answers(s, call, rule) : s[a].body.approver \notin Approvers
           /\ HoldState(s, call, rule) = "released" <=> Releases(s, call, rule)
<1> DEFINE A == Answers(s, call, rule)
           last == Max(A)
<1>1. A \subseteq DOMAIN s /\ DOMAIN s = 1..Len(s) /\ Len(s) \in Nat
  BY SeqDomain DEF Answers, OfKind
<1>2. A # {} => last \in A /\ \A a \in A : a <= last
  <2>1. A \subseteq Nat /\ \A a \in A : a <= Len(s)
    BY <1>1
  <2> HIDE DEF A
  <2>2. QED
    BY <1>1, <2>1, NatMax
<1>3. \A a \in A : s[a].body.verdict \in {"approve", "deny"}
  BY DEF AnswersGiven, Answers
<1>4. \A a, b \in A : a < b /\ s[a].body.approver \in Approvers => s[b].body.approver \in Approvers
  BY DEF AnswersGiven, Answers
<1>5. ASSUME HoldState(s, call, rule) \in {"waiting", "ineffective"}, A # {}
      PROVE  s[last].body.approver \notin Approvers /\ s[last].body.verdict = "approve"
  <2>1. /\ s[last].body.verdict # "deny"
        /\ \A a \in A : s[a].body.verdict = "approve" => s[a].body.grant \notin Spent(s)
        /\ ~Releases(s, call, rule)
    BY <1>5, HoldStateCases
  <2>2. s[last].body.verdict = "approve" /\ s[last].body.grant \notin Spent(s)
    BY <1>2, <1>3, <1>5, <2>1
  <2>3. QED
    BY <1>2, <1>5, <2>1, <2>2, UnspentReleases
<1>6. ASSUME HoldState(s, call, rule) = "waiting"
      PROVE  A = {}
  <2>1. \A a \in A : s[a].body.verdict = "approve" => s[a].body.approver \in Approvers
    BY <1>6, HoldStateCases
  <2>2. QED
    BY <1>2, <1>5, <1>6, <2>1
<1>7. ASSUME HoldState(s, call, rule) = "ineffective", NEW a \in A
      PROVE  s[a].body.approver \notin Approvers
  <2>1. last \in A /\ a <= last /\ s[last].body.approver \notin Approvers
    BY <1>2, <1>5, <1>7
  <2>2. a = last \/ a < last
    <3>1. a \in Nat /\ last \in Nat
      BY <1>1, <2>1
    <3>2. \A m, n \in Nat : m <= n => m = n \/ m < n
      OBVIOUS
    <3>3. QED
      BY <2>1, <3>1, <3>2
  <2>3. QED
    BY <1>4, <2>1, <2>2
<1>8. HoldState(s, call, rule) = "released" <=> Releases(s, call, rule)
  BY HoldStateCases
<1>9. QED
  BY <1>6, <1>7, <1>8

LEMMA InboxAnswers ==
    ASSUME Base, InboxKept
    PROVE  InboxCommandAnswers
<1>1. IsSeq(log) /\ HoldsAgree(log) /\ AnswersGiven(log)
  BY BaseLog DEF InboxKept
<1>2. SUFFICES ASSUME NEW e \in Inbox(log)
               PROVE  /\ Answerable(log, e.request) # 0
                      /\ LET hold == Holds(log)[Answerable(log, e.request)]
                         IN  hold.call = e.call /\ hold.rule = e.rule
                      /\ e.state = "waiting" => Answers(log, e.call, e.rule) = {}
                      /\ e.state = "ineffective" =>
                            \A a \in Answers(log, e.call, e.rule) : log[a].body.approver \notin Approvers
                      /\ e.state = "released" <=> e.releases
  BY DEF InboxCommandAnswers
<1>3. PICK h \in DOMAIN Holds(log) : e = Entry(log, Holds(log)[h].call, Holds(log)[h].rule)
  BY DEF Inbox
<1>4. /\ Answerable(log, e.request) # 0
      /\ Holds(log)[Answerable(log, e.request)].call = e.call
      /\ Holds(log)[Answerable(log, e.request)].rule = e.rule
  BY <1>1, <1>3, EntryAnswerable
<1>5. e.state = HoldState(log, e.call, e.rule) /\ e.releases = Releases(log, e.call, e.rule)
  BY <1>3 DEF Entry
<1>6. QED
  BY <1>1, <1>4, <1>5, StateTruthful

\* The command the inbox prints answers the call it is printed for, and what it
\* says of an answer is so, on ledgers of either age that earlier runs left in
\* that order: for any number of brokers and approvers at once, whoever is
\* killed and whatever payloads expire.
THEOREM InboxCommandsAnswer == RecordedAnswers /\ Spec => []InboxCommandAnswers
<1> DEFINE IInv == Base /\ ScopesKept /\ InboxKept
<1>1. RecordedAnswers /\ Init => IInv
  <2> SUFFICES ASSUME RecordedAnswers, Init PROVE IInv
    OBVIOUS
  <2>1. Base /\ \A p \in Broker : ~IsOpen(p) /\ pc[p] = "closed"
    BY InitBase, BrokerAssumption DEF Init, BrokerInit, Base, Control
  <2>2. log = Recorded /\ \A j \in DOMAIN Recorded : Recorded[j].run <= clock
    BY DEF Init, LogInit
  <2>3. DOMAIN executed = {}
    BY NoEventsSeq DEF Init, BrokerInit
  <2>4. ScopesKept
    BY <2>1, <2>3 DEF ScopesKept, InScope
  <2>5. \A j \in DOMAIN Recorded : Recorded[j].run \in Nat
    BY HarnessAssumption, EventLogAssumption DEF IsEvent
  <2>6. HeldUpTo(log, clock)
    BY <2>2, <2>5 DEF RecordedAnswers, HeldUpTo
  <2>7. QED
    BY <2>1, <2>2, <2>4, <2>6 DEF InboxKept, NumbersKept, RecordedAnswers
<1>2. IInv /\ [Next]_vars => IInv'
  BY NextKeepsBase, NextKeepsScopes, NextKeepsInbox
<1>3. IInv => InboxCommandAnswers
  BY InboxAnswers
<1> HIDE DEF IInv
<1>4. CASE RecordedAnswers
  BY <1>1, <1>2, <1>3, <1>4, PTL DEF Spec
<1>5. QED
  BY <1>4

-----------------------------------------------------------------------------
(* The record of a capability leads to its rung *)

\* The changes of its rung among the first n events, and where some lead.
Changes(s, cap, n) == {i \in 1..n : s[i].kind = "rung.change" /\ s[i].body.cap = cap}

LedTo(s, cap, I) == IF I = {} THEN DeclaredRung(cap) ELSE s[Max(I)].body.to

Leads(state, s, cap, n) ==
    /\ DOMAIN state = {"rung", "clean"}
    /\ state.rung = LedTo(s, cap, Changes(s, cap, n))

LEMMA ChangeLeads ==
    ASSUME NEW s, NEW cap, NEW n \in Nat, NEW state, Leads(state, s, cap, n)
    PROVE  Leads(ReplayEvent(cap, state, s[n + 1]), s, cap, n + 1)
<1> DEFINE e == s[n + 1]
           C == Changes(s, cap, n)
           D == Changes(s, cap, n + 1)
           new == ReplayEvent(cap, state, e)
<1>1. CASE e.kind = "rung.change" /\ e.body.cap = cap
  <2>1. D \subseteq Nat /\ n + 1 \in D /\ \A i \in D : i <= n + 1
    BY <1>1 DEF Changes
  <2>2. Max(D) = n + 1
    <3>1. Max(D) \in D /\ \A i \in D : i <= Max(D)
      <4> HIDE DEF D
      <4> QED
        BY <2>1, NatMax
    <3>2. n + 1 <= Max(D) /\ Max(D) <= n + 1 /\ Max(D) \in Nat
      BY <2>1, <3>1
    <3> QED
      BY <3>2
  <2>3. LedTo(s, cap, D) = e.body.to
    BY <2>1, <2>2 DEF LedTo
  <2>4. new = [rung |-> e.body.to, clean |-> 0]
    BY <1>1 DEF ReplayEvent
  <2> QED
    BY <2>3, <2>4 DEF Leads
<1>2. CASE ~(e.kind = "rung.change" /\ e.body.cap = cap)
  <2>1. D = C
    <3>1. \A i \in 1..(n + 1) : i \in 1..n \/ i = n + 1
      OBVIOUS
    <3>2. 1..n \subseteq 1..(n + 1)
      OBVIOUS
    <3> QED
      BY <1>2, <3>1, <3>2 DEF Changes
  <2>2. new = state \/ \E x : new = [state EXCEPT !.clean = x]
    BY <1>2 DEF ReplayEvent
  <2>3. DOMAIN new = {"rung", "clean"} /\ new.rung = state.rung
    BY <2>2 DEF Leads
  <2> QED
    BY <2>1, <2>3 DEF Leads
<1> QED
  BY <1>1, <1>2

LEMMA ChangesLead ==
    ASSUME NEW s, IsSeq(s), NEW cap
    PROVE  EarnedRung(s, cap) = LedTo(s, cap, Changes(s, cap, Len(s)))
<1>1. Len(s) \in Nat
  BY SeqDomain
<1>2. PICK g : Folds(g, s, cap, 1..Len(s)) /\ Replay(s, cap) = After(g, Len(s))
  BY ReplayFound
<1>3. /\ After(g, 0) = Start(cap)
      /\ \A k \in 1..Len(s) : After(g, k) = ReplayEvent(cap, After(g, k - 1), s[k])
  BY <1>1, <1>2, FoldSteps
<1> DEFINE I == {k \in 0..Len(s) : ~Leads(After(g, k), s, cap, k)}
<1>4. Leads(After(g, 0), s, cap, 0)
  <2>1. Changes(s, cap, 0) = {}
    BY DEF Changes
  <2> QED
    BY <1>3, <2>1 DEF Leads, LedTo, Start
<1>5. I = {}
  <2>1. SUFFICES ASSUME I # {} PROVE FALSE
    OBVIOUS
  <2>2. Min(I) \in I /\ \A k \in I : Min(I) <= k
    <3>1. I \subseteq Nat
      BY <1>1
    <3> QED
      BY <2>1, <3>1, NatMin
  <2>3. Min(I) \in 0..Len(s) /\ ~Leads(After(g, Min(I)), s, cap, Min(I)) /\ Min(I) # 0
    BY <1>4, <2>2
  <2>4. PICK k \in 1..Len(s) : k = Min(I)
    <3>1. \A j \in 0..Len(s) : j # 0 => j \in 1..Len(s)
      BY <1>1
    <3> QED
      BY <2>3, <3>1
  <2>5. k - 1 \in 0..Len(s) /\ ~(k <= k - 1) /\ k - 1 \in Nat /\ (k - 1) + 1 = k
    BY <1>1
  <2>6. Leads(After(g, k - 1), s, cap, k - 1)
    BY <2>2, <2>4, <2>5
  <2>7. Leads(ReplayEvent(cap, After(g, k - 1), s[(k - 1) + 1]), s, cap, (k - 1) + 1)
    BY <2>5, <2>6, ChangeLeads
  <2>8. Leads(After(g, k), s, cap, k)
    BY <1>3, <2>5, <2>7
  <2> QED
    BY <2>3, <2>4, <2>8
<1>6. Leads(After(g, Len(s)), s, cap, Len(s))
  <2>1. Len(s) \in 0..Len(s)
    BY <1>1
  <2> QED
    BY <1>5, <2>1
<1> QED
  BY <1>2, <1>6 DEF Leads, EarnedRung

LEMMA PrefixLeads ==
    ASSUME NEW s, IsSeq(s), NEW cap, NEW n \in 0..Len(s)
    PROVE  RungIn(s, n, cap) = LedTo(s, cap, Changes(s, cap, n))
<1> DEFINE t == SubSeq(s, 1, n)
<1>1. Len(s) \in Nat /\ DOMAIN s = 1..Len(s) /\ n \in Nat /\ 1..n \subseteq 1..Len(s)
  BY SeqDomain
<1>2. IsSeq(t) /\ Len(t) = n /\ \A i \in 1..n : t[i] = s[i]
  <2>1. s \in Seq({s[i] : i \in DOMAIN s})
    BY DEF IsSeq
  <2>2. DOMAIN t = 1..n /\ Len(t) = n /\ \A i \in 1..n : t[i] = s[i]
    BY <1>1, <2>1
  <2>3. t = [i \in 1..n |-> t[i]]
    BY <1>1, <2>1
  <2>4. t \in Seq({t[i] : i \in DOMAIN t})
    <3> HIDE DEF t
    <3> QED
      BY <1>1, <2>2, <2>3
  <2> QED
    BY <2>2, <2>4 DEF IsSeq
<1> HIDE DEF t
<1>3. EarnedRung(t, cap) = LedTo(t, cap, Changes(t, cap, n))
  BY <1>2, ChangesLead
<1>4. Changes(t, cap, n) = Changes(s, cap, n)
  BY <1>2 DEF Changes
<1>5. Changes(s, cap, n) # {} => Max(Changes(s, cap, n)) \in 1..n
  <2> DEFINE C == Changes(s, cap, n)
  <2>1. C \subseteq 1..n /\ C \subseteq Nat /\ \A i \in C : i <= n
    BY <1>1 DEF Changes
  <2> HIDE DEF C
  <2>2. C # {} => Max(C) \in C
    BY <1>1, <2>1, NatMax
  <2> QED
    BY <2>1, <2>2 DEF C
<1>6. LedTo(t, cap, Changes(s, cap, n)) = LedTo(s, cap, Changes(s, cap, n))
  BY <1>2, <1>5 DEF LedTo
<1> QED
  BY <1>3, <1>4, <1>6 DEF RungIn, t

LEMMA RungsLead ==
    ASSUME Base, RungsHold(log)
    PROVE  HistoryLeadsToRung
<1>1. IsSeq(log) /\ Len(log) \in Nat /\ DOMAIN log = 1..Len(log)
  BY BaseLog, SeqDomain
<1> SUFFICES ASSUME NEW cap \in CapId
             PROVE  LET row     == TrustRow(log, cap)
                        changes == {i \in row.history : log[i].kind = "rung.change"}
                        Earlier(i) == {j \in changes : j < i}
                        Reached(I) == IF I = {} THEN row.declared ELSE log[Max(I)].body.to
                    IN  /\ row.earned = Reached(changes)
                        /\ \A i \in changes : log[i].body.from = Reached(Earlier(i))
  BY DEF HistoryLeadsToRung
<1> DEFINE row     == TrustRow(log, cap)
           changes == {i \in row.history : log[i].kind = "rung.change"}
           Earlier(i) == {j \in changes : j < i}
           Reached(I) == IF I = {} THEN row.declared ELSE log[Max(I)].body.to
<1>2. row.declared = DeclaredRung(cap) /\ row.earned = EarnedRung(log, cap)
  BY DEF TrustRow, EarnedRung
<1>3. changes = Changes(log, cap, Len(log))
  BY <1>1 DEF TrustRow, Changes, OfKind
<1> HIDE DEF row
<1>4. \A I : Reached(I) = LedTo(log, cap, I)
  BY <1>2 DEF LedTo
<1> HIDE DEF changes
<1>5. row.earned = Reached(changes)
  BY <1>1, <1>2, <1>3, <1>4, ChangesLead
<1>6. ASSUME NEW i \in changes
      PROVE  log[i].body.from = Reached(Earlier(i))
  <2>1. i \in 1..Len(log) /\ log[i].kind = "rung.change" /\ log[i].body.cap = cap
    BY <1>3 DEF Changes
  <2>2. log[i].body.from = RungIn(log, i - 1, cap)
    BY <1>1, <2>1 DEF RungsHold, RungsHoldAt, MovesOneRung
  <2>3. i - 1 \in 0..Len(log)
    BY <1>1, <2>1
  <2>4. Earlier(i) = Changes(log, cap, i - 1)
    <3>1. \A j \in 1..Len(log) : j < i <=> j \in 1..(i - 1)
      BY <1>1, <2>1
    <3>2. 1..(i - 1) \subseteq 1..Len(log)
      BY <1>1, <2>1
    <3> QED
      BY <1>3, <3>1, <3>2 DEF Changes
  <2> QED
    BY <1>1, <1>4, <2>2, <2>3, <2>4, PrefixLeads
<1> QED
  BY <1>5, <1>6 DEF row, changes

\* When commands run one after another and what earns a rung does not expire,
\* the trust page shows how a capability came by the rung it has.
THEOREM HistoriesLead == OneByOne /\ RecordedRungs /\ Spec => []HistoryLeadsToRung
<1>1. CASE OneByOne /\ RecordedRungs
  <2>1. Init => Base /\ RungsInv
    BY <1>1, InitRungs
  <2>2. Base /\ RungsInv /\ [Next]_vars => (Base /\ RungsInv)'
    BY <1>1, NextKeepsBase, NextKeepsRungs
  <2>3. Base /\ RungsInv => HistoryLeadsToRung
    BY RungsLead DEF RungsInv, RungsStand
  <2> QED
    BY <2>1, <2>2, <2>3, PTL DEF Spec
<1> QED
  BY <1>1

-----------------------------------------------------------------------------
(* What the pages count *)

RuleIds == {Rule[r].id : r \in DOMAIN Rule}

\* A decision is one a rule of the policy makes, or a denial without one.
Ruled(e) ==
    e.kind = "policy.decision" =>
        \/ e.body.rule \in RuleIds
        \/ e.body.rule \in {"r-delegation", "r-default"} /\ e.body.verdict = "deny"

AllRuled(s) == \A i \in DOMAIN s : Ruled(s[i])

\* A run is opened once and sealed once.
OnceEach(s) ==
    \A i, j \in DOMAIN s :
        /\ s[i].kind \in {"run.open", "run.seal"}
        /\ s[j].kind = s[i].kind
        /\ s[j].run = s[i].run
        => i = j

\* Below every number of a run but 0 is the one before it.
HasNumber(s, id, n) == \E j \in DOMAIN s : s[j].run = id /\ s[j].seq = n

Numbered(s) == \A i \in DOMAIN s : s[i].seq # 0 => HasNumber(s, s[i].run, s[i].seq - 1)

Unsealed(s, id) == \A j \in DOMAIN s : s[j].run = id => s[j].kind # "run.seal"

\* What the log earlier runs left must say of itself.
RecordedPages == AllRuled(Recorded) /\ OnceEach(Recorded) /\ Numbered(Recorded)

LEMMA NoPagesRecorded == Recorded = <<>> => RecordedPages
BY NoEventsSeq DEF RecordedPages, AllRuled, OnceEach, Numbered

\* A run that is open is not sealed, and its counter is one past a number on
\* the log.
PagesKept ==
    /\ AllRuled(log)
    /\ OnceEach(log)
    /\ Numbered(log)
    /\ \A p \in Process : IsOpen(p) =>
          /\ Unsealed(log, run[p])
          /\ seq[p] # 0 => HasNumber(log, run[p], seq[p] - 1)

\* The rule a denial names when nothing else does is one of the policy, if it
\* has one for everything.
LEMMA DefaultRuled == DefaultRule \in RuleIds \cup {"r-default"}
<1> DEFINE J == {i \in 1..Len(Rule) : Rule[i].cap = NoCap /\ Rule[i].everyTarget}
           i == IF J # {} THEN Min(J) ELSE 0
<1>1. DefaultRule = IF i = 0 THEN "r-default" ELSE Rule[i].id
  BY DEF DefaultRule, SelectInSeq
<1>2. ASSUME i # 0
      PROVE  i \in 1..Len(Rule)
  BY <1>2, NatMin
<1> HIDE DEF i
<1>3. ASSUME i # 0
      PROVE  i \in DOMAIN Rule
  BY <1>2, <1>3, PolicyAssumption
<1> QED
  BY <1>1, <1>3 DEF RuleIds

LEMMA DecideRuled ==
    ASSUME NEW call, NEW earned
    PROVE  \/ Decide(call, earned).rule \in RuleIds
           \/ Decide(call, earned).rule = "r-default" /\ Decide(call, earned).verdict = "deny"
<1> DEFINE I == {i \in 1..Len(Capability) : call \in Capability[i].calls}
           c == IF I # {} THEN Min(I) ELSE 0
           capability == Capability[c]
           J == {i \in 1..Len(Rule) : RuleMatches(Rule[i], capability.id, call)}
           r == IF J # {} THEN Min(J) ELSE 0
           gate == EffectiveGate(capability, earned[capability.id])
           verdict == IF Rule[r].action = "allow" /\ gate = "pre" THEN "hold"
                      ELSE Rule[r].action
           obligation == CASE verdict = "allow" /\ gate = "post" -> "review"
                           [] verdict = "hold"                   -> "approval"
                           [] OTHER                              -> "none"
           d == IF c = 0 THEN Decision("deny", NoCap, DefaultRule, "none")
                ELSE IF r = 0 THEN Decision("deny", capability.id, DefaultRule, "none")
                ELSE Decision(verdict, capability.id, Rule[r].id, obligation)
<1>1. Decide(call, earned) = d
  BY DEF Decide, SelectInSeq
<1> HIDE DEF capability
<1>2. ASSUME r # 0
      PROVE  r \in DOMAIN Rule
  <2>1. J \subseteq Nat /\ J # {}
    BY <1>2
  <2>2. Min(J) \in J
    BY <2>1, NatMin
  <2> QED
    BY <2>1, <2>2, PolicyAssumption
<1> HIDE DEF r, c, verdict, obligation
<1>3. CASE c = 0 \/ r = 0
  <2>1. d.rule = DefaultRule /\ d.verdict = "deny"
    BY <1>3 DEF Decision
  <2> QED
    BY <1>1, <2>1, DefaultRuled
<1>4. CASE c # 0 /\ r # 0
  <2>1. d.rule = Rule[r].id
    BY <1>4 DEF Decision
  <2> QED
    BY <1>1, <1>2, <1>4, <2>1 DEF RuleIds
<1> QED
  BY <1>3, <1>4

LEMMA DecisionRuled ==
    ASSUME Base, NEW p \in Broker, MakeDecision(p)
    PROVE  \E e : Adds(log', log, e) /\ Ruled(e)
<1> DEFINE d == Decided(p)
           body == [request |-> current[p].request, call |-> current[p].call, cap |-> d.cap,
                    verdict |-> d.verdict, rule |-> d.rule, obligation |-> d.obligation]
           e == Stamped(run[p], seq[p], "policy.decision", body)
<1>1. Emit(p, "policy.decision", body)
  BY DEF MakeDecision
<1>2. Adds(log', log, e)
  BY <1>1, EmitAdds
<1>3. \/ d.rule \in RuleIds
      \/ d.rule \in {"r-delegation", "r-default"} /\ d.verdict = "deny"
  <2> DEFINE x == Decide(current[p].call, [cap \in CapId |-> EarnedRung(view[p], cap)])
  <2>1. d = x \/ d = Decision("deny", x.cap, "r-delegation", "none")
    BY DEF Decided
  <2>2. x.rule \in RuleIds \/ (x.rule = "r-default" /\ x.verdict = "deny")
    BY DecideRuled
  <2> HIDE DEF x, d
  <2> QED
    BY <2>1, <2>2 DEF Decision
<1>4. e.kind = "policy.decision" /\ e.body = body
  BY StampedFields
<1>5. body.rule = d.rule /\ body.verdict = d.verdict
  OBVIOUS
<1> HIDE DEF e, body, d
<1> QED
  BY <1>2, <1>3, <1>4, <1>5 DEF Ruled

LEMMA NextKeepsRuled ==
    ASSUME Base, AllRuled(log), [Next]_vars
    PROVE  AllRuled(log')
<1>1. log' = log \/ \E e : Adds(log', log, e) /\ Ruled(e)
  <2>1. PlainStep \/ \E p \in Broker : MakeDecision(p)
    BY BrokerPlain, OthersPlain
  <2>2. PlainStep => log' = log \/ \E e : Adds(log', log, e) /\ Ruled(e)
    BY DEF PlainStep, Plain, Ruled
  <2> QED
    BY <2>1, <2>2, DecisionRuled
<1>2. ASSUME NEW e, Adds(log', log, e), Ruled(e)
      PROVE  AllRuled(log')
  BY <1>2, AddedIndex DEF AllRuled
<1> QED
  BY <1>1, <1>2

\* One more event keeps the log so, if it opens no run that was opened, seals
\* none that was sealed and has the number after one of its run.
LEMMA GrowthKeepsPages ==
    ASSUME NEW s, NEW t, NEW e, Adds(t, s, e), OnceEach(s), Numbered(s),
           e.kind \in {"run.open", "run.seal"} =>
               \A j \in DOMAIN s : s[j].run = e.run => s[j].kind # e.kind,
           e.seq # 0 => HasNumber(s, e.run, e.seq - 1)
    PROVE  /\ OnceEach(t) /\ Numbered(t)
           /\ HasNumber(t, e.run, e.seq)
           /\ \A id, n : HasNumber(s, id, n) => HasNumber(t, id, n)
           /\ \A id : Unsealed(s, id) /\ ~(e.kind = "run.seal" /\ e.run = id) => Unsealed(t, id)
<1>1. /\ \A i \in DOMAIN t : \/ (i \in DOMAIN s /\ t[i] = s[i])
                             \/ (i = Len(s) + 1 /\ t[i] = e)
      /\ \A i \in DOMAIN s : i \in DOMAIN t /\ t[i] = s[i]
      /\ Len(s) + 1 \in DOMAIN t /\ t[Len(s) + 1] = e
  <2>1. Len(s) \in Nat /\ DOMAIN t = 1..(Len(s) + 1)
    BY DEF Adds
  <2>2. Len(s) + 1 \in 1..(Len(s) + 1)
    BY <2>1
  <2> QED
    BY <2>1, <2>2, AddedIndex DEF Adds, Extends
<1>2. \A id, n : HasNumber(s, id, n) => HasNumber(t, id, n)
  BY <1>1 DEF HasNumber
<1>3. HasNumber(t, e.run, e.seq)
  BY <1>1 DEF HasNumber
<1>4. Numbered(t)
  BY <1>1, <1>2 DEF Numbered
<1>5. OnceEach(t)
  BY <1>1 DEF OnceEach
<1>6. \A id : Unsealed(s, id) /\ ~(e.kind = "run.seal" /\ e.run = id) => Unsealed(t, id)
  BY <1>1 DEF Unsealed
<1> QED
  BY <1>2, <1>3, <1>4, <1>5, <1>6

\* A step of a process keeps the pages' account of the log.
LEMMA StepKeepsPages ==
    ASSUME Base, PagesKept, NEW p \in Process, LogStep(p), AllRuled(log')
    PROVE  PagesKept'
<1>1. /\ run = [q \in Process |-> run[q]]
      /\ seq = [q \in Process |-> seq[q]]
      /\ \A q \in Process : seq[q] \in Nat /\ run[q] <= clock
      /\ \A q \in Process : q # p /\ IsOpen(q) => run[q] # run[p]
      /\ clock \in Nat
      /\ \A i \in DOMAIN log : log[i].run \in Nat /\ log[i].run <= clock
  <2>1. \A i \in DOMAIN log : IsEvent(log[i]) /\ log[i].run <= clock
    BY DEF Base, Logged, LogOK, EventsUpTo
  <2>2. \A i \in DOMAIN log : log[i].run \in Nat
    BY <2>1, EventLogAssumption DEF IsEvent
  <2>3. clock \in Nat
    BY EventLogAssumption DEF Base, Logged, RunsOK
  <2> QED
    BY <2>1, <2>2, <2>3 DEF Base, Logged, RunsOK, IsOpen
<1>2. /\ OnceEach(log) /\ Numbered(log)
      /\ \A q \in Process : IsOpen(q) =>
            Unsealed(log, run[q]) /\ (seq[q] # 0 => HasNumber(log, run[q], seq[q] - 1))
  BY DEF PagesKept
<1>3. ASSUME log' = log,
             \A q \in Process : q # p => run'[q] = run[q] /\ seq'[q] = seq[q],
             run'[p] = NoRun \/ (run'[p] = clock + 1 /\ seq'[p] = 0)
      PROVE  PagesKept'
  <2>1. Unsealed(log, clock + 1)
    <3>1. \A i \in DOMAIN log : log[i].run # clock + 1
      BY <1>1
    <3> QED
      BY <3>1 DEF Unsealed
  <2>2. ASSUME NEW q \in Process, IsOpen(q)'
        PROVE  Unsealed(log', run'[q]) /\ (seq'[q] # 0 => HasNumber(log', run'[q], seq'[q] - 1))
    BY <1>2, <1>3, <2>1, <2>2 DEF IsOpen
  <2> QED
    BY <1>2, <1>3, <2>2 DEF PagesKept
<1>4. ASSUME NEW e, Adds(log', log, e),
             e.kind \in {"run.open", "run.seal"} =>
                 \A j \in DOMAIN log : log[j].run = e.run => log[j].kind # e.kind,
             e.seq # 0 => HasNumber(log, e.run, e.seq - 1),
             \A q \in Process : q # p => run'[q] = run[q] /\ seq'[q] = seq[q],
             \A q \in Process : q # p /\ IsOpen(q) => run[q] # e.run,
             \/ run'[p] = NoRun
             \/ /\ e.kind # "run.seal" /\ run'[p] = e.run /\ seq'[p] = e.seq + 1
                /\ e.seq \in Nat /\ Unsealed(log, e.run)
      PROVE  PagesKept'
  <2>1. /\ OnceEach(log') /\ Numbered(log')
        /\ HasNumber(log', e.run, e.seq)
        /\ \A id, n : HasNumber(log, id, n) => HasNumber(log', id, n)
        /\ \A id : Unsealed(log, id) /\ ~(e.kind = "run.seal" /\ e.run = id) => Unsealed(log', id)
    BY <1>2, <1>4, GrowthKeepsPages
  <2>2. ASSUME NEW q \in Process, q # p, IsOpen(q)'
        PROVE  Unsealed(log', run'[q]) /\ (seq'[q] # 0 => HasNumber(log', run'[q], seq'[q] - 1))
    <3>1. IsOpen(q) /\ run'[q] = run[q] /\ seq'[q] = seq[q] /\ run[q] # e.run
      BY <1>4, <2>2 DEF IsOpen
    <3> QED
      BY <1>2, <2>1, <3>1
  <2>3. ASSUME IsOpen(p)'
        PROVE  Unsealed(log', run'[p]) /\ (seq'[p] # 0 => HasNumber(log', run'[p], seq'[p] - 1))
    <3>1. /\ e.kind # "run.seal" /\ run'[p] = e.run /\ seq'[p] = e.seq + 1
          /\ e.seq \in Nat /\ Unsealed(log, e.run)
      BY <1>4, <2>3 DEF IsOpen
    <3>2. seq'[p] - 1 = e.seq
      BY <3>1
    <3> QED
      BY <2>1, <3>1, <3>2
  <2> QED
    BY <2>1, <2>2, <2>3 DEF PagesKept
<1>5. ASSUME NEW kinds \in {<<>>, <<"run.open">>}, NEW body, OpenRun(p, kinds, body)
      PROVE  PagesKept'
  <2> DEFINE e == Stamped(clock + 1, 0, "run.open", body)
  <2>1. /\ run' = [run EXCEPT ![p] = clock + 1]
        /\ \/ log' = log /\ seq' = [seq EXCEPT ![p] = 0]
           \/ log' = Append(log, e) /\ seq' = [seq EXCEPT ![p] = 1]
    <3>1. LogOK
      BY DEF Base, Logged
    <3>2. run' = [run EXCEPT ![p] = clock + 1]
      BY <1>5, <3>1, OpenRunLogs
    <3>3. (kinds = <<>> /\ log' = log) \/ (kinds = <<"run.open">> /\ log' = Append(log, e))
      BY <1>5, <3>1, OpenRunLogs
    <3>4. seq' = [seq EXCEPT ![p] = Len(kinds)]
      BY <1>5 DEF OpenRun
    <3>5. Len(<<>>) = 0 /\ Len(<<"run.open">>) = 1
      OBVIOUS
    <3> HIDE DEF e
    <3> QED
      BY <3>2, <3>3, <3>4, <3>5
  <2>2. e.run = clock + 1 /\ e.seq = 0 /\ e.kind = "run.open"
    BY StampedFields
  <2>3. Adds(Append(log, e), log, e)
    BY BaseLog, AppendAdds
  <2> HIDE DEF e
  <2>4. \A i \in DOMAIN log : log[i].run # clock + 1
    BY <1>1
  <2>5. \A q \in Process : q # p => run'[q] = run[q]
    BY <1>1, <2>1
  <2>6. run'[p] = clock + 1
    BY <1>1, <2>1
  <2>7. CASE log' = log /\ seq' = [seq EXCEPT ![p] = 0]
    BY <1>1, <1>3, <2>5, <2>6, <2>7
  <2>8. CASE log' = Append(log, e) /\ seq' = [seq EXCEPT ![p] = 1]
    <3>1. \A q \in Process : q # p => seq'[q] = seq[q]
      BY <1>1, <2>8
    <3>2. seq'[p] = e.seq + 1 /\ e.seq \in Nat
      BY <1>1, <2>2, <2>8
    <3>3. Unsealed(log, e.run)
      BY <2>2, <2>4 DEF Unsealed
    <3>4. \A q \in Process : q # p /\ IsOpen(q) => run[q] # e.run
      <4>1. \A q \in Process : run[q] \in Nat
        BY EventLogAssumption DEF Base, Logged, RunsOK
      <4> QED
        BY <1>1, <2>2, <4>1
    <3> QED
      BY <1>4, <2>2, <2>3, <2>4, <2>5, <2>6, <2>8, <3>1, <3>2, <3>3, <3>4
  <2> QED
    BY <2>1, <2>7, <2>8
<1>6. ASSUME NEW kind, NEW body, Emit(p, kind, body), IsOpen(p), kind \notin {"run.open", "run.seal"}
      PROVE  PagesKept'
  <2> DEFINE e == Stamped(run[p], seq[p], kind, body)
  <2>1. run' = run /\ seq' = [seq EXCEPT ![p] = seq[p] + 1]
    BY <1>6 DEF Emit
  <2>2. Adds(log', log, e)
    BY <1>6, EmitAdds
  <2>3. e.run = run[p] /\ e.seq = seq[p] /\ e.kind = kind
    BY StampedFields
  <2> HIDE DEF e
  <2>4. seq'[p] = e.seq + 1 /\ \A q \in Process : q # p => seq'[q] = seq[q]
    BY <1>1, <2>1, <2>3
  <2>5. e.seq # 0 => HasNumber(log, e.run, e.seq - 1)
    BY <1>2, <1>6, <2>3
  <2> QED
    BY <1>1, <1>2, <1>4, <1>6, <2>1, <2>2, <2>3, <2>4, <2>5
<1>7. ASSUME NEW body, Depart(p, "run.seal", body), IsOpen(p)
      PROVE  PagesKept'
  <2> DEFINE e == Stamped(run[p], seq[p], "run.seal", body)
  <2>1. run' = [run EXCEPT ![p] = NoRun] /\ seq' = [seq EXCEPT ![p] = 0]
    BY <1>7 DEF Depart, Leave
  <2>2. Adds(log', log, e)
    BY <1>7, DepartAdds
  <2>3. e.run = run[p] /\ e.seq = seq[p] /\ e.kind = "run.seal"
    BY StampedFields
  <2> HIDE DEF e
  <2>4. run'[p] = NoRun /\ \A q \in Process : q # p => run'[q] = run[q] /\ seq'[q] = seq[q]
    BY <1>1, <2>1
  <2>5. e.seq # 0 => HasNumber(log, e.run, e.seq - 1)
    BY <1>2, <1>7, <2>3
  <2>6. \A j \in DOMAIN log : log[j].run = e.run => log[j].kind # e.kind
    BY <1>2, <1>7, <2>3 DEF Unsealed
  <2> QED
    BY <1>1, <1>4, <2>2, <2>3, <2>4, <2>5, <2>6
<1>8. ASSUME Leave(p), log' = log
      PROVE  PagesKept'
  <2>1. run'[p] = NoRun /\ \A q \in Process : q # p => run'[q] = run[q] /\ seq'[q] = seq[q]
    BY <1>1, <1>8 DEF Leave
  <2> QED
    BY <1>3, <1>8, <2>1
<1>9. CASE UNCHANGED logVars
  BY <1>9 DEF logVars, PagesKept, IsOpen
<1> QED
  BY <1>5, <1>6, <1>7, <1>8, <1>9 DEF LogStep, Writes

LEMMA NextKeepsPages ==
    ASSUME Base, PagesKept, [Next]_vars
    PROVE  PagesKept'
<1>1. AllRuled(log')
  BY NextKeepsRuled DEF PagesKept
<1>2. ASSUME NEW p \in Broker, BrokerStep(p)
      PROVE  PagesKept'
  BY <1>1, <1>2, BrokerLogSteps, StepKeepsPages, BrokerAssumption DEF Base
<1>3. ASSUME NEW p \in Approver, ApproverStep(p)
      PROVE  PagesKept'
  BY <1>1, <1>3, ApproverLogSteps, StepKeepsPages, BrokerAssumption DEF Base
<1>4. ASSUME NEW o \in Orchestrators, OrchestratorStep(o)
      PROVE  PagesKept'
  BY <1>1, <1>4, OrchestratorLogSteps, StepKeepsPages, OrchestratorAssumption DEF Base
<1>5. ASSUME NEW i \in DOMAIN log, Expire(i)
      PROVE  PagesKept'
  <2> DEFINE e == Stamped(NoRun, 0, "retention.expire", [event |-> i])
  <2>1. log' = Append(log, e) /\ run' = run /\ \A p \in Process : ~IsOpen(p)
    BY <1>5 DEF Expire
  <2>2. e.seq = 0 /\ e.kind = "retention.expire"
    BY StampedFields
  <2> HIDE DEF e
  <2>3. Adds(log', log, e)
    BY <2>1, BaseLog, AppendAdds
  <2>4. OnceEach(log') /\ Numbered(log')
    BY <2>2, <2>3, GrowthKeepsPages DEF PagesKept
  <2> QED
    BY <1>1, <2>1, <2>4 DEF PagesKept, IsOpen
<1>6. CASE UNCHANGED vars
  BY <1>6 DEF vars, logVars, PagesKept, IsOpen
<1> QED
  BY <1>2, <1>3, <1>4, <1>5, <1>6 DEF Next, BrokerNext, OrchestratorNext


-----------------------------------------------------------------------------
(* The pages agree *)

\* Positions of the log can be counted, and fewer of them count no more.
LEMMA Positions ==
    ASSUME Base
    PROVE  /\ IsFiniteSet(DOMAIN log)
           /\ \A i \in DOMAIN log : i \in Nat /\ 1 <= i /\ i <= Len(log)
           /\ \A J \in SUBSET DOMAIN log :
                 /\ IsFiniteSet(J) /\ Cardinality(J) \in Nat
                 /\ \A I \in SUBSET J : Cardinality(I) <= Cardinality(J)
<1>1. Len(log) \in Nat /\ DOMAIN log = 1..Len(log)
  BY BaseLog, SeqDomain
<1>2. IsFiniteSet(DOMAIN log)
  BY <1>1, FS_Interval
<1>3. \A J \in SUBSET DOMAIN log : IsFiniteSet(J)
  BY <1>2, FS_Subset
<1>4. \A J \in SUBSET DOMAIN log :
         Cardinality(J) \in Nat /\ \A I \in SUBSET J : Cardinality(I) <= Cardinality(J)
  BY <1>3, FS_Subset, FS_CardinalityType
<1> QED
  BY <1>1, <1>2, <1>3, <1>4

LEMMA CountedOrZero ==
    ASSUME Base, NEW kind, NEW found \in SUBSET OfKind(log, kind)
    PROVE  OrZero(Counted(log, kind, Cardinality(found))) = Cardinality(found)
<1>1. found \in SUBSET DOMAIN log
  BY DEF OfKind
<1>2. Cardinality(found) \in Nat /\ Cardinality(found) # Null
  BY <1>1, Positions, HarnessAssumption
<1>3. OfKind(log, kind) = {} => found = {} /\ Cardinality(found) = 0
  BY FS_EmptySet
<1> QED
  BY <1>2, <1>3 DEF OrZero, Counted

\* Over the whole log, operations counts every event, every denial, every run
\* opened and every run sealed.
LEMMA WholeCounts ==
    ASSUME Base
    PROVE  /\ Operations(log, 1).scanned = Cardinality(DOMAIN log)
           /\ OrZero(Operations(log, 1).denials) =
                 Cardinality({i \in OfKind(log, "policy.decision") : log[i].body.verdict = "deny"})
           /\ OrZero(Operations(log, 1).opened) = Cardinality(OfKind(log, "run.open"))
           /\ OrZero(Operations(log, 1).sealed) = Cardinality(OfKind(log, "run.seal"))
<1> DEFINE Denied == {i \in OfKind(log, "policy.decision") : log[i].body.verdict = "deny"}
<1>1. /\ {i \in DOMAIN log : i >= 1} = DOMAIN log
      /\ \A kind : {i \in OfKind(log, kind) : i >= 1} = OfKind(log, kind)
  BY Positions DEF OfKind
<1>2. /\ Operations(log, 1).scanned = Cardinality(DOMAIN log)
      /\ Operations(log, 1).denials = Counted(log, "policy.decision", Cardinality(Denied))
      /\ Operations(log, 1).opened = Counted(log, "run.open", Cardinality(OfKind(log, "run.open")))
      /\ Operations(log, 1).sealed = Counted(log, "run.seal", Cardinality(OfKind(log, "run.seal")))
  BY <1>1 DEF Operations
<1>3. Denied \in SUBSET OfKind(log, "policy.decision")
  OBVIOUS
<1> QED
  BY <1>2, <1>3, CountedOrZero

\* A run has one row.
LEMMA RowsOfRuns ==
    ASSUME Base
    PROVE  /\ IsFiniteSet(RunRows(log))
           /\ \A i, j \in DOMAIN log :
                 RunRow(log, log[i].run) = RunRow(log, log[j].run) <=> log[i].run = log[j].run
<1> DEFINE row == [i \in DOMAIN log |-> RunRow(log, log[i].run)]
<1>1. \A a, b : RunRow(log, a) = RunRow(log, b) <=> a = b
  BY DEF RunRow
<1>2. row \in Surjection(DOMAIN log, RunRows(log))
  BY DEF Surjection, RunRows
<1> QED
  BY <1>1, <1>2, Positions, FS_Surjection

\* The events of a kind, of which a run has one at most, are as many as the
\* rows that tell of one.
LEMMA OneRowEach ==
    ASSUME Base, OnceEach(log), NEW kind \in {"run.open", "run.seal"},
           NEW R \in SUBSET RunRows(log),
           \A i \in DOMAIN log : RunRow(log, log[i].run) \in R <=>
               \E j \in DOMAIN log : log[j].run = log[i].run /\ log[j].kind = kind
    PROVE  Cardinality(R) = Cardinality(OfKind(log, kind))
<1> DEFINE I == OfKind(log, kind)
           row == [i \in I |-> RunRow(log, log[i].run)]
<1>1. I \in SUBSET DOMAIN log /\ \A i \in I : log[i].kind = kind
  BY DEF OfKind
<1>2. IsFiniteSet(I)
  BY <1>1, Positions
<1>3. row \in [I -> R]
  BY <1>1
<1>4. \A r \in R : \E j \in I : row[j] = r
  <2> SUFFICES ASSUME NEW r \in R PROVE \E j \in I : row[j] = r
    OBVIOUS
  <2>1. PICK i \in DOMAIN log : r = RunRow(log, log[i].run)
    BY DEF RunRows
  <2>2. PICK j \in DOMAIN log : log[j].run = log[i].run /\ log[j].kind = kind
    BY <2>1
  <2>3. j \in I /\ row[j] = r
    BY <2>1, <2>2 DEF OfKind
  <2> QED
    BY <2>3
<1>5. \A i, j \in I : row[i] = row[j] => i = j
  <2>1. \A i, j \in I : log[i].run = log[j].run => i = j
    BY <1>1 DEF OnceEach
  <2> QED
    BY <1>1, <2>1, RowsOfRuns
<1> HIDE DEF row, I
<1>6. row \in Surjection(I, R) /\ row \in Injection(I, R)
  BY <1>3, <1>4, <1>5 DEF Surjection, Injection, IsInjective
<1> QED
  BY <1>2, <1>6, FS_Surjection DEF I

\* The counts of operations are the sums of the rows of the runs.
LEMMA RowsDoAddUp ==
    ASSUME Base, PagesKept
    PROVE  RowsAddUp
<1> DEFINE rows == RunRows(log)
           Denied == {i \in OfKind(log, "policy.decision") : log[i].body.verdict = "deny"}
           events == [r \in rows |-> r.events]
           denials == [r \in rows |-> r.denials]
<1>1. /\ \A i \in DOMAIN log : RunRow(log, log[i].run) \in rows
      /\ \A r \in rows : \E i \in DOMAIN log : r = RunRow(log, log[i].run)
  BY DEF RunRows
<1>2. IsFiniteSet(rows) /\ IsFiniteSet(DOMAIN log)
  BY Positions, RowsOfRuns
<1>3. SumFunction(events) = Cardinality(DOMAIN log)
  <2> DEFINE row == [i \in DOMAIN log |-> RunRow(log, log[i].run)]
  <2>1. row \in [DOMAIN log -> rows]
    BY <1>1
  <2>2. ASSUME NEW r \in rows
        PROVE  r.events = Cardinality({i \in DOMAIN log : row[i] = r})
    <3>1. PICK k \in DOMAIN log : r = RunRow(log, log[k].run)
      BY <1>1
    <3>2. r.events = Cardinality({i \in DOMAIN log : log[i].run = log[k].run})
      BY <3>1 DEF RunRow
    <3>3. {i \in DOMAIN log : row[i] = r} = {i \in DOMAIN log : log[i].run = log[k].run}
      BY <3>1, RowsOfRuns
    <3> QED
      BY <3>2, <3>3
  <2> HIDE DEF row, rows
  <2>3. DOMAIN events = rows /\ \A r \in rows : events[r] = r.events
    OBVIOUS
  <2> HIDE DEF events
  <2> QED
    BY <1>2, <2>1, <2>2, <2>3, SumOfParts
<1>4. SumFunction(denials) = Cardinality(Denied)
  <2> DEFINE row == [i \in Denied |-> RunRow(log, log[i].run)]
  <2>1. Denied \in SUBSET DOMAIN log
    BY DEF OfKind
  <2>2. row \in [Denied -> rows] /\ IsFiniteSet(Denied)
    BY <1>1, <2>1, Positions
  <2>3. ASSUME NEW r \in rows
        PROVE  r.denials = Cardinality({i \in Denied : row[i] = r})
    <3>1. PICK k \in DOMAIN log : r = RunRow(log, log[k].run)
      BY <1>1
    <3>2. r.denials = Cardinality({i \in {j \in DOMAIN log : log[j].run = log[k].run} :
                                      /\ log[i].kind = "policy.decision"
                                      /\ log[i].body.verdict = "deny"})
      BY <3>1 DEF RunRow
    <3>3. {i \in Denied : row[i] = r} = {i \in {j \in DOMAIN log : log[j].run = log[k].run} :
                                      /\ log[i].kind = "policy.decision"
                                      /\ log[i].body.verdict = "deny"}
      BY <2>1, <3>1, RowsOfRuns DEF OfKind
    <3> QED
      BY <3>2, <3>3
  <2> HIDE DEF row, rows, Denied
  <2>4. DOMAIN denials = rows /\ \A r \in rows : denials[r] = r.denials
    OBVIOUS
  <2> HIDE DEF denials
  <2> QED
    BY <1>2, <2>2, <2>3, <2>4, SumOfParts
<1>5. Cardinality({r \in rows : r.opened}) = Cardinality(OfKind(log, "run.open"))
  <2> DEFINE R == {r \in rows : r.opened}
  <2>1. \A i \in DOMAIN log : RunRow(log, log[i].run) \in R <=>
            \E j \in DOMAIN log : log[j].run = log[i].run /\ log[j].kind = "run.open"
    BY <1>1 DEF RunRow
  <2>2. R \in SUBSET RunRows(log)
    OBVIOUS
  <2> HIDE DEF R
  <2> QED
    BY <2>1, <2>2, OneRowEach DEF PagesKept, R
<1>6. Cardinality({r \in rows : r.sealed}) = Cardinality(OfKind(log, "run.seal"))
  <2> DEFINE R == {r \in rows : r.sealed}
  <2>1. \A i \in DOMAIN log : RunRow(log, log[i].run) \in R <=>
            \E j \in DOMAIN log : log[j].run = log[i].run /\ log[j].kind = "run.seal"
    BY <1>1 DEF RunRow
  <2>2. R \in SUBSET RunRows(log)
    OBVIOUS
  <2> HIDE DEF R
  <2> QED
    BY <2>1, <2>2, OneRowEach DEF PagesKept, R
<1> QED
  BY <1>3, <1>4, <1>5, <1>6, WholeCounts DEF RowsAddUp


\* The decisions a rule makes, over all the rules, and those no rule makes.
LEMMA RulesDoAccount ==
    ASSUME Base, PagesKept
    PROVE  RulesAccount
<1> DEFINE decisions == OfKind(log, "policy.decision")
           unruled == {d \in decisions : log[d].body.rule \notin DOMAIN Fired(log)}
           ruled == {d \in decisions : log[d].body.rule \in RuleIds}
           fired == Fired(log)
           rule == [d \in ruled |-> log[d].body.rule]
<1>1. /\ DOMAIN fired = RuleIds
      /\ \A id \in RuleIds : fired[id] = Cardinality({d \in decisions : log[d].body.rule = id})
  BY DEF Fired, RuleIds
<1>2. IsFiniteSet(RuleIds)
  <2> DEFINE id == [r \in DOMAIN Rule |-> Rule[r].id]
  <2>1. id \in Surjection(DOMAIN Rule, RuleIds)
    BY DEF Surjection, RuleIds
  <2>2. IsFiniteSet(DOMAIN Rule)
    BY PolicyAssumption, FS_Interval
  <2> QED
    BY <2>1, <2>2, FS_Surjection
<1>3. decisions \in SUBSET DOMAIN log /\ ruled \in SUBSET DOMAIN log /\ unruled \in SUBSET DOMAIN log
  BY DEF OfKind
<1>4. SumFunction(fired) = Cardinality(ruled)
  <2>1. rule \in [ruled -> RuleIds] /\ IsFiniteSet(ruled)
    BY <1>3, Positions
  <2>2. ASSUME NEW id \in RuleIds
        PROVE  fired[id] = Cardinality({d \in ruled : rule[d] = id})
    <3>1. {d \in ruled : rule[d] = id} = {d \in decisions : log[d].body.rule = id}
      OBVIOUS
    <3> QED
      BY <1>1, <3>1
  <2> HIDE DEF fired, rule, ruled
  <2> QED
    BY <1>1, <1>2, <2>1, <2>2, SumOfParts
<1>5. Cardinality(ruled) + Cardinality(unruled) = Cardinality(decisions)
  <2>1. decisions = ruled \cup unruled /\ ruled \cap unruled = {}
    BY <1>1
  <2>2. /\ IsFiniteSet(ruled) /\ Cardinality(ruled) \in Nat
        /\ IsFiniteSet(unruled) /\ Cardinality(unruled) \in Nat
    BY <1>3, Positions
  <2> HIDE DEF decisions, ruled, unruled
  <2>3. Cardinality(ruled \cup unruled)
            = Cardinality(ruled) + Cardinality(unruled) - Cardinality(ruled \cap unruled)
    BY <2>2, FS_Union
  <2>4. Cardinality(ruled \cap unruled) = 0
    BY <2>1, FS_EmptySet
  <2> QED
    BY <2>1, <2>2, <2>3, <2>4
<1>6. \A d \in unruled : /\ log[d].body.rule \in {"r-delegation", "r-default"}
                         /\ log[d].body.verdict = "deny"
  BY <1>1, <1>3 DEF PagesKept, AllRuled, Ruled, OfKind
<1> QED
  BY <1>4, <1>5, <1>6 DEF RulesAccount

\* A set of numbers in which every number but 0 has the one before it has all
\* below its greatest.
LEMMA DownwardClosed ==
    ASSUME NEW N, N \subseteq Nat, \A x \in N : x # 0 => x - 1 \in N,
           NEW m \in N, NEW k \in Nat, k <= m
    PROVE  k \in N
<1> SUFFICES ASSUME k \notin N PROVE FALSE
  OBVIOUS
<1> DEFINE above == {x \in N : x > k}
<1>1. above \subseteq Nat /\ m \in above
  <2>1. m \in Nat /\ m # k
    OBVIOUS
  <2>2. m > k
    BY <2>1
  <2> QED
    BY <2>2
<1>2. PICK x \in above : \A y \in above : x <= y
  <2> HIDE DEF above
  <2> QED
    BY <1>1, HasLeast
<1>3. x \in Nat /\ x - 1 \in N /\ x - 1 >= k /\ x - 1 # k
  BY <1>2
<1>4. x - 1 \in above /\ ~(x <= x - 1)
  BY <1>3
<1> QED
  BY <1>2, <1>4

\* The numbers of a run have no holes.
LEMMA NoGaps ==
    ASSUME Base, PagesKept
    PROVE  SeqGaps(log) = {}
<1>1. Len(log) \in Nat /\ DOMAIN log = 1..Len(log)
  BY BaseLog, SeqDomain
<1>2. \A i \in DOMAIN log : log[i].seq \in Nat
  BY DEF Base, Logged, LogOK, EventsUpTo, IsEvent
<1>3. ASSUME NEW i \in DOMAIN log
      PROVE  LET N == {log[j].seq : j \in {k \in DOMAIN log : log[k].run = log[i].run}}
             IN  (Min(N)..Max(N)) \ N = {}
  <2> DEFINE own == {k \in DOMAIN log : log[k].run = log[i].run}
             N == {log[j].seq : j \in own}
             number == [j \in own |-> log[j].seq]
  <2>1. N \subseteq Nat /\ N # {}
    BY <1>2
  <2>2. \A x \in N : x # 0 => x - 1 \in N
    <3> SUFFICES ASSUME NEW j \in own, log[j].seq # 0 PROVE log[j].seq - 1 \in N
      OBVIOUS
    <3>1. HasNumber(log, log[i].run, log[j].seq - 1)
      BY DEF PagesKept, Numbered
    <3> QED
      BY <3>1 DEF HasNumber
  <2>3. /\ number \in Surjection(own, N)
        /\ own \in SUBSET DOMAIN log
    BY DEF Surjection
  <2>4. /\ IsFiniteSet(N) /\ Cardinality(N) \in Nat
        /\ Cardinality(N) <= Len(log)
    <3>1. IsFiniteSet(own) /\ Cardinality(own) \in Nat /\ Cardinality(own) <= Cardinality(DOMAIN log)
      BY <2>3, Positions
    <3>2. Cardinality(DOMAIN log) = Len(log)
      <4>1. Cardinality(1..Len(log)) = IF 1 > Len(log) THEN 0 ELSE Len(log) - 1 + 1
        BY <1>1, FS_Interval
      <4>2. Cardinality(1..Len(log)) = Len(log)
        BY <1>1, <4>1
      <4> QED
        BY <1>1, <4>2
    <3> HIDE DEF own, N, number
    <3>3. IsFiniteSet(N) /\ Cardinality(N) <= Cardinality(own)
      BY <2>3, <3>1, FS_Surjection
    <3>4. Cardinality(N) \in Nat
      BY <3>3, FS_CardinalityType
    <3> QED
      BY <1>1, <3>1, <3>2, <3>3, <3>4
  <2> HIDE DEF N
  <2>5. ASSUME NEW m \in N PROVE m <= Len(log)
    <3>1. m \in Nat
      BY <2>1
    <3>2. 0..m \in SUBSET N
      <4>1. \A k \in 0..m : k \in Nat /\ k <= m
        BY <3>1
      <4> QED
        BY <2>1, <2>2, <4>1, DownwardClosed
    <3>3. Cardinality(0..m) = m + 1
      BY <3>1, FS_Interval
    <3>4. Cardinality(0..m) <= Cardinality(N)
      BY <2>4, <3>2, FS_Subset
    <3> QED
      BY <1>1, <2>4, <3>1, <3>3, <3>4
  <2>6. Max(N) \in N /\ Min(N) \in N
    BY <1>1, <2>1, <2>5, NatMax, NatMin
  <2>7. \A k \in Min(N)..Max(N) : k \in Nat /\ k <= Max(N)
    <3>1. Min(N) \in Nat /\ Max(N) \in Nat
      BY <2>1, <2>6
    <3>2. \A a, b \in Nat : \A k \in a..b : k \in Nat /\ k <= b
      OBVIOUS
    <3> QED
      BY <3>1, <3>2
  <2>8. \A k \in Min(N)..Max(N) : k \in N
    BY <2>1, <2>2, <2>6, <2>7, DownwardClosed
  <2> QED
    BY <2>8 DEF N
<1> QED
  BY <1>3 DEF SeqGaps


\* Within a window there are no more events of a kind, and what is known of
\* the kind is known whatever the window.
LEMMA CountNarrows ==
    ASSUME Base, NEW kind, NEW wide \in SUBSET OfKind(log, kind), NEW found \in SUBSET wide
    PROVE  LET narrow == Counted(log, kind, Cardinality(found))
               whole  == Counted(log, kind, Cardinality(wide))
           IN  /\ narrow = Null <=> whole = Null
               /\ OrZero(narrow) <= OrZero(whole)
<1>1. wide \in SUBSET DOMAIN log /\ found \in SUBSET DOMAIN log /\ found \in SUBSET OfKind(log, kind)
  BY DEF OfKind
<1>2. /\ Cardinality(found) \in Nat /\ Cardinality(wide) \in Nat
      /\ Cardinality(found) <= Cardinality(wide)
  BY <1>1, Positions
<1>3. Cardinality(found) # Null /\ Cardinality(wide) # Null
  BY <1>2, HarnessAssumption
<1>4. /\ OrZero(Counted(log, kind, Cardinality(found))) = Cardinality(found)
      /\ OrZero(Counted(log, kind, Cardinality(wide))) = Cardinality(wide)
  BY <1>1, CountedOrZero
<1> QED
  BY <1>2, <1>3, <1>4 DEF Counted

LEMMA WindowsDoNarrow ==
    ASSUME Base
    PROVE  WindowsNarrow
<1> SUFFICES ASSUME NEW n \in DOMAIN log, NEW field \in DOMAIN Operations(log, 1)
             PROVE  /\ Operations(log, n)[field] = Null <=> Operations(log, 1)[field] = Null
                    /\ OrZero(Operations(log, n)[field]) <= OrZero(Operations(log, 1)[field])
  BY DEF WindowsNarrow
<1> DEFINE Within(first, kind) == {i \in OfKind(log, kind) : i >= first}
           Verdict(first, v) ==
               {d \in Within(first, "policy.decision") : log[d].body.verdict = v}
           Count(kind, found) == Counted(log, kind, Cardinality(found))
<1>1. \A first \in {1, n} :
         Operations(log, first) =
           [scanned   |-> Cardinality({i \in DOMAIN log : i >= first}),
            opened    |-> Count("run.open", Within(first, "run.open")),
            sealed    |-> Count("run.seal", Within(first, "run.seal")),
            denials   |-> Count("policy.decision", Verdict(first, "deny")),
            holds     |-> Count("policy.decision", Verdict(first, "hold")),
            approvals |-> Count("approval", Within(first, "approval"))]
  BY DEF Operations
<1>2. field \in {"scanned", "opened", "sealed", "denials", "holds", "approvals"}
  BY <1>1
<1>3. /\ \A kind : /\ Within(1, kind) \in SUBSET OfKind(log, kind)
                   /\ Within(n, kind) \in SUBSET Within(1, kind)
      /\ \A v : /\ Verdict(1, v) \in SUBSET OfKind(log, "policy.decision")
                /\ Verdict(n, v) \in SUBSET Verdict(1, v)
  <2>1. \A i \in DOMAIN log : i >= 1
    BY Positions
  <2> QED
    BY <2>1 DEF OfKind
<1>4. LET narrow == Cardinality({i \in DOMAIN log : i >= n})
          whole  == Cardinality({i \in DOMAIN log : i >= 1})
      IN  /\ narrow = Null <=> whole = Null
          /\ OrZero(narrow) <= OrZero(whole)
  <2> DEFINE narrow == {i \in DOMAIN log : i >= n}
             whole  == {i \in DOMAIN log : i >= 1}
  <2>1. whole \in SUBSET DOMAIN log /\ narrow \in SUBSET DOMAIN log /\ narrow \in SUBSET whole
    BY Positions
  <2> HIDE DEF narrow, whole
  <2>2. /\ Cardinality(narrow) \in Nat /\ Cardinality(whole) \in Nat
        /\ Cardinality(narrow) <= Cardinality(whole)
    BY <2>1, Positions
  <2>3. Cardinality(narrow) # Null /\ Cardinality(whole) # Null
    BY <2>2, HarnessAssumption
  <2>4. /\ Cardinality(narrow) = Null <=> Cardinality(whole) = Null
        /\ OrZero(Cardinality(narrow)) <= OrZero(Cardinality(whole))
    BY <2>2, <2>3 DEF OrZero
  <2> QED
    BY <2>4 DEF narrow, whole
<1>5. \A kind : LET narrow == Count(kind, Within(n, kind))
                    whole  == Count(kind, Within(1, kind))
                IN  (narrow = Null <=> whole = Null) /\ OrZero(narrow) <= OrZero(whole)
  <2> HIDE DEF Within
  <2> QED
    BY <1>3, CountNarrows
<1>6. \A v : LET narrow == Count("policy.decision", Verdict(n, v))
                 whole  == Count("policy.decision", Verdict(1, v))
             IN  (narrow = Null <=> whole = Null) /\ OrZero(narrow) <= OrZero(whole)
  <2> HIDE DEF Verdict
  <2> QED
    BY <1>3, CountNarrows
<1> HIDE DEF Count, Within, Verdict
<1>7. CASE field = "scanned"
  BY <1>1, <1>4, <1>7
<1>8. CASE field = "opened"
  BY <1>1, <1>5, <1>8
<1>9. CASE field = "sealed"
  BY <1>1, <1>5, <1>9
<1>10. CASE field = "denials"
  BY <1>1, <1>6, <1>10
<1>11. CASE field = "holds"
  BY <1>1, <1>6, <1>11
<1>12. CASE field = "approvals"
  BY <1>1, <1>5, <1>12
<1> QED
  BY <1>2, <1>7, <1>8, <1>9, <1>10, <1>11, <1>12

\* How many of the matching events come before one: a page takes those whose
\* number is in its range.
RankIn(M, i) == Cardinality({j \in M : j < i})

\* The first page of an older log is the first events of the newer one, as many
\* as it shows.
LEMMA FirstPageStands ==
    ASSUME Base, NEW M \in SUBSET DOMAIN log, NEW n \in DOMAIN log,
           NEW one, one = {i \in M : i <= n /\ RankIn(M, i) < 2}
    PROVE  one = {i \in M : RankIn(M, i) < Cardinality(one)}
<1>1. \A i \in M : i \in Nat
  BY Positions
<1>2. n \in Nat
  BY Positions
<1>3. one \in SUBSET DOMAIN log /\ IsFiniteSet(one) /\ Cardinality(one) \in Nat
  BY Positions
<1>4. \A i \in M : {j \in M : j < i} \in SUBSET DOMAIN log
  OBVIOUS
<1>5. \A i \in M : RankIn(M, i) \in Nat
  BY <1>4, Positions DEF RankIn
<1>6. \A i, j \in M : j <= i => RankIn(M, j) <= RankIn(M, i)
  <2> SUFFICES ASSUME NEW i \in M, NEW j \in M, j <= i
               PROVE  RankIn(M, j) <= RankIn(M, i)
    OBVIOUS
  <2>1. {k \in M : k < j} \in SUBSET {k \in M : k < i}
    BY <1>1
  <2> QED
    BY <1>4, <2>1, Positions DEF RankIn
<1>7. ASSUME NEW i \in one
      PROVE  RankIn(M, i) < Cardinality(one)
  <2> DEFINE earlier == {j \in M : j < i}
  <2>1. \A j \in earlier : j \in one
    <3> SUFFICES ASSUME NEW j \in earlier PROVE j \in one
      OBVIOUS
    <3>1. j \in M /\ i \in M /\ j < i /\ i <= n /\ RankIn(M, i) < 2
      OBVIOUS
    <3>2. j <= n /\ RankIn(M, j) <= RankIn(M, i)
      BY <1>1, <1>2, <1>6, <3>1
    <3>3. RankIn(M, j) < 2
      BY <1>5, <3>1, <3>2
    <3> QED
      BY <3>1, <3>2, <3>3
  <2>2. i \notin earlier /\ earlier \in SUBSET DOMAIN log /\ i \in M
    BY <1>1
  <2>3. IsFiniteSet(earlier) /\ Cardinality(earlier) = RankIn(M, i)
    BY <2>2, Positions DEF RankIn
  <2> HIDE DEF earlier
  <2>4. Cardinality(earlier \cup {i}) = Cardinality(earlier) + 1
    BY <2>2, <2>3, FS_AddElement
  <2>5. earlier \cup {i} \in SUBSET one
    BY <2>1
  <2>6. Cardinality(earlier \cup {i}) <= Cardinality(one)
    BY <1>3, <2>5, Positions
  <2> QED
    BY <1>3, <1>5, <2>2, <2>3, <2>4, <2>6
<1>8. ASSUME NEW i \in M, i \notin one
      PROVE  ~(RankIn(M, i) < Cardinality(one))
  <2>1. \A j \in one : j < i
    <3> SUFFICES ASSUME NEW j \in one PROVE j < i
      OBVIOUS
    <3>1. j \in M /\ j <= n /\ RankIn(M, j) < 2 /\ i \in Nat /\ j \in Nat
      BY <1>1
    <3>2. CASE ~(i <= n)
      BY <1>2, <3>1, <3>2
    <3>3. CASE ~(RankIn(M, i) < 2)
      <4>1. ~(RankIn(M, i) <= RankIn(M, j))
        BY <1>5, <3>1, <3>3
      <4>2. ~(i <= j)
        BY <1>6, <3>1, <4>1
      <4> QED
        BY <3>1, <4>2
    <3> QED
      BY <1>8, <3>2, <3>3
  <2>2. one \in SUBSET {j \in M : j < i}
    BY <2>1
  <2>3. Cardinality(one) <= RankIn(M, i)
    BY <1>4, <2>2, Positions DEF RankIn
  <2> QED
    BY <1>3, <1>5, <2>3
<1> QED
  BY <1>7, <1>8

LEMMA PagesDoNotShift ==
    ASSUME Base
    PROVE  PagingIsStable
<1> SUFFICES ASSUME NEW n \in DOMAIN log, NEW kinds
             PROVE  LET one == Page(Prefix(n), kinds, 0, 2)
                        two == Page(log, kinds, Cardinality(one), 2)
                    IN  /\ one \cap two = {}
                        /\ one \cup two = Page(log, kinds, 0, Cardinality(one) + 2)
  BY DEF PagingIsStable
<1> DEFINE M == Matched(log, kinds)
           P == Matched(Prefix(n), kinds)
           one == Page(Prefix(n), kinds, 0, 2)
           c == Cardinality(one)
<1>1. Len(log) \in Nat /\ DOMAIN log = 1..Len(log) /\ n \in Nat
  BY BaseLog, SeqDomain
<1>2. M \in SUBSET DOMAIN log /\ \A i \in M : i \in Nat
  BY <1>1 DEF Matched
<1>3. P = {i \in M : i <= n}
  <2>1. DOMAIN Prefix(n) = 1..n /\ \A i \in 1..n : Prefix(n)[i] = log[i]
    <3>1. log \in Seq({log[i] : i \in DOMAIN log})
      BY BaseLog DEF IsSeq
    <3> QED
      BY <1>1, <3>1 DEF Prefix
  <2>2. \A i : i \in 1..n <=> i \in 1..Len(log) /\ i <= n
    BY <1>1
  <2> QED
    BY <1>1, <2>1, <2>2 DEF Matched
<1>4. \A i \in M : RankIn(M, i) \in Nat
  <2>1. \A i \in M : {j \in M : j < i} \in SUBSET DOMAIN log
    BY <1>2
  <2> QED
    BY <2>1, Positions DEF RankIn
<1>5. /\ \A i \in M : M \cap 1..(i - 1) = {j \in M : j < i}
      /\ \A i \in P : P \cap 1..(i - 1) = {j \in M : j < i}
  <2>1. \A i, j \in M : j \in 1..(i - 1) <=> j < i
    BY <1>1, <1>2
  <2>2. \A i \in P : \A j \in M : j < i => j \in P
    BY <1>1, <1>2, <1>3
  <2>3. P \subseteq M
    BY <1>3
  <2> QED
    BY <2>1, <2>2, <2>3
<1> HIDE DEF M, P
<1>6. one = {i \in M : i <= n /\ RankIn(M, i) < 2}
  <2>1. 0..(0 + 2 - 1) = {0, 1}
    OBVIOUS
  <2>2. one = {i \in P : Cardinality(P \cap 1..(i - 1)) \in {0, 1}}
    BY <2>1 DEF Page, P
  <2>3. one = {i \in P : RankIn(M, i) \in {0, 1}}
    BY <1>5, <2>2 DEF RankIn
  <2> QED
    BY <1>3, <1>4, <2>3
<1> HIDE DEF one
<1>7. c \in Nat
  <2>1. one \in SUBSET DOMAIN log
    BY <1>2, <1>6
  <2> QED
    BY <2>1, Positions
<1>8. one = {i \in M : RankIn(M, i) < c}
  BY <1>2, <1>6, FirstPageStands
<1> HIDE DEF c
<1>9. Page(log, kinds, c, 2) = {i \in M : RankIn(M, i) \in {c, c + 1}}
  <2>1. c..(c + 2 - 1) = {c, c + 1}
    BY <1>7
  <2>2. Page(log, kinds, c, 2) = {i \in M : Cardinality(M \cap 1..(i - 1)) \in c..(c + 2 - 1)}
    BY DEF Page, M
  <2> QED
    BY <1>5, <2>1, <2>2 DEF RankIn
<1>10. Page(log, kinds, 0, c + 2) = {i \in M : RankIn(M, i) < c + 2}
  <2>1. \A x \in Nat : x \in 0..(0 + (c + 2) - 1) <=> x < c + 2
    BY <1>7
  <2>2. Page(log, kinds, 0, c + 2)
            = {i \in M : Cardinality(M \cap 1..(i - 1)) \in 0..(0 + (c + 2) - 1)}
    BY DEF Page, M
  <2>3. Page(log, kinds, 0, c + 2) = {i \in M : RankIn(M, i) \in 0..(0 + (c + 2) - 1)}
    BY <1>5, <2>2 DEF RankIn
  <2> QED
    BY <1>4, <2>1, <2>3
<1>11. one \cap Page(log, kinds, c, 2) = {}
  BY <1>4, <1>7, <1>8, <1>9
<1>12. one \cup Page(log, kinds, c, 2) = Page(log, kinds, 0, c + 2)
  BY <1>4, <1>7, <1>8, <1>9, <1>10
<1> QED
  BY <1>11, <1>12 DEF one, c

\* However many commands run at once, what the pages count agrees after any
\* number of runs, if the log earlier runs left is in order.
THEOREM CountsTellOneStory == RecordedPages /\ Spec => []CountsAgree
<1>1. CASE RecordedPages
  <2>1. Init => Base /\ PagesKept
    <3> SUFFICES ASSUME Init PROVE Base /\ PagesKept
      OBVIOUS
    <3>1. log = Recorded /\ \A p \in Process : ~IsOpen(p)
      BY DEF Init, LogInit, IsOpen
    <3> QED
      BY <1>1, <3>1, InitBase DEF RecordedPages, PagesKept
  <2>2. Base /\ PagesKept /\ [Next]_vars => (Base /\ PagesKept)'
    BY NextKeepsBase, NextKeepsPages
  <2>3. Base /\ PagesKept => CountsAgree
    BY RowsDoAddUp, RulesDoAccount, NoGaps, WindowsDoNarrow, PagesDoNotShift DEF CountsAgree
  <2> QED
    BY <2>1, <2>2, <2>3, PTL DEF Spec
<1> QED
  BY <1>1


\* When commands run one after another and what earns a rung does not expire,
\* all the pages agree, the trust page's history included.
THEOREM PagesTellOneStory == OneByOne /\ RecordedRungs /\ RecordedPages /\ Spec => []PagesAgree
<1>1. CountsAgree /\ HistoryLeadsToRung => PagesAgree
  BY DEF PagesAgree
<1> QED
  BY <1>1, CountsTellOneStory, HistoriesLead, PTL

=============================================================================
