----------------------------- MODULE RungProofs -----------------------------
(***************************************************************************)
(* Proofs about the rungs: what the replay of the log earns a capability,  *)
(* for any policy, budget and calls, when processes run one at a time.     *)
(***************************************************************************)
EXTENDS HarnessProofs

-----------------------------------------------------------------------------
(* Replaying a log *)

Start(cap) == [rung |-> DeclaredRung(cap), clean |-> 0]

\* A function from sets of indices to the state their events leave.
Folds(g, s, cap, D) ==
    g = [S \in SUBSET D |->
            IF S = {} THEN Start(cap)
            ELSE ReplayEvent(cap, g[S \ {Max(S)}], s[Max(S)])]

LEMMA ReplayIsFold ==
    ASSUME NEW s, NEW cap
    PROVE  Replay(s, cap) = (CHOOSE g : Folds(g, s, cap, DOMAIN s))[DOMAIN s]
BY DEF Replay, FoldLeft, MapThenFoldSet, Folds, Start

\* One more index is the greatest of the sets it is in.
LEMMA FoldExtends ==
    ASSUME NEW s, NEW cap, NEW n \in Nat, NEW g, Folds(g, s, cap, 1..n)
    PROVE  \E h : Folds(h, s, cap, 1..(n + 1))
<1> DEFINE D == 1..n
           E == 1..(n + 1)
           h == [S \in SUBSET E |->
                    IF n + 1 \in S THEN ReplayEvent(cap, g[S \ {n + 1}], s[n + 1]) ELSE g[S]]
<1>1. ASSUME NEW S \in SUBSET E, n + 1 \in S
      PROVE  Max(S) = n + 1 /\ S \ {n + 1} \in SUBSET D
  <2>1. S \subseteq Nat /\ \A i \in S : i <= n + 1
    OBVIOUS
  <2>2. Max(S) \in S /\ n + 1 <= Max(S) /\ Max(S) <= n + 1
    BY <1>1, <2>1, NatMax
  <2>3. Max(S) = n + 1
    <3>1. \A m \in Nat : n + 1 <= m /\ m <= n + 1 => m = n + 1
      OBVIOUS
    <3>2. Max(S) \in Nat
      BY <2>1, <2>2
    <3>3. QED
      BY <2>2, <3>1, <3>2
  <2>4. S \ {n + 1} \in SUBSET D
    OBVIOUS
  <2>5. QED
    BY <2>3, <2>4
<1>2. ASSUME NEW S \in SUBSET E, n + 1 \notin S
      PROVE  S \in SUBSET D
  BY <1>2
<1>3. ASSUME NEW S \in SUBSET D
      PROVE  /\ h[S] = g[S]
             /\ S # {} => S \ {Max(S)} \in SUBSET D
             /\ g[S] = IF S = {} THEN Start(cap) ELSE ReplayEvent(cap, g[S \ {Max(S)}], s[Max(S)])
  <2>1. S \in SUBSET E /\ n + 1 \notin S
    OBVIOUS
  <2>2. h[S] = g[S]
    BY <2>1
  <2> HIDE DEF h
  <2>3. g[S] = IF S = {} THEN Start(cap) ELSE ReplayEvent(cap, g[S \ {Max(S)}], s[Max(S)])
    BY DEF Folds
  <2>4. S \ {Max(S)} \in SUBSET D
    OBVIOUS
  <2>5. QED
    BY <2>2, <2>3, <2>4
<1>4. ASSUME NEW S \in SUBSET E
      PROVE  h[S] = IF S = {} THEN Start(cap) ELSE ReplayEvent(cap, h[S \ {Max(S)}], s[Max(S)])
  <2>1. CASE n + 1 \in S
    <3>1. h[S] = ReplayEvent(cap, g[S \ {n + 1}], s[n + 1])
      BY <2>1
    <3>2. Max(S) = n + 1 /\ h[S \ {n + 1}] = g[S \ {n + 1}] /\ S # {}
      BY <2>1, <1>1, <1>3
    <3> HIDE DEF h
    <3>3. QED
      BY <3>1, <3>2
  <2>2. CASE n + 1 \notin S
    <3>1. S \in SUBSET D
      BY <2>2, <1>2
    <3>2. S # {} => h[S \ {Max(S)}] = g[S \ {Max(S)}]
      BY <3>1, <1>3
    <3> HIDE DEF h
    <3>3. QED
      BY <3>1, <3>2, <1>3
  <2>3. QED
    BY <2>1, <2>2
<1>5. h = [S \in SUBSET E |-> h[S]]
  OBVIOUS
<1> HIDE DEF h
<1>6. Folds(h, s, cap, E)
  BY <1>4, <1>5 DEF Folds
<1>7. QED
  BY <1>6

LEMMA FoldExists ==
    ASSUME NEW s, NEW cap, NEW n \in Nat
    PROVE  \E g : Folds(g, s, cap, 1..n)
<1> DEFINE I == {k \in Nat : ~\E g : Folds(g, s, cap, 1..k)}
<1>1. 0 \notin I
  <2> DEFINE g == [S \in SUBSET (1..0) |-> Start(cap)]
  <2>1. \A S \in SUBSET (1..0) : S = {}
    OBVIOUS
  <2>2. g = [S \in SUBSET (1..0) |->
                IF S = {} THEN Start(cap) ELSE ReplayEvent(cap, g[S \ {Max(S)}], s[Max(S)])]
    BY <2>1
  <2>3. Folds(g, s, cap, 1..0)
    BY <2>2 DEF Folds
  <2>4. QED
    BY <2>3
<1>2. I = {}
  <2>1. SUFFICES ASSUME I # {} PROVE FALSE
    OBVIOUS
  <2>2. Min(I) \in I /\ \A k \in I : Min(I) <= k
    BY <2>1, NatMin
  <2>3. PICK m \in Nat : Min(I) = m + 1
    <3>1. Min(I) \in Nat /\ Min(I) # 0
      BY <1>1, <2>2
    <3>2. \A k \in Nat : k # 0 => \E m \in Nat : k = m + 1
      <4>1. \A k \in Nat : k # 0 => k - 1 \in Nat /\ k = (k - 1) + 1
        OBVIOUS
      <4>2. QED
        BY <4>1
    <3>3. QED
      BY <3>1, <3>2
  <2>4. m \notin I
    BY <2>2, <2>3
  <2>5. PICK g : Folds(g, s, cap, 1..m)
    BY <2>4
  <2>6. m + 1 \notin I
    BY <2>5, FoldExtends
  <2>7. QED
    BY <2>2, <2>3, <2>6
<1>3. QED
  BY <1>2

\* What the first k events leave.
After(g, k) == g[1..k]

\* A log is replayed from its first event to its last.
LEMMA FoldSteps ==
    ASSUME NEW s, NEW cap, NEW n \in Nat, NEW g, Folds(g, s, cap, 1..n)
    PROVE  /\ After(g, 0) = Start(cap)
           /\ \A k \in 1..n : After(g, k) = ReplayEvent(cap, After(g, k - 1), s[k])
<1>1. 1..0 = {} /\ 1..0 \in SUBSET (1..n)
  OBVIOUS
<1>2. After(g, 0) = Start(cap)
  BY <1>1 DEF Folds, After
<1>3. ASSUME NEW k \in 1..n
      PROVE  After(g, k) = ReplayEvent(cap, After(g, k - 1), s[k])
  <2>1. /\ 1..k \in SUBSET (1..n)
        /\ 1..k # {}
        /\ (1..k) \ {k} = 1..(k - 1)
    OBVIOUS
  <2>2. Max(1..k) = k
    <3>1. 1..k \subseteq Nat /\ k \in Nat /\ k \in 1..k /\ \A i \in 1..k : i <= k
      OBVIOUS
    <3>2. Max(1..k) \in 1..k /\ k <= Max(1..k)
      BY <2>1, <3>1, NatMax
    <3>3. QED
      BY <3>1, <3>2
  <2>3. QED
    BY <2>1, <2>2 DEF Folds, After
<1>4. QED
  BY <1>2, <1>3

\* Two logs that say the same of a capability, event by event.
SameFor(s, t, cap, n) ==
    \A i \in 1..n : \A state : ReplayEvent(cap, state, s[i]) = ReplayEvent(cap, state, t[i])

LEMMA FoldsAgree ==
    ASSUME NEW s, NEW t, NEW cap, NEW n \in Nat, NEW m \in Nat, n <= m, SameFor(s, t, cap, n),
           NEW g, Folds(g, s, cap, 1..n), NEW h, Folds(h, t, cap, 1..m)
    PROVE  \A k \in 0..n : After(g, k) = After(h, k)
<1> DEFINE I == {k \in 0..n : After(g, k) # After(h, k)}
<1>1. /\ After(g, 0) = Start(cap) /\ After(h, 0) = Start(cap)
      /\ \A k \in 1..n : After(g, k) = ReplayEvent(cap, After(g, k - 1), s[k])
      /\ \A k \in 1..m : After(h, k) = ReplayEvent(cap, After(h, k - 1), t[k])
  <2>1. /\ After(g, 0) = Start(cap)
        /\ \A k \in 1..n : After(g, k) = ReplayEvent(cap, After(g, k - 1), s[k])
    BY FoldSteps
  <2>2. /\ After(h, 0) = Start(cap)
        /\ \A k \in 1..m : After(h, k) = ReplayEvent(cap, After(h, k - 1), t[k])
    BY FoldSteps
  <2>3. QED
    BY <2>1, <2>2
<1>2. I = {}
  <2>1. SUFFICES ASSUME I # {} PROVE FALSE
    OBVIOUS
  <2>2. Min(I) \in I /\ \A k \in I : Min(I) <= k
    <3>1. I \subseteq Nat
      OBVIOUS
    <3>2. QED
      BY <2>1, <3>1, NatMin
  <2>3. Min(I) \in 0..n /\ After(g, Min(I)) # After(h, Min(I)) /\ Min(I) # 0
    BY <1>1, <2>2
  <2>4. PICK k \in 1..n : k = Min(I)
    <3>1. \A j \in 0..n : j # 0 => j \in 1..n
      OBVIOUS
    <3>2. QED
      BY <2>3, <3>1
  <2>5. k - 1 \in 0..n /\ k - 1 \notin I /\ k \in 1..m
    BY <2>2, <2>4
  <2>6. After(g, k - 1) = After(h, k - 1)
    BY <2>5
  <2>7. After(g, k) = After(h, k)
    BY <1>1, <2>5, <2>6 DEF SameFor
  <2>8. QED
    BY <2>3, <2>4, <2>7
<1>3. QED
  BY <1>2

LEMMA ReplayFound ==
    ASSUME NEW s, IsSeq(s), NEW cap
    PROVE  \E g : Folds(g, s, cap, 1..Len(s)) /\ Replay(s, cap) = After(g, Len(s))
<1>1. Len(s) \in Nat /\ DOMAIN s = 1..Len(s)
  BY SeqDomain
<1>2. \E g : Folds(g, s, cap, DOMAIN s)
  BY <1>1, FoldExists
<1>3. Folds(CHOOSE g : Folds(g, s, cap, DOMAIN s), s, cap, DOMAIN s)
  BY <1>2
<1>4. QED
  BY <1>1, <1>3, ReplayIsFold DEF After

LEMMA ReplayEmpty ==
    ASSUME NEW s, s = <<>>, NEW cap
    PROVE  Replay(s, cap) = Start(cap)
<1>1. IsSeq(s) /\ Len(s) = 0
  BY NoEventsSeq
<1>2. PICK g : Folds(g, s, cap, 1..0) /\ Replay(s, cap) = After(g, 0)
  BY <1>1, ReplayFound
<1>3. QED
  BY <1>2, FoldSteps

LEMMA ReplayAdds ==
    ASSUME NEW s, IsSeq(s), NEW t, IsSeq(t), NEW e, Adds(t, s, e), NEW cap
    PROVE  Replay(t, cap) = ReplayEvent(cap, Replay(s, cap), e)
<1> DEFINE n == Len(s)
<1>1. /\ n \in Nat /\ DOMAIN s = 1..n
      /\ Len(t) = n + 1
      /\ \A i \in 1..n : t[i] = s[i]
      /\ t[n + 1] = e
  <2>1. Len(t) \in Nat /\ 1..Len(t) = 1..(n + 1) /\ n \in Nat
    BY SeqDomain DEF Adds
  <2>2. Len(t) = n + 1
    <3>1. \A i, j \in Nat : 1..i = 1..j => i = j
      OBVIOUS
    <3>2. n + 1 \in Nat
      BY <2>1
    <3>3. QED
      BY <2>1, <3>1, <3>2
  <2>3. QED
    BY <2>2 DEF Adds, Extends
<1> HIDE DEF n
<1>2. PICK g : Folds(g, s, cap, 1..n) /\ Replay(s, cap) = After(g, n)
  BY <1>1, ReplayFound DEF n
<1>3. PICK h : Folds(h, t, cap, 1..(n + 1)) /\ Replay(t, cap) = After(h, n + 1)
  BY <1>1, ReplayFound
<1>4. SameFor(s, t, cap, n)
  BY <1>1 DEF SameFor
<1>5. After(g, n) = After(h, n)
  BY <1>1, <1>2, <1>3, <1>4, FoldsAgree
<1>6. After(h, n + 1) = ReplayEvent(cap, After(h, n), e)
  <2>1. n + 1 \in Nat /\ n + 1 \in 1..(n + 1) /\ (n + 1) - 1 = n
    BY <1>1
  <2>2. \A k \in 1..(n + 1) : After(h, k) = ReplayEvent(cap, After(h, k - 1), t[k])
    BY <1>3, <2>1, FoldSteps
  <2>3. After(h, n + 1) = ReplayEvent(cap, After(h, (n + 1) - 1), t[n + 1])
    BY <2>1, <2>2
  <2>4. QED
    BY <1>1, <2>1, <2>3
<1>7. QED
  BY <1>2, <1>3, <1>5, <1>6

LEMMA ReplaySame ==
    ASSUME NEW s, IsSeq(s), NEW t, IsSeq(t), DOMAIN s = DOMAIN t, NEW cap, SameFor(s, t, cap, Len(s))
    PROVE  Replay(s, cap) = Replay(t, cap)
<1>1. Len(s) \in Nat /\ Len(t) = Len(s)
  <2>1. Len(s) \in Nat /\ Len(t) \in Nat /\ 1..Len(s) = 1..Len(t)
    BY SeqDomain
  <2>2. QED
    BY <2>1
<1>2. PICK g : Folds(g, s, cap, 1..Len(s)) /\ Replay(s, cap) = After(g, Len(s))
  BY ReplayFound
<1>3. PICK h : Folds(h, t, cap, 1..Len(s)) /\ Replay(t, cap) = After(h, Len(s))
  BY <1>1, ReplayFound
<1>4. QED
  BY <1>1, <1>2, <1>3, FoldsAgree

-----------------------------------------------------------------------------
(* What a capability has earned on a log *)

\* The runs in a row that end a log, all of them clean, since the capability
\* entered its rung.
Clean(s, cap, n) ==
    {j \in 1..n :
        /\ s[j].kind = "capability.run"
        /\ s[j].body.cap = cap
        /\ \A k \in j..n :
              s[k].kind \in {"rung.change", "capability.run"} /\ s[k].body.cap = cap
                => s[k].kind = "capability.run" /\ s[k].body.outcome = "clean"}

CountsClean(state, s, cap, n) ==
    /\ IsFiniteSet(Clean(s, cap, n))
    /\ state = [rung |-> state.rung, clean |-> Cardinality(Clean(s, cap, n))]

LEMMA CleanStep ==
    ASSUME NEW s, NEW cap, NEW n \in Nat, NEW state, CountsClean(state, s, cap, n)
    PROVE  CountsClean(ReplayEvent(cap, state, s[n + 1]), s, cap, n + 1)
<1> DEFINE e == s[n + 1]
           C == Clean(s, cap, n)
           D == Clean(s, cap, n + 1)
           new == ReplayEvent(cap, state, e)
<1>1. /\ IsFiniteSet(C) /\ state = [rung |-> state.rung, clean |-> Cardinality(C)]
      /\ Cardinality(C) \in Nat
  BY FS_CardinalityType DEF CountsClean
<1>2. \A j \in 1..(n + 1) : n + 1 \in j..(n + 1)
  OBVIOUS
<1>3. CASE e.kind = "rung.change" /\ e.body.cap = cap
  <2>1. D = {}
    BY <1>2, <1>3 DEF Clean
  <2>2. new = [rung |-> e.body.to, clean |-> 0]
    BY <1>3 DEF ReplayEvent
  <2>3. QED
    BY <2>1, <2>2, FS_EmptySet DEF CountsClean
<1>4. CASE e.kind = "capability.run" /\ e.body.cap = cap /\ e.body.outcome # "clean"
  <2>1. D = {}
    BY <1>2, <1>4 DEF Clean
  <2>2. new = [state EXCEPT !.clean = 0]
    BY <1>4 DEF ReplayEvent
  <2>3. new = [rung |-> state.rung, clean |-> 0]
    BY <1>1, <2>2
  <2> HIDE DEF D, new
  <2>4. IsFiniteSet(D) /\ Cardinality(D) = 0
    BY <2>1, FS_EmptySet
  <2>5. new = [rung |-> new.rung, clean |-> Cardinality(D)]
    BY <2>3, <2>4
  <2>6. QED
    BY <2>4, <2>5 DEF CountsClean, D, new
<1>5. CASE e.kind = "capability.run" /\ e.body.cap = cap /\ e.body.outcome = "clean"
  <2>1. D = C \cup {n + 1}
    <3>1. \A j \in 1..n : \A k \in j..(n + 1) : k \in j..n \/ k = n + 1
      OBVIOUS
    <3>2. \A k \in (n + 1)..(n + 1) : k = n + 1
      OBVIOUS
    <3>3. \A j \in 1..(n + 1) : j \in 1..n \/ j = n + 1
      OBVIOUS
    <3>4. 1..n \subseteq 1..(n + 1) /\ n + 1 \in 1..(n + 1) /\ \A j \in 1..n : j..n \subseteq j..(n + 1)
      OBVIOUS
    <3>5. \A j \in D : j \in C \cup {n + 1}
      BY <3>3, <3>4 DEF Clean
    <3>6. \A j \in C : j \in D
      BY <1>5, <3>1, <3>4 DEF Clean
    <3>7. n + 1 \in D
      BY <1>5, <3>2, <3>4 DEF Clean
    <3>8. QED
      BY <3>5, <3>6, <3>7
  <2>2. n + 1 \notin C
    BY DEF Clean
  <2>3. IsFiniteSet(D) /\ Cardinality(D) = Cardinality(C) + 1
    BY <1>1, <2>1, <2>2, FS_AddElement
  <2>4. new = [state EXCEPT !.clean = Cardinality(C) + 1]
    BY <1>1, <1>5 DEF ReplayEvent
  <2>5. new = [rung |-> state.rung, clean |-> Cardinality(C) + 1]
    BY <1>1, <2>4
  <2> HIDE DEF C, D, new
  <2>6. QED
    BY <2>3, <2>5 DEF CountsClean, D, new
<1>6. CASE ~(e.kind \in {"rung.change", "capability.run"} /\ e.body.cap = cap)
  <2>1. D = C
    <3>1. \A j \in 1..n : \A k \in j..(n + 1) : k \in j..n \/ k = n + 1
      OBVIOUS
    <3>2. \A j \in 1..(n + 1) : j \in 1..n \/ j = n + 1
      OBVIOUS
    <3>3. 1..n \subseteq 1..(n + 1) /\ \A j \in 1..n : j..n \subseteq j..(n + 1)
      OBVIOUS
    <3>4. \A j \in D : j \in C
      BY <1>6, <3>2, <3>3 DEF Clean
    <3>5. \A j \in C : j \in D
      BY <1>6, <3>1, <3>3 DEF Clean
    <3>6. QED
      BY <3>4, <3>5
  <2>2. new = state
    BY <1>6 DEF ReplayEvent
  <2>3. QED
    BY <1>1, <2>1, <2>2 DEF CountsClean
<1>7. QED
  BY <1>3, <1>4, <1>5, <1>6

\* The count a replay keeps is that of these runs.
LEMMA CleanCounted ==
    ASSUME NEW s, IsSeq(s), NEW cap
    PROVE  CountsClean(Replay(s, cap), s, cap, Len(s))
<1>1. Len(s) \in Nat
  BY SeqDomain
<1>2. PICK g : Folds(g, s, cap, 1..Len(s)) /\ Replay(s, cap) = After(g, Len(s))
  BY ReplayFound
<1>3. /\ After(g, 0) = Start(cap)
      /\ \A k \in 1..Len(s) : After(g, k) = ReplayEvent(cap, After(g, k - 1), s[k])
  BY <1>1, <1>2, FoldSteps
<1> DEFINE I == {k \in 0..Len(s) : ~CountsClean(After(g, k), s, cap, k)}
<1>4. CountsClean(After(g, 0), s, cap, 0)
  <2>1. Clean(s, cap, 0) = {}
    BY DEF Clean
  <2>2. Start(cap) = [rung |-> Start(cap).rung, clean |-> 0]
    BY DEF Start
  <2>3. QED
    BY <1>3, <2>1, <2>2, FS_EmptySet DEF CountsClean
<1>5. I = {}
  <2>1. SUFFICES ASSUME I # {} PROVE FALSE
    OBVIOUS
  <2>2. Min(I) \in I /\ \A k \in I : Min(I) <= k
    <3>1. I \subseteq Nat
      BY <1>1
    <3>2. QED
      BY <2>1, <3>1, NatMin
  <2>3. Min(I) \in 0..Len(s) /\ ~CountsClean(After(g, Min(I)), s, cap, Min(I)) /\ Min(I) # 0
    BY <1>4, <2>2
  <2>4. PICK k \in 1..Len(s) : k = Min(I)
    <3>1. \A j \in 0..Len(s) : j # 0 => j \in 1..Len(s)
      BY <1>1
    <3>2. QED
      BY <2>3, <3>1
  <2>5. k - 1 \in 0..Len(s) /\ ~(k <= k - 1) /\ k - 1 \in Nat /\ (k - 1) + 1 = k
    BY <1>1
  <2>6. CountsClean(After(g, k - 1), s, cap, k - 1)
    BY <2>2, <2>4, <2>5
  <2>7. CountsClean(ReplayEvent(cap, After(g, k - 1), s[(k - 1) + 1]), s, cap, (k - 1) + 1)
    BY <2>5, <2>6, CleanStep
  <2>8. CountsClean(After(g, k), s, cap, k)
    BY <1>3, <2>5, <2>7
  <2>9. QED
    BY <2>3, <2>4, <2>8
<1>6. CountsClean(After(g, Len(s)), s, cap, Len(s))
  <2>1. Len(s) \in 0..Len(s)
    BY <1>1
  <2>2. QED
    BY <1>5, <2>1
<1>7. QED
  BY <1>2, <1>6

\* What a capability has earned by the first n events.
RungIn(s, n, cap) == EarnedRung(SubSeq(s, 1, n), cap)

LEMMA PrefixSame ==
    ASSUME NEW s, IsSeq(s), NEW t, IsSeq(t), NEW e, Adds(t, s, e), NEW n \in 0..Len(s)
    PROVE  /\ SubSeq(t, 1, n) = SubSeq(s, 1, n)
           /\ \A cap : Clean(t, cap, n) = Clean(s, cap, n)
<1>1. /\ Len(s) \in Nat /\ DOMAIN s = 1..Len(s)
      /\ \A i \in 1..Len(s) : t[i] = s[i]
  BY DEF Adds, Extends
<1>2. \A i \in 1..n : i \in 1..Len(s) /\ i..n \subseteq 1..Len(s)
  BY <1>1
<1>3. SubSeq(t, 1, n) = SubSeq(s, 1, n)
  <2>1. \A i \in 1..n : t[i + 1 - 1] = s[i + 1 - 1]
    BY <1>1, <1>2
  <2>2. /\ SubSeq(t, 1, n) = [i \in 1..(1 + n - 1) |-> t[i + 1 - 1]]
        /\ SubSeq(s, 1, n) = [i \in 1..(1 + n - 1) |-> s[i + 1 - 1]]
    OBVIOUS
  <2>3. 1..(1 + n - 1) = 1..n
    BY <1>1
  <2>4. QED
    BY <2>1, <2>2, <2>3
<1>4. ASSUME NEW cap
      PROVE  Clean(t, cap, n) = Clean(s, cap, n)
  BY <1>1, <1>2 DEF Clean
<1>5. QED
  BY <1>3, <1>4

LEMMA WholePrefix ==
    ASSUME NEW s, IsSeq(s), NEW t, IsSeq(t), NEW e, Adds(t, s, e), NEW cap
    PROVE  /\ RungIn(t, Len(s), cap) = EarnedRung(s, cap)
           /\ RungIn(t, Len(s) + 1, cap) = EarnedRung(t, cap)
<1>1. Len(t) = Len(s) + 1
  <2>1. Len(s) \in Nat /\ Len(t) \in Nat /\ 1..Len(t) = 1..(Len(s) + 1)
    BY SeqDomain DEF Adds
  <2>2. \A i, j \in Nat : 1..i = 1..j => i = j
    OBVIOUS
  <2>3. Len(s) + 1 \in Nat
    BY <2>1
  <2>4. QED
    BY <2>1, <2>2, <2>3
<1>2. \A u : IsSeq(u) => SubSeq(u, 1, Len(u)) = u
  BY DEF IsSeq
<1>3. Len(s) \in 0..Len(s)
  BY SeqDomain
<1>4. SubSeq(t, 1, Len(s)) = s
  BY <1>2, <1>3, PrefixSame
<1>5. SubSeq(t, 1, Len(s) + 1) = t
  BY <1>1, <1>2
<1>6. QED
  BY <1>4, <1>5 DEF RungIn

-----------------------------------------------------------------------------
(* What the events of a log say of rungs *)

\* The decision is the one the log before it gives; the change moves the rung
\* it gives by one; a promotion was earned on it and approved; a denial that has
\* its result has cost a rung.
DecidesAsReplayed(s, d) ==
    LET body == s[d].body
        replayed == Decide(body.call, [cap \in CapId |-> RungIn(s, d - 1, cap)])
    IN  body.rule # "r-delegation" =>
            Decision(body.verdict, body.cap, body.rule, body.obligation) = replayed

MovesOneRung(s, i) ==
    LET change == s[i].body
    IN  /\ change.from = RungIn(s, i - 1, change.cap)
        /\ change.trigger = "demotion" => HasDown(change.from) /\ change.to = Down(change.from)
        /\ change.trigger = "earned" => HasUp(change.from) /\ change.to = Up(change.from)

WasEarned(s, i) ==
    LET change == s[i].body
    IN  change.trigger = "earned" =>
            /\ Cardinality(Clean(s, change.cap, i - 1)) >= RunsAtRung
            /\ s[i - 1].kind = "approval"
            /\ s[i - 1].body.verdict = "approve"
            /\ s[i - 1].body.approver = change.approver
            /\ change.approver \in Approvers

CostARung(s, t) ==
    \A d \in Decisions(s, s[t].body.request) :
        LET cap == s[d].body.cap
        IN  /\ s[d].body.verdict = "deny"
            /\ cap # NoCap
            /\ "policy.deny" \in Triggers
            /\ HasDown(RungIn(s, d, cap))
            => RungIn(s, t, cap) = Down(RungIn(s, d, cap))

RungsHoldAt(s, i) ==
    /\ s[i].kind = "policy.decision" => DecidesAsReplayed(s, i)
    /\ s[i].kind = "rung.change" => MovesOneRung(s, i) /\ (s[i].body.trigger = "earned" => i > 1)
    /\ s[i].kind = "rung.change" => WasEarned(s, i)
    /\ s[i].kind = "tool.result" => CostARung(s, i)

RungsHold(s) == \A i \in DOMAIN s : RungsHoldAt(s, i)

\* More events leave all this as it was, if no call is decided again after its
\* result.
LEMMA GrowthKeepsRungs ==
    ASSUME NEW s, IsSeq(s), NEW t, IsSeq(t), NEW e, Adds(t, s, e), RungsHold(s),
           e.kind = "policy.decision" => Results(s, e.body.request) = {}
    PROVE  \A i \in DOMAIN s : RungsHoldAt(t, i)
<1>1. ASSUME NEW n \in 0..Len(s), NEW cap
      PROVE  RungIn(t, n, cap) = RungIn(s, n, cap) /\ Clean(t, cap, n) = Clean(s, cap, n)
  <2>1. SubSeq(t, 1, n) = SubSeq(s, 1, n) /\ Clean(t, cap, n) = Clean(s, cap, n)
    BY PrefixSame
  <2>2. QED
    BY <2>1 DEF RungIn
<1>2. /\ Len(s) \in Nat /\ DOMAIN s = 1..Len(s) /\ DOMAIN t = 1..(Len(s) + 1)
      /\ \A i \in DOMAIN s : t[i] = s[i]
      /\ t[Len(s) + 1] = e
  BY DEF Adds, Extends
<1>3. \A i \in DOMAIN s : i \in 0..Len(s) /\ i - 1 \in 0..Len(s) /\ (i > 1 => i - 1 \in DOMAIN s)
  BY <1>2
<1>4. SUFFICES ASSUME NEW i \in DOMAIN s
               PROVE  RungsHoldAt(t, i)
  OBVIOUS
<1>5. RungsHoldAt(s, i) /\ t[i] = s[i]
  BY <1>2 DEF RungsHold
<1>6. ASSUME s[i].kind = "policy.decision"
      PROVE  DecidesAsReplayed(t, i)
  <2>1. \A cap : RungIn(t, i - 1, cap) = RungIn(s, i - 1, cap)
    BY <1>1, <1>3
  <2>2. DecidesAsReplayed(s, i)
    BY <1>5, <1>6 DEF RungsHoldAt
  <2>3. QED
    BY <1>5, <2>1, <2>2 DEF DecidesAsReplayed
<1>7. ASSUME s[i].kind = "rung.change"
      PROVE  MovesOneRung(t, i) /\ WasEarned(t, i) /\ (t[i].body.trigger = "earned" => i > 1)
  <2>1. \A cap : RungIn(t, i - 1, cap) = RungIn(s, i - 1, cap) /\ Clean(t, cap, i - 1) = Clean(s, cap, i - 1)
    BY <1>1, <1>3
  <2>2. MovesOneRung(s, i) /\ WasEarned(s, i) /\ (s[i].body.trigger = "earned" => i > 1)
    BY <1>5, <1>7 DEF RungsHoldAt
  <2>3. i > 1 => t[i - 1] = s[i - 1]
    BY <1>2, <1>3
  <2>4. MovesOneRung(t, i)
    BY <1>5, <2>1, <2>2 DEF MovesOneRung
  <2>5. WasEarned(t, i)
    BY <1>5, <2>1, <2>2, <2>3 DEF WasEarned
  <2>6. QED
    BY <1>5, <2>2, <2>4, <2>5
<1>8. ASSUME s[i].kind = "tool.result"
      PROVE  CostARung(t, i)
  <2>1. CostARung(s, i)
    BY <1>5, <1>8 DEF RungsHoldAt
  <2>2. e.kind = "policy.decision" => e.body.request # s[i].body.request
    BY <1>8 DEF Results
  <2>3. \A j \in DOMAIN t : (j \in DOMAIN s /\ t[j] = s[j]) \/ t[j] = e
    BY AddedIndex
  <2>4. \A d \in Decisions(t, t[i].body.request) :
           d \in Decisions(s, s[i].body.request) /\ t[d] = s[d] /\ d \in DOMAIN s
    BY <1>5, <2>2, <2>3 DEF Decisions
  <2>5. \A d \in DOMAIN s : \A cap : RungIn(t, d, cap) = RungIn(s, d, cap)
    BY <1>1, <1>3
  <2>6. QED
    BY <2>1, <2>4, <2>5 DEF CostARung
<1>9. QED
  BY <1>5, <1>6, <1>7, <1>8 DEF RungsHoldAt

LEMMA AddedKeepsRungs ==
    ASSUME NEW s, IsSeq(s), NEW t, IsSeq(t), NEW e, Adds(t, s, e), RungsHold(s),
           e.kind = "policy.decision" => Results(s, e.body.request) = {},
           RungsHoldAt(t, Len(s) + 1)
    PROVE  RungsHold(t)
<1>1. \A i \in DOMAIN s : RungsHoldAt(t, i)
  BY GrowthKeepsRungs
<1>2. \A i \in DOMAIN t : i \in DOMAIN s \/ i = Len(s) + 1
  BY AddedIndex
<1>3. QED
  BY <1>1, <1>2 DEF RungsHold

\* The events that have nothing to do with rungs.
Quiet(e) == e.kind \notin {"policy.decision", "tool.result", "rung.change", "capability.run"}

LEMMA QuietKeepsRungs ==
    ASSUME NEW s, IsSeq(s), NEW t, IsSeq(t), NEW e, Adds(t, s, e), Quiet(e)
    PROVE  /\ RungsHold(s) => RungsHold(t)
           /\ \A cap : Replay(t, cap) = Replay(s, cap)
<1>1. t[Len(s) + 1] = e
  BY DEF Adds
<1>2. RungsHoldAt(t, Len(s) + 1)
  BY <1>1 DEF RungsHoldAt, Quiet
<1>3. RungsHold(s) => RungsHold(t)
  BY <1>2, AddedKeepsRungs DEF Quiet
<1>4. ASSUME NEW cap
      PROVE  Replay(t, cap) = Replay(s, cap)
  <2>1. Replay(t, cap) = ReplayEvent(cap, Replay(s, cap), e)
    BY ReplayAdds
  <2>2. QED
    BY <2>1 DEF ReplayEvent, Quiet
<1>5. QED
  BY <1>3, <1>4

\* These say what the properties do.
LEMMA RungsHoldSaid ==
    ASSUME RungsHold(log)
    PROVE  DecisionIsReplayable /\ ChangeMovesOneRung /\ PromotionIsEarned /\ DenialNarrows
<1>1. \A n, cap : RungAt(n, cap) = RungIn(log, n, cap)
  BY DEF RungAt, Prefix, RungIn
<1>2. DecisionIsReplayable
  <2>1. \A d \in OfKind(log, "policy.decision") : DecidesAsReplayed(log, d)
    BY DEF RungsHold, RungsHoldAt, OfKind
  <2>2. QED
    BY <1>1, <2>1 DEF DecisionIsReplayable, DecidesAsReplayed
<1>3. ChangeMovesOneRung
  <2>1. \A i \in OfKind(log, "rung.change") : MovesOneRung(log, i)
    BY DEF RungsHold, RungsHoldAt, OfKind
  <2>2. QED
    BY <1>1, <2>1 DEF ChangeMovesOneRung, MovesOneRung
<1>4. PromotionIsEarned
  <2>1. \A i \in OfKind(log, "rung.change") : WasEarned(log, i)
    BY DEF RungsHold, RungsHoldAt, OfKind
  <2>2. QED
    BY <2>1 DEF PromotionIsEarned, WasEarned, Clean
<1>5. DenialNarrows
  <2>1. \A t \in OfKind(log, "tool.result") : CostARung(log, t)
    BY DEF RungsHold, RungsHoldAt, OfKind
  <2>2. \A x : DecisionOf(x) = Decisions(log, x)
    BY DEF DecisionOf, OfKind, Decisions
  <2>3. QED
    BY <1>1, <2>1, <2>2 DEF DenialNarrows, CostARung
<1>6. QED
  BY <1>2, <1>3, <1>4, <1>5

-----------------------------------------------------------------------------
(* One process at a time *)

\* No two processes are open at once, and what earns a rung stays readable.
OneByOne == OneAtATime /\ {"rung.change", "capability.run"} \cap Expirable = {}

\* A memory that has the log event by event, but for payloads that expired.
Follows(v, s) ==
    /\ IsSeq(v)
    /\ DOMAIN v = DOMAIN s
    /\ \A i \in DOMAIN s :
          /\ v[i].kind = s[i].kind
          /\ s[i].kind \in {"rung.change", "capability.run"} => v[i] = s[i]

LEMMA FollowsReplay ==
    ASSUME NEW v, NEW s, IsSeq(s), Follows(v, s), NEW cap
    PROVE  Replay(v, cap) = Replay(s, cap)
<1>1. DOMAIN v = 1..Len(v)
  BY SeqDomain DEF Follows
<1>2. ASSUME NEW i \in 1..Len(v), NEW state
      PROVE  ReplayEvent(cap, state, v[i]) = ReplayEvent(cap, state, s[i])
  <2>1. /\ v[i].kind = s[i].kind
        /\ s[i].kind \in {"rung.change", "capability.run"} => v[i] = s[i]
    BY <1>1 DEF Follows
  <2>2. CASE s[i].kind \in {"rung.change", "capability.run"}
    BY <2>1, <2>2
  <2>3. CASE s[i].kind \notin {"rung.change", "capability.run"}
    BY <2>1, <2>3 DEF ReplayEvent
  <2>4. QED
    BY <2>2, <2>3
<1>3. SameFor(v, s, cap, Len(v))
  BY <1>2 DEF SameFor
<1>4. QED
  BY <1>3, ReplaySame DEF Follows

\* The fields of a payload that bears on rungs tell what it is.
LEMMA RungFields ==
    ASSUME NEW e, IsEvent(e), NEW f, IsEvent(f), e.body = f.body,
           e.kind \in {"rung.change", "capability.run"}
    PROVE  f.kind = e.kind
<1>1. /\ e.kind \in EventKinds /\ f.kind \in EventKinds
      /\ Fields(e.kind) = Fields(f.kind)
  BY DEF IsEvent
<1>2. \A kind \in EventKinds : "trigger" \in Fields(kind) => kind = "rung.change"
  BY DEF EventKinds, Fields
<1>3. \A kind \in EventKinds : "rung" \in Fields(kind) => kind = "capability.run"
  BY DEF EventKinds, Fields
<1>4. "trigger" \in Fields("rung.change") /\ "rung" \in Fields("capability.run")
  BY DEF Fields
<1>5. QED
  BY <1>1, <1>2, <1>3, <1>4

LEMMA ReadableFollows ==
    ASSUME OneByOne, LogOK
    PROVE  Follows(Readable(log), log)
<1>1. /\ IsSeq(Readable(log))
      /\ DOMAIN Readable(log) = DOMAIN log
      /\ \A i \in DOMAIN log :
            /\ Reads(Readable(log)[i], log[i])
            /\ log[i].body \notin gone => Readable(log)[i] = log[i]
  BY ReadingTheLog
<1>2. ASSUME NEW i \in DOMAIN log
      PROVE  Readable(log)[i].kind = log[i].kind
  BY <1>1 DEF Reads, LogOK, EventsUpTo, IsEvent
<1>3. ASSUME NEW i \in DOMAIN log, log[i].kind \in {"rung.change", "capability.run"}
      PROVE  log[i].body \notin gone
  <2>1. SUFFICES ASSUME log[i].body \in gone PROVE FALSE
    OBVIOUS
  <2>2. PICK j \in DOMAIN log : log[j].kind \in Expirable /\ log[j].body = log[i].body
    BY <2>1 DEF LogOK, ExpiredOf
  <2>3. log[j].kind = log[i].kind
    BY <1>3, <2>2, RungFields DEF LogOK, EventsUpTo
  <2>4. QED
    BY <1>3, <2>2, <2>3 DEF OneByOne
<1>4. QED
  BY <1>1, <1>2, <1>3 DEF Follows

LEMMA FollowsAppend ==
    ASSUME NEW v, NEW s, IsSeq(s), Follows(v, s), NEW e
    PROVE  Follows(Append(v, e), Append(s, e))
<1>0. IsSeq(v) /\ DOMAIN v = DOMAIN s
  BY DEF Follows
<1>1. PICK w, t : w = Append(v, e) /\ t = Append(s, e)
  OBVIOUS
<1>2. /\ Len(s) \in Nat /\ DOMAIN s = 1..Len(s)
      /\ DOMAIN t = 1..(Len(s) + 1)
      /\ \A i \in DOMAIN s : t[i] = s[i]
      /\ t[Len(s) + 1] = e
  BY <1>1, AppendSeq
<1>3. /\ IsSeq(w)
      /\ Len(v) \in Nat /\ DOMAIN v = 1..Len(v)
      /\ DOMAIN w = 1..(Len(v) + 1)
      /\ \A i \in DOMAIN v : w[i] = v[i]
      /\ w[Len(v) + 1] = e
  BY <1>0, <1>1, AppendSeq
<1>4. Len(v) = Len(s)
  <2>1. \A i, j \in Nat : 1..i = 1..j => i = j
    OBVIOUS
  <2>2. QED
    BY <1>0, <1>2, <1>3, <2>1
<1>5. \A i \in DOMAIN t : i \in DOMAIN s \/ i = Len(s) + 1
  BY <1>2
<1>6. Follows(w, t)
  BY <1>0, <1>2, <1>3, <1>4, <1>5 DEF Follows
<1>7. QED
  BY <1>1, <1>6

\* When a process takes a step no other has a run open, before it or after.
Only(p) == \A q \in Process : q # p => ~IsOpen(q)

AllAlone == \A p, q \in Process : IsOpen(p) /\ IsOpen(q) => p = q

\* A process that is open has the log in memory.
Current == \A p \in Process : IsOpen(p) => Follows(view[p], log)

\* What a step of a process does, when it is alone.
LEMMA StepAlone ==
    ASSUME OneByOne, Base, AllAlone, Current, NEW p \in Process, LogStep(p),
           IsOpen(p) \/ \E kinds, body : OpenRun(p, kinds, body)
    PROVE  Only(p) /\ Only(p)' /\ (IsOpen(p)' => Follows(view'[p], log'))
<1>0. /\ run \in [Process -> 0..MaxRuns]
      /\ view = [q \in Process |-> view[q]]
      /\ IsSeq(log) /\ LogOK
  BY BaseLog DEF Base, Logged, RunsOK, ViewsOK
<1>1. Only(p)
  <2>1. ASSUME NEW kinds, NEW body, OpenRun(p, kinds, body)
        PROVE  Only(p)
    BY <2>1 DEF OpenRun, OneByOne, Only
  <2>2. QED
    BY <2>1 DEF AllAlone, Only
<1>2. ASSUME NEW kinds \in {<<>>, <<"run.open">>}, NEW body, OpenRun(p, kinds, body)
      PROVE  Only(p)' /\ (IsOpen(p)' => Follows(view'[p], log'))
  <2> DEFINE e == Stamped(clock + 1, 0, "run.open", body)
  <2>1. /\ run' = [run EXCEPT ![p] = clock + 1]
        /\ \/ log' = log /\ view' = [view EXCEPT ![p] = Readable(log)]
           \/ log' = Append(log, e) /\ view' = [view EXCEPT ![p] = Append(Readable(log), e)]
    BY <1>0, <1>2, OpenRunLogs
  <2>2. Follows(Readable(log), log) /\ Follows(Append(Readable(log), e), Append(log, e))
    BY <1>0, ReadableFollows, FollowsAppend
  <2> HIDE DEF e
  <2>3. Follows(view'[p], log')
    BY <1>0, <2>1, <2>2
  <2>4. Only(p)'
    BY <1>0, <1>1, <2>1 DEF Only, IsOpen
  <2>5. QED
    BY <2>3, <2>4
<1>3. ASSUME NEW kind, NEW body, Emit(p, kind, body), IsOpen(p)
      PROVE  Only(p)' /\ (IsOpen(p)' => Follows(view'[p], log'))
  <2> DEFINE e == Stamped(run[p], seq[p], kind, body)
  <2>1. /\ log' = Append(log, e)
        /\ view' = [view EXCEPT ![p] = Append(view[p], e)]
        /\ run' = run
    BY <1>3 DEF Emit
  <2>2. Follows(Append(view[p], e), Append(log, e))
    BY <1>0, <1>3, FollowsAppend DEF Current
  <2> HIDE DEF e
  <2>3. QED
    BY <1>0, <1>1, <2>1, <2>2 DEF Only, IsOpen
<1>4. CASE Leave(p)
  BY <1>0, <1>1, <1>4 DEF Leave, Only, IsOpen
<1>5. CASE UNCHANGED logVars
  BY <1>1, <1>5 DEF logVars, Only, IsOpen, Current
<1>6. QED
  BY <1>1, <1>2, <1>3, <1>4, <1>5 DEF LogStep, Writes, Depart

\* A process that takes a step has a run open, or opens one.
LEMMA BrokerActsOpen ==
    ASSUME Base, NEW p \in Broker, BrokerStep(p)
    PROVE  IsOpen(p) \/ \E kinds, body : OpenRun(p, kinds, body)
<1>1. pc[p] # "closed" => IsOpen(p)
  BY DEF Base, Control
<1>2. CASE StartBroker(p)
  BY <1>2 DEF StartBroker
<1>3. CASE CallStep(p)
  BY <1>1, <1>3 DEF CallStep, MakeDecision, Demote, Refuse, Block, UseGrant, RefuseCredential,
                    Execute, FailToExecute, Finish, At
<1>4. CASE KillBroker(p)
  BY <1>4 DEF KillBroker, Die, Exit
<1>5. QED
  BY <1>1, <1>2, <1>3, <1>4 DEF BrokerStep, Register, DelegateScope, Request, SealBroker, At

LEMMA ApproverActsOpen ==
    ASSUME Base, NEW p \in Approver, ApproverStep(p)
    PROVE  IsOpen(p) \/ \E kinds, body : OpenRun(p, kinds, body)
<1>1. pc[p] # "closed" => IsOpen(p)
  BY DEF Base, Control
<1>2. CASE StartApprove(p)
  BY <1>2 DEF StartApprove
<1>3. CASE KillApprove(p)
  BY <1>3 DEF KillApprove, Die, Exit
<1>4. QED
  BY <1>1, <1>2, <1>3 DEF ApproverStep, Answer, SealApprove, RefuseApprove, At

LEMMA OrchestratorActsOpen ==
    ASSUME Base, NEW o \in Orchestrators, OrchestratorStep(o)
    PROVE  IsOpen(o) \/ \E kinds, body : OpenRun(o, kinds, body)
<1>1. stage[o] # "closed" => IsOpen(o)
  BY DEF Base, Control
<1>2. ASSUME NEW cap \in CapId, StartStep(o, cap)
      PROVE  \E kinds, body : OpenRun(o, kinds, body)
  BY <1>2 DEF StartStep
<1>3. CASE KillStep(o)
  BY <1>3 DEF KillStep, Die, Exit
<1>4. QED
  BY <1>1, <1>2, <1>3 DEF OrchestratorStep, Sense, RecordFailure, RecordClean, DemoteOnFailure,
                          ApprovePromotion, Promote, SealStep, FailStep

-----------------------------------------------------------------------------
(* Where a process is, and what the log has earned *)

\* The decision on the call in progress is the one on the log: a denial comes
\* last on it until it has cost its rung.
DecisionStands(s, label, x) ==
    label \in {"denied", "refused", "held", "cleared", "done"} =>
        \E d \in Decisions(s, x.request) :
            /\ s[d].body.verdict = x.decision.verdict
            /\ s[d].body.cap = x.decision.cap
            /\ label = "denied" => d = Len(s)
            /\ label = "refused" =>
                  EarnedRung(s, x.decision.cap) = Down(RungIn(s, d, x.decision.cap))
            /\ label \in {"held", "cleared", "done"} => x.decision.verdict # "deny"

\* A change of rung that is under way is due on the log, and one that is
\* approved has its approval last on it.
ChangeStands(s, label, t) ==
    /\ label = "demoting" => HasDown(EarnedRung(s, t.cap))
    /\ label \in {"promoting", "promoted"} => PromotionEarned(Replay(s, t.cap))
    /\ label = "promoted" =>
          /\ Len(s) > 0
          /\ s[Len(s)].kind = "approval"
          /\ s[Len(s)].body.verdict = "approve"
          /\ s[Len(s)].body.approver = t.promoter
          /\ t.promoter \in Approvers

RungsStand ==
    /\ RungsHold(log)
    /\ \A p \in Broker : DecisionStands(log, pc[p], current[p])
    /\ \A o \in Orchestrators : ChangeStands(log, stage[o], task[o])

\* A step that writes nothing, or nothing that bears on rungs.
QuietStep == log' = log \/ \E e : Adds(log', log, e) /\ Quiet(e)

LEMMA QuietStepKeeps ==
    ASSUME Base, Base', RungsHold(log), QuietStep
    PROVE  RungsHold(log') /\ \A cap : Replay(log', cap) = Replay(log, cap)
<1>1. IsSeq(log) /\ IsSeq(log')
  BY BaseLog DEF Base, Logged, LogOK, EventsUpTo
<1>2. CASE log' = log
  BY <1>2
<1>3. ASSUME NEW e, Adds(log', log, e), Quiet(e)
      PROVE  RungsHold(log') /\ \A cap : Replay(log', cap) = Replay(log, cap)
  BY <1>1, <1>3, QuietKeepsRungs
<1>4. QED
  BY <1>2, <1>3 DEF QuietStep

LEMMA QuietEmits ==
    ASSUME Base, NEW p, NEW kind, NEW body,
           kind \notin {"policy.decision", "tool.result", "rung.change", "capability.run"},
           Emit(p, kind, body) \/ Depart(p, kind, body)
    PROVE  QuietStep
<1>1. Adds(log', log, Stamped(run[p], seq[p], kind, body))
  BY EmitAdds, DepartAdds
<1>2. Quiet(Stamped(run[p], seq[p], kind, body))
  BY StampedFields DEF Quiet
<1>3. QED
  BY <1>1, <1>2 DEF QuietStep

LEMMA QuietOpens ==
    ASSUME Base, NEW p, NEW kinds \in {<<>>, <<"run.open">>}, NEW body, OpenRun(p, kinds, body)
    PROVE  QuietStep
<1> DEFINE e == Stamped(clock + 1, 0, "run.open", body)
<1>1. log' = log \/ log' = Append(log, e)
  BY OpenRunLogs DEF Base, Logged
<1>2. Adds(Append(log, e), log, e)
  BY BaseLog, AppendAdds
<1>3. Quiet(e)
  BY StampedFields DEF Quiet
<1>4. QED
  BY <1>1, <1>2, <1>3 DEF QuietStep

-----------------------------------------------------------------------------
(* The events that bear on rungs, each as it is appended *)

\* A decision on what the log has earned.
LEMMA DecisionHolds ==
    ASSUME NEW s, IsSeq(s), NEW t, IsSeq(t), NEW e, Adds(t, s, e), RungsHold(s),
           e.kind = "policy.decision", Results(s, e.body.request) = {},
           e.body.rule # "r-delegation" =>
              Decision(e.body.verdict, e.body.cap, e.body.rule, e.body.obligation) =
                 Decide(e.body.call, [cap \in CapId |-> EarnedRung(s, cap)])
    PROVE  RungsHold(t)
<1>1. /\ t[Len(s) + 1] = e
      /\ (Len(s) + 1) - 1 = Len(s)
  BY DEF Adds
<1>2. \A cap : RungIn(t, Len(s), cap) = EarnedRung(s, cap)
  BY WholePrefix
<1>3. [cap \in CapId |-> RungIn(t, Len(s), cap)] = [cap \in CapId |-> EarnedRung(s, cap)]
  BY <1>2
<1>4. DecidesAsReplayed(t, Len(s) + 1)
  BY <1>1, <1>3 DEF DecidesAsReplayed
<1>5. RungsHoldAt(t, Len(s) + 1)
  BY <1>1, <1>4 DEF RungsHoldAt
<1>6. QED
  BY <1>5, AddedKeepsRungs

\* A change of the rung the log has earned, down by one or, approved, up.
LEMMA ChangeHolds ==
    ASSUME NEW s, IsSeq(s), NEW t, IsSeq(t), NEW e, Adds(t, s, e), RungsHold(s),
           e.kind = "rung.change",
           e.body.from = EarnedRung(s, e.body.cap),
           e.body.trigger = "demotion" => HasDown(e.body.from) /\ e.body.to = Down(e.body.from),
           e.body.trigger = "earned" =>
              /\ PromotionEarned(Replay(s, e.body.cap))
              /\ e.body.to = Up(e.body.from)
              /\ Len(s) > 0
              /\ s[Len(s)].kind = "approval"
              /\ s[Len(s)].body.verdict = "approve"
              /\ s[Len(s)].body.approver = e.body.approver
              /\ e.body.approver \in Approvers
    PROVE  RungsHold(t)
<1>1. /\ t[Len(s) + 1] = e
      /\ (Len(s) + 1) - 1 = Len(s)
      /\ Len(s) \in Nat
      /\ Len(s) > 0 => t[Len(s)] = s[Len(s)] /\ Len(s) + 1 > 1
  BY DEF Adds, Extends
<1>2. \A cap : RungIn(t, Len(s), cap) = EarnedRung(s, cap)
  BY WholePrefix
<1>3. MovesOneRung(t, Len(s) + 1)
  BY <1>1, <1>2 DEF MovesOneRung, PromotionEarned, EarnedRung
<1>4. ASSUME e.body.trigger = "earned"
      PROVE  Cardinality(Clean(t, e.body.cap, Len(s))) >= RunsAtRung
  <2>1. Len(s) \in 0..Len(s)
    BY <1>1
  <2>2. Clean(t, e.body.cap, Len(s)) = Clean(s, e.body.cap, Len(s))
    BY <2>1, PrefixSame
  <2>3. Replay(s, e.body.cap).clean = Cardinality(Clean(s, e.body.cap, Len(s)))
    <3>1. CountsClean(Replay(s, e.body.cap), s, e.body.cap, Len(s))
      BY CleanCounted
    <3>2. \A n, state : state = [rung |-> state.rung, clean |-> n] => state.clean = n
      OBVIOUS
    <3>3. QED
      BY <3>1, <3>2 DEF CountsClean
  <2>4. QED
    BY <1>4, <2>2, <2>3 DEF PromotionEarned
<1>5. WasEarned(t, Len(s) + 1)
  BY <1>1, <1>4 DEF WasEarned
<1>6. RungsHoldAt(t, Len(s) + 1)
  BY <1>1, <1>3, <1>5 DEF RungsHoldAt
<1>7. QED
  BY <1>6, AddedKeepsRungs

\* The result of a call whose one decision is on the log, and a denial has cost
\* its rung by then or has none to cost.
LEMMA ResultHolds ==
    ASSUME NEW s, IsSeq(s), NEW t, IsSeq(t), NEW e, Adds(t, s, e), RungsHold(s),
           e.kind = "tool.result",
           NEW label \in {"denied", "refused", "held", "cleared", "done"}, NEW x,
           DecisionStands(s, label, x), e.body.request = x.request,
           \A c, d \in Decisions(s, x.request) : c = d,
           label = "denied" =>
              ~(/\ "policy.deny" \in Triggers
                /\ x.decision.cap # NoCap
                /\ HasDown(EarnedRung(s, x.decision.cap)))
    PROVE  RungsHold(t)
<1> DEFINE n == Len(s) + 1
           cap == x.decision.cap
<1>1. /\ t[n] = e
      /\ Len(s) \in Nat
      /\ \A i \in DOMAIN s : i \in DOMAIN t /\ t[i] = s[i] /\ i \in 0..Len(s)
      /\ \A i \in DOMAIN t : (i \in DOMAIN s /\ t[i] = s[i]) \/ t[i] = e
  BY DEF Adds, Extends
<1>2. PICK d \in Decisions(s, x.request) :
            /\ s[d].body.verdict = x.decision.verdict
            /\ s[d].body.cap = cap
            /\ label = "denied" => d = Len(s)
            /\ label = "refused" => EarnedRung(s, cap) = Down(RungIn(s, d, cap))
            /\ label \in {"held", "cleared", "done"} => x.decision.verdict # "deny"
  BY DEF DecisionStands
<1>3. d \in DOMAIN s /\ t[d] = s[d] /\ d \in 0..Len(s)
  BY <1>1, <1>2 DEF Decisions
<1>4. \A c \in Decisions(t, x.request) : c = d
  BY <1>1, <1>2 DEF Decisions
<1>5. RungIn(t, d, cap) = RungIn(s, d, cap)
  <2>1. SubSeq(t, 1, d) = SubSeq(s, 1, d)
    BY <1>3, PrefixSame
  <2>2. QED
    BY <2>1 DEF RungIn
<1>6. RungIn(t, n, cap) = EarnedRung(s, cap)
  <2>1. RungIn(t, n, cap) = EarnedRung(t, cap)
    BY WholePrefix
  <2>2. Replay(t, cap) = ReplayEvent(cap, Replay(s, cap), e)
    BY ReplayAdds
  <2>3. QED
    BY <2>1, <2>2 DEF ReplayEvent, EarnedRung
<1>7. label = "denied" => RungIn(s, d, cap) = EarnedRung(s, cap)
  <2>1. RungIn(t, Len(s), cap) = EarnedRung(s, cap)
    BY WholePrefix
  <2>2. QED
    BY <1>2, <1>5, <2>1
<1> HIDE DEF n, cap
<1>8. CostARung(t, n)
  <2>1. SUFFICES ASSUME s[d].body.verdict = "deny",
                        cap # NoCap,
                        "policy.deny" \in Triggers,
                        HasDown(RungIn(t, d, cap))
                 PROVE  RungIn(t, n, cap) = Down(RungIn(t, d, cap))
    BY <1>1, <1>2, <1>3, <1>4 DEF CostARung
  <2>2. label # "denied"
    BY <1>5, <1>7, <2>1 DEF cap
  <2>3. label = "refused"
    BY <1>2, <2>1, <2>2
  <2>4. QED
    BY <1>2, <1>5, <1>6, <2>3
<1>9. RungsHoldAt(t, n)
  BY <1>1, <1>8 DEF RungsHoldAt
<1>10. QED
  BY <1>9, AddedKeepsRungs DEF n

-----------------------------------------------------------------------------
(* The steps of a broker *)

\* What keeps a broker's call in its place keeps the decision on it.
LEMMA DecisionStandsOn ==
    ASSUME NEW s, NEW t, NEW e, Adds(t, s, e), NEW x, DecisionStands(s, "held", x),
           NEW y, y.request = x.request, y.decision = x.decision
    PROVE  DecisionStands(t, "cleared", y)
<1>1. PICK d \in Decisions(s, x.request) :
            /\ s[d].body.verdict = x.decision.verdict
            /\ s[d].body.cap = x.decision.cap
            /\ x.decision.verdict # "deny"
  BY DEF DecisionStands
<1>2. d \in Decisions(t, x.request) /\ t[d] = s[d]
  BY DEF Adds, Extends, Decisions
<1>3. QED
  BY <1>1, <1>2 DEF DecisionStands

LEMMA BrokerQuietSteps ==
    ASSUME Base, Base', RungsStand, NEW p \in Broker,
           \/ StartBroker(p)
           \/ \E t \in Tool : Register(p, t)
           \/ \E s \in Scopes : DelegateScope(p, s)
           \/ \E c \in Call : Request(p, c)
           \/ UseGrant(p)
           \/ Execute(p)
           \/ SealBroker(p)
           \/ KillBroker(p)
    PROVE  RungsHold(log') /\ DecisionStands(log', pc'[p], current'[p])
<1>0. /\ pc = [q \in Broker \cup Approver |-> pc[q]]
      /\ current \in [Broker -> CallType]
      /\ RungsHold(log) /\ DecisionStands(log, pc[p], current[p])
  BY DEF Base, Control, Typed, RungsStand
<1>1. SUFFICES QuietStep /\ DecisionStands(log', pc'[p], current'[p])
  BY <1>0, QuietStepKeeps
<1>2. ASSUME pc'[p] \in {"closed", "ready", "deciding"}
      PROVE  DecisionStands(log', pc'[p], current'[p])
  BY <1>2 DEF DecisionStands
<1>3. CASE StartBroker(p)
  <2>1. QuietStep
    BY <1>3, QuietOpens DEF StartBroker
  <2>2. pc'[p] = "ready"
    BY <1>0, <1>3 DEF StartBroker, Goto
  <2>3. QED
    BY <1>2, <2>1, <2>2
<1>4. CASE \E t \in Tool : Register(p, t)
  <2>1. PICK t \in Tool : Register(p, t)
    BY <1>4
  <2>2. \E body : Emit(p, "tool.register", body)
    BY <2>1 DEF Register
  <2>3. QuietStep
    BY <2>2, QuietEmits
  <2>4. pc'[p] = "ready"
    BY <2>1 DEF Register, At
  <2>5. QED
    BY <1>2, <2>3, <2>4
<1>5. CASE \E s \in Scopes : DelegateScope(p, s)
  <2>1. PICK s \in Scopes : DelegateScope(p, s)
    BY <1>5
  <2>2. \E body : Emit(p, "subagent.spawn", body)
    BY <2>1 DEF DelegateScope
  <2>3. QuietStep
    BY <2>2, QuietEmits
  <2>4. pc'[p] = "ready"
    BY <2>1 DEF DelegateScope, At
  <2>5. QED
    BY <1>2, <2>3, <2>4
<1>6. CASE \E c \in Call : Request(p, c)
  <2>1. PICK c \in Call : Request(p, c)
    BY <1>6
  <2>2. \E body : Emit(p, "tool.request", body)
    BY <2>1 DEF Request
  <2>3. QuietStep
    BY <2>2, QuietEmits
  <2>4. pc'[p] = "deciding"
    BY <1>0, <2>1 DEF Request, Goto
  <2>5. QED
    BY <1>2, <2>3, <2>4
<1>7. CASE UseGrant(p)
  <2>1. PICK body : Emit(p, "approval.use", body)
    BY <1>7 DEF UseGrant
  <2>2. QuietStep
    BY <2>1, QuietEmits
  <2>3. Adds(log', log, Stamped(run[p], seq[p], "approval.use", body))
    BY <2>1, EmitAdds
  <2>4. pc[p] = "held" /\ pc'[p] = "cleared"
    BY <1>0, <1>7 DEF UseGrant, At, Goto
  <2>5. current'[p].request = current[p].request /\ current'[p].decision = current[p].decision
    BY <1>0, <1>7 DEF UseGrant, CallType
  <2>6. QED
    BY <1>0, <2>2, <2>3, <2>4, <2>5, DecisionStandsOn
<1>8. CASE Execute(p)
  <2>1. log' = log /\ current' = current /\ pc[p] = "cleared" /\ pc'[p] = "done"
    BY <1>0, <1>8 DEF Execute, At, Goto, logVars
  <2>2. QED
    BY <1>0, <2>1 DEF DecisionStands, QuietStep
<1>9. CASE SealBroker(p)
  <2>1. \E body : Depart(p, "run.seal", body)
    BY <1>9 DEF SealBroker, SealRun
  <2>2. QuietStep
    BY <2>1, QuietEmits
  <2>3. pc'[p] = "closed"
    BY <1>0, <1>9 DEF SealBroker, Close, Goto
  <2>4. QED
    BY <1>2, <2>2, <2>3
<1>10. CASE KillBroker(p)
  <2>1. log' = log /\ pc'[p] = "closed"
    BY <1>0, <1>10 DEF KillBroker, Die, Exit, Close, Goto
  <2>2. QED
    BY <1>2, <2>1 DEF QuietStep
<1>11. QED
  BY <1>3, <1>4, <1>5, <1>6, <1>7, <1>8, <1>9, <1>10

\* Every way a call ends.
LEMMA ResultKeepsRungs ==
    ASSUME Base, Base', Accounts, RungsStand, NEW p \in Broker, NEW outcome, Result(p, outcome),
           Follows(view[p], log),
           \/ pc[p] \in {"refused", "held", "cleared", "done"}
           \/ pc[p] = "denied" /\ ~DemotionDue(p)
    PROVE  RungsHold(log') /\ DecisionStands(log', pc'[p], current'[p])
<1>1. /\ pc = [q \in Broker \cup Approver |-> pc[q]]
      /\ IsSeq(log) /\ IsSeq(log')
      /\ RungsHold(log) /\ DecisionStands(log, pc[p], current[p])
  BY BaseLog DEF Base, Control, RungsStand, Logged, LogOK, EventsUpTo
<1>2. PICK e :
          /\ Adds(log', log, e)
          /\ e.kind = "tool.result"
          /\ e.body = [request |-> current[p].request, outcome |-> outcome]
  BY EmitFields DEF Result
<1>3. e.body.request = current[p].request
  BY <1>2
<1>4. \A c, d \in Decisions(log, current[p].request) : c = d
  BY DEF Accounts, CallStands
<1>5. pc[p] = "denied" =>
          ~(/\ "policy.deny" \in Triggers
            /\ current[p].decision.cap # NoCap
            /\ HasDown(EarnedRung(log, current[p].decision.cap)))
  <2>1. EarnedRung(view[p], current[p].decision.cap) = EarnedRung(log, current[p].decision.cap)
    BY <1>1, FollowsReplay DEF EarnedRung
  <2>2. QED
    BY <2>1 DEF DemotionDue
<1>6. pc[p] \in {"denied", "refused", "held", "cleared", "done"}
  OBVIOUS
<1>7. RungsHold(log')
  BY <1>1, <1>2, <1>3, <1>4, <1>5, <1>6, ResultHolds
<1>8. pc'[p] = "ready"
  BY <1>1 DEF Result, Goto
<1>9. QED
  BY <1>7, <1>8 DEF DecisionStands

LEMMA DecisionKeepsRungs ==
    ASSUME Base, Base', Accounts, RungsStand, NEW p \in Broker, MakeDecision(p), Follows(view[p], log)
    PROVE  RungsHold(log') /\ DecisionStands(log', pc'[p], current'[p])
<1> DEFINE d == Decided(p)
           replayed == Decide(current[p].call, [cap \in CapId |-> EarnedRung(log, cap)])
<1>1. /\ pc = [q \in Broker \cup Approver |-> pc[q]]
      /\ current \in [Broker -> CallType]
      /\ IsSeq(log) /\ IsSeq(log')
      /\ RungsHold(log)
      /\ pc[p] = "deciding"
  BY BaseLog DEF Base, Control, Typed, RungsStand, Logged, LogOK, EventsUpTo, MakeDecision, At
<1>2. d \in DecisionType /\ replayed \in DecisionType
  BY DecidedType, DecideType
<1>3. d = replayed \/ d.rule = "r-delegation"
  <2>1. \A cap : EarnedRung(view[p], cap) = EarnedRung(log, cap)
    BY <1>1, FollowsReplay DEF EarnedRung
  <2>2. [cap \in CapId |-> EarnedRung(view[p], cap)] = [cap \in CapId |-> EarnedRung(log, cap)]
    BY <2>1
  <2>3. QED
    BY <2>2, Zenon DEF Decided, Decision
<1>4. /\ Emit(p, "policy.decision",
               [request |-> current[p].request, call |-> current[p].call, cap |-> d.cap,
                verdict |-> d.verdict, rule |-> d.rule, obligation |-> d.obligation])
      /\ current' = [current EXCEPT ![p].decision = d]
      /\ Goto(p, CASE d.verdict = "deny"  -> "denied"
                   [] d.verdict = "hold"  -> "held"
                   [] d.verdict = "allow" -> "cleared")
  BY DEF MakeDecision
<1> HIDE DEF d, replayed
<1>5. PICK e :
          /\ Adds(log', log, e)
          /\ e.kind = "policy.decision"
          /\ e.body = [request |-> current[p].request, call |-> current[p].call, cap |-> d.cap,
                       verdict |-> d.verdict, rule |-> d.rule, obligation |-> d.obligation]
  BY <1>4, EmitFields
<1>6. /\ e.body.request = current[p].request
      /\ e.body.call = current[p].call
      /\ e.body.cap = d.cap
      /\ e.body.verdict = d.verdict
      /\ e.body.rule = d.rule
      /\ e.body.obligation = d.obligation
  BY <1>5
<1>7. Results(log, current[p].request) = {}
  BY <1>1 DEF Accounts, CallStands
<1>8. e.body.rule # "r-delegation" =>
          Decision(e.body.verdict, e.body.cap, e.body.rule, e.body.obligation) = replayed
  <2>1. d = Decision(d.verdict, d.cap, d.rule, d.obligation)
    BY <1>2 DEF DecisionType, Decision
  <2>2. QED
    BY <1>3, <1>6, <2>1
<1>9. RungsHold(log')
  BY <1>1, <1>5, <1>6, <1>7, <1>8, DecisionHolds DEF replayed
<1>10. /\ current'[p].request = current[p].request
       /\ current'[p].decision = d
  BY <1>1, <1>4 DEF CallType
<1>11. Len(log) + 1 = Len(log')
  <2>1. DOMAIN log' = 1..(Len(log) + 1) /\ DOMAIN log' = 1..Len(log') /\ Len(log) + 1 \in Nat /\ Len(log') \in Nat
    BY <1>1, <1>5, SeqDomain DEF Adds
  <2>2. \A i, j \in Nat : 1..i = 1..j => i = j
    OBVIOUS
  <2>3. QED
    BY <2>1, <2>2
<1>12. Len(log) + 1 \in Decisions(log', current[p].request) /\ log'[Len(log) + 1] = e
  BY <1>5, <1>6 DEF Decisions, Adds
<1>13. /\ d.verdict = "deny" => pc'[p] = "denied"
       /\ d.verdict # "deny" => pc'[p] \in {"held", "cleared"}
  <2>1. d.verdict \in {"allow", "deny", "hold"}
    BY <1>2 DEF DecisionType, Actions
  <2>2. QED
    BY <1>1, <1>4, <2>1 DEF Goto
<1>14. DecisionStands(log', pc'[p], current'[p])
  BY <1>6, <1>10, <1>11, <1>12, <1>13 DEF DecisionStands
<1>15. QED
  BY <1>9, <1>14

LEMMA DemotionKeepsRungs ==
    ASSUME Base, Base', RungsStand, NEW p \in Broker, Demote(p), Follows(view[p], log)
    PROVE  RungsHold(log') /\ DecisionStands(log', pc'[p], current'[p])
<1> DEFINE cap == current[p].decision.cap
           from == EarnedRung(view[p], cap)
<1>1. /\ pc = [q \in Broker \cup Approver |-> pc[q]]
      /\ IsSeq(log) /\ IsSeq(log')
      /\ RungsHold(log) /\ DecisionStands(log, pc[p], current[p])
      /\ pc[p] = "denied" /\ pc'[p] = "refused"
      /\ current' = current
  BY BaseLog DEF Base, Control, RungsStand, Logged, LogOK, EventsUpTo, Demote, At, Goto
<1>2. Emit(p, "rung.change", RungChange(cap, from, Down(from), "demotion", "none")) /\ HasDown(from)
  BY DEF Demote, DemotionDue
<1>3. from = EarnedRung(log, cap)
  BY <1>1, FollowsReplay DEF EarnedRung
<1> HIDE DEF from, cap
<1>4. PICK e :
          /\ Adds(log', log, e)
          /\ e.kind = "rung.change"
          /\ e.body = RungChange(cap, from, Down(from), "demotion", "none")
  BY <1>2, EmitFields
<1>5. /\ e.body.cap = cap
      /\ e.body.from = from
      /\ e.body.to = Down(from)
      /\ e.body.trigger = "demotion"
  BY <1>4 DEF RungChange
<1>6. RungsHold(log')
  BY <1>1, <1>2, <1>3, <1>4, <1>5, ChangeHolds
<1>7. EarnedRung(log', cap) = Down(from)
  <2>1. Replay(log', cap) = ReplayEvent(cap, Replay(log, cap), e)
    BY <1>1, <1>4, ReplayAdds
  <2>2. QED
    BY <1>4, <1>5, <2>1 DEF ReplayEvent, EarnedRung
<1>8. PICK d \in Decisions(log, current[p].request) :
            /\ log[d].body.verdict = current[p].decision.verdict
            /\ log[d].body.cap = cap
            /\ d = Len(log)
  BY <1>1 DEF DecisionStands, cap
<1>9. d \in Decisions(log', current[p].request) /\ log'[d] = log[d]
  BY <1>4, <1>8 DEF Adds, Extends, Decisions
<1>10. RungIn(log', d, cap) = from
  <2>1. RungIn(log', Len(log), cap) = EarnedRung(log, cap)
    BY <1>1, <1>4, WholePrefix
  <2>2. QED
    BY <1>3, <1>8, <2>1
<1>11. DecisionStands(log', "refused", current[p])
  BY <1>7, <1>8, <1>9, <1>10 DEF DecisionStands, cap
<1>12. QED
  BY <1>1, <1>6, <1>11

LEMMA BrokerKeepsRungs ==
    ASSUME Base, Base', Accounts, RungsStand, NEW p \in Broker, BrokerStep(p),
           IsOpen(p) => Follows(view[p], log)
    PROVE  RungsHold(log') /\ DecisionStands(log', pc'[p], current'[p])
<1>1. pc[p] # "closed" => Follows(view[p], log)
  BY DEF Base, Control
<1>2. CASE MakeDecision(p)
  BY <1>1, <1>2, DecisionKeepsRungs DEF MakeDecision, At
<1>3. CASE Demote(p)
  BY <1>1, <1>3, DemotionKeepsRungs DEF Demote, At
<1>4. ASSUME NEW outcome, Result(p, outcome),
             \/ pc[p] \in {"refused", "held", "cleared", "done"}
             \/ pc[p] = "denied" /\ ~DemotionDue(p)
      PROVE  RungsHold(log') /\ DecisionStands(log', pc'[p], current'[p])
  BY <1>1, <1>4, ResultKeepsRungs
<1>5. CASE Refuse(p) \/ Block(p) \/ RefuseCredential(p) \/ FailToExecute(p) \/ Finish(p)
  BY <1>4, <1>5 DEF Refuse, Block, RefuseCredential, FailToExecute, Finish, At
<1>6. QED
  BY <1>2, <1>3, <1>5, BrokerQuietSteps DEF BrokerStep, CallStep

-----------------------------------------------------------------------------
(* The steps of an orchestrator *)

LEMMA EmittedEvent ==
    ASSUME Base, NEW p, NEW kind, NEW body, Emit(p, kind, body)
    PROVE  \E e : Adds(log', log, e) /\ e.kind = kind /\ e.body = body
BY EmitAdds, StampedFields

\* What is so before each of its steps.
LEMMA OrchestratorAt ==
    ASSUME Base, Base', RungsStand, NEW o \in Orchestrators
    PROVE  /\ stage = [q \in Orchestrators |-> stage[q]]
           /\ task \in [Orchestrators -> [cap : CapId \cup {NoCap}, promoter : Identity \cup {"none"}]]
           /\ IsSeq(log) /\ IsSeq(log')
           /\ RungsHold(log) /\ ChangeStands(log, stage[o], task[o])
BY BaseLog DEF Base, Control, Typed, RungsStand, Logged, LogOK, EventsUpTo

LEMMA OrchestratorQuietSteps ==
    ASSUME Base, Base', RungsStand, NEW o \in Orchestrators,
           \/ \E cap \in CapId : StartStep(o, cap)
           \/ \E verdict \in {"pass", "fail"} : Sense(o, verdict)
           \/ SealStep(o)
           \/ FailStep(o)
           \/ KillStep(o)
    PROVE  RungsHold(log') /\ ChangeStands(log', stage'[o], task'[o])
<1>0. /\ stage = [q \in Orchestrators |-> stage[q]]
      /\ RungsHold(log)
  BY OrchestratorAt
<1>1. SUFFICES QuietStep /\ stage'[o] \in {"closed", "sensing", "clean", "failed"}
  BY <1>0, QuietStepKeeps DEF ChangeStands
<1>2. CASE \E cap \in CapId : StartStep(o, cap)
  <2>1. PICK cap \in CapId : StartStep(o, cap)
    BY <1>2
  <2>2. QuietStep
    BY <2>1, QuietOpens DEF StartStep
  <2>3. stage'[o] = "sensing"
    BY <1>0, <2>1 DEF StartStep, MoveTo
  <2>4. QED
    BY <2>2, <2>3
<1>3. CASE \E verdict \in {"pass", "fail"} : Sense(o, verdict)
  <2>1. PICK verdict \in {"pass", "fail"} : Sense(o, verdict)
    BY <1>3
  <2>2. \E body : Emit(o, "sensor.verdict", body)
    BY <2>1 DEF Sense
  <2>3. QuietStep
    BY <2>2, QuietEmits
  <2>4. stage'[o] \in {"clean", "failed"}
    BY <1>0, <2>1 DEF Sense, MoveTo
  <2>5. QED
    BY <2>3, <2>4
<1>4. CASE SealStep(o)
  <2>1. \E body : Depart(o, "run.seal", body)
    BY <1>4 DEF SealStep, SealRun
  <2>2. QuietStep
    BY <2>1, QuietEmits
  <2>3. stage'[o] = "closed"
    BY <1>0, <1>4 DEF SealStep, EndStep, MoveTo
  <2>4. QED
    BY <2>2, <2>3
<1>5. CASE FailStep(o) \/ KillStep(o)
  <2>1. log' = log /\ stage'[o] = "closed"
    BY <1>0, <1>5 DEF FailStep, KillStep, Die, Exit, EndStep, MoveTo
  <2>2. QED
    BY <2>1 DEF QuietStep
<1>6. QED
  BY <1>2, <1>3, <1>4, <1>5

\* The outcome of its sensor.
LEMMA RecordKeepsRungs ==
    ASSUME Base, Base', RungsStand, NEW o \in Orchestrators, RecordFailure(o) \/ RecordClean(o),
           Follows(view[o], log), Follows(view'[o], log')
    PROVE  RungsHold(log') /\ ChangeStands(log', stage'[o], task'[o])
<1> DEFINE cap == task[o].cap
<1>0. /\ stage = [q \in Orchestrators |-> stage[q]]
      /\ IsSeq(log) /\ IsSeq(log')
      /\ RungsHold(log)
  BY OrchestratorAt
<1>1. PICK outcome : RecordRun(o, outcome) /\ (RecordFailure(o) => outcome = "sensor.fail")
  BY DEF RecordFailure, RecordClean
<1>2. PICK e :
          /\ Adds(log', log, e)
          /\ e.kind = "capability.run"
          /\ e.body = [cap |-> cap, rung |-> Before(o), outcome |-> outcome]
  BY <1>1, EmittedEvent DEF RecordRun
<1>3. RungsHold(log')
  <2>1. log'[Len(log) + 1] = e
    BY <1>2 DEF Adds
  <2>2. RungsHoldAt(log', Len(log) + 1)
    BY <1>2, <2>1 DEF RungsHoldAt
  <2>3. QED
    BY <1>0, <1>2, <2>2, AddedKeepsRungs
<1>4. task' = task
  BY DEF RecordFailure, RecordClean
<1>5. CASE RecordFailure(o)
  <2>1. EarnedRung(log', cap) = EarnedRung(log, cap)
    <3>1. Replay(log', cap) = ReplayEvent(cap, Replay(log, cap), e)
      BY <1>0, <1>2, ReplayAdds
    <3>2. e.body.cap = cap /\ e.body.outcome = "sensor.fail"
      BY <1>1, <1>2, <1>5
    <3>3. Replay(log', cap) = [Replay(log, cap) EXCEPT !.clean = 0]
      BY <1>2, <3>1, <3>2 DEF ReplayEvent
    <3>4. Replay(log, cap) =
             [rung |-> Replay(log, cap).rung, clean |-> Cardinality(Clean(log, cap, Len(log)))]
      BY <1>0, CleanCounted DEF CountsClean
    <3>5. QED
      BY <3>3, <3>4 DEF EarnedRung
  <2>2. Before(o) = EarnedRung(log, cap)
    BY <1>0, FollowsReplay DEF Before, EarnedRung
  <2>3. stage'[o] = "sealing" \/ (stage'[o] = "demoting" /\ HasDown(Before(o)))
    BY <1>0, <1>5 DEF RecordFailure, MoveTo
  <2>4. ChangeStands(log', stage'[o], task[o])
    BY <2>1, <2>2, <2>3 DEF ChangeStands
  <2>5. QED
    BY <1>3, <1>4, <2>4
<1>6. CASE RecordClean(o)
  <2>1. \/ stage'[o] = "sealing"
        \/ stage'[o] = "promoting" /\ PromotionEarned(Replay(view'[o], cap))
    BY <1>0, <1>6 DEF RecordClean, MoveTo
  <2>2. Replay(view'[o], cap) = Replay(log', cap)
    BY <1>0, FollowsReplay
  <2>3. ChangeStands(log', stage'[o], task[o])
    BY <2>1, <2>2 DEF ChangeStands
  <2>4. QED
    BY <1>3, <1>4, <2>3
<1>7. QED
  BY <1>5, <1>6

\* The approval of a promotion.
LEMMA ApprovalKeepsRungs ==
    ASSUME Base, Base', RungsStand, NEW o \in Orchestrators, NEW who, ApprovePromotion(o, who)
    PROVE  RungsHold(log') /\ ChangeStands(log', stage'[o], task'[o])
<1>0. /\ stage = [q \in Orchestrators |-> stage[q]]
      /\ task \in [Orchestrators -> [cap : CapId \cup {NoCap}, promoter : Identity \cup {"none"}]]
      /\ IsSeq(log) /\ IsSeq(log')
      /\ RungsHold(log) /\ ChangeStands(log, stage[o], task[o])
      /\ stage[o] = "promoting" /\ stage'[o] = "promoted"
  BY OrchestratorAt DEF ApprovePromotion, MoveTo
<1> DEFINE body == Approval(<<NoRun, 0>>, "approve", "none", "none", who, <<NoRun, 0>>)
<1>1. Emit(o, "approval", body)
  BY DEF ApprovePromotion
<1>2. body.verdict = "approve" /\ body.approver = who
  BY DEF Approval
<1> HIDE DEF body
<1>3. PICK e : Adds(log', log, e) /\ e.kind = "approval" /\ e.body = body
  BY <1>1, EmittedEvent
<1>4. Quiet(e)
  BY <1>3 DEF Quiet
<1>5. RungsHold(log') /\ \A cap : Replay(log', cap) = Replay(log, cap)
  BY <1>3, <1>4, QuietStepKeeps, <1>0 DEF QuietStep
<1>6. task'[o].cap = task[o].cap /\ task'[o].promoter = who /\ who \in Approvers
  BY <1>0 DEF ApprovePromotion
<1>7. Len(log') = Len(log) + 1 /\ Len(log) \in Nat
  <2>1. DOMAIN log' = 1..(Len(log) + 1) /\ DOMAIN log' = 1..Len(log') /\ Len(log) + 1 \in Nat
        /\ Len(log') \in Nat /\ Len(log) \in Nat
    BY <1>0, <1>3, SeqDomain DEF Adds
  <2>2. \A i, j \in Nat : 1..i = 1..j => i = j
    OBVIOUS
  <2>3. QED
    BY <2>1, <2>2
<1>8. log'[Len(log')] = e /\ Len(log') > 0
  BY <1>3, <1>7 DEF Adds
<1>9. ChangeStands(log', "promoted", task'[o])
  BY <1>0, <1>2, <1>3, <1>5, <1>6, <1>8 DEF ChangeStands
<1>10. QED
  BY <1>0, <1>5, <1>9

\* The change itself, down or up.
LEMMA ChangeKeepsRungs ==
    ASSUME Base, Base', RungsStand, NEW o \in Orchestrators, DemoteOnFailure(o) \/ Promote(o),
           Follows(view[o], log)
    PROVE  RungsHold(log') /\ ChangeStands(log', stage'[o], task'[o])
<1> DEFINE cap == task[o].cap
           from == Before(o)
<1>0. /\ stage = [q \in Orchestrators |-> stage[q]]
      /\ IsSeq(log) /\ IsSeq(log')
      /\ RungsHold(log) /\ ChangeStands(log, stage[o], task[o])
  BY OrchestratorAt
<1>1. from = EarnedRung(log, cap)
  BY <1>0, FollowsReplay DEF Before, EarnedRung
<1>2. stage'[o] = "sealing"
  BY <1>0 DEF DemoteOnFailure, Promote, MoveTo
<1>3. CASE DemoteOnFailure(o)
  <2>1. Emit(o, "rung.change", RungChange(cap, from, Down(from), "demotion", "none"))
    BY <1>3 DEF DemoteOnFailure
  <2>2. HasDown(from)
    BY <1>0, <1>1, <1>3 DEF DemoteOnFailure, ChangeStands
  <2> HIDE DEF cap, from
  <2>3. PICK e :
            /\ Adds(log', log, e)
            /\ e.kind = "rung.change"
            /\ e.body = RungChange(cap, from, Down(from), "demotion", "none")
    BY <2>1, EmittedEvent
  <2>4. /\ e.body.cap = cap
        /\ e.body.from = from
        /\ e.body.to = Down(from)
        /\ e.body.trigger = "demotion"
    BY <2>3 DEF RungChange
  <2>5. QED
    BY <1>0, <1>1, <1>2, <2>2, <2>3, <2>4, ChangeHolds DEF ChangeStands
<1>4. CASE Promote(o)
  <2>1. Emit(o, "rung.change", RungChange(cap, from, Up(from), "earned", task[o].promoter))
    BY <1>4 DEF Promote
  <2>2. /\ PromotionEarned(Replay(log, cap))
        /\ Len(log) > 0
        /\ log[Len(log)].kind = "approval"
        /\ log[Len(log)].body.verdict = "approve"
        /\ log[Len(log)].body.approver = task[o].promoter
        /\ task[o].promoter \in Approvers
    BY <1>0, <1>4 DEF Promote, ChangeStands
  <2> HIDE DEF cap, from
  <2>3. PICK e :
            /\ Adds(log', log, e)
            /\ e.kind = "rung.change"
            /\ e.body = RungChange(cap, from, Up(from), "earned", task[o].promoter)
    BY <2>1, EmittedEvent
  <2>4. /\ e.body.cap = cap
        /\ e.body.from = from
        /\ e.body.to = Up(from)
        /\ e.body.trigger = "earned"
        /\ e.body.approver = task[o].promoter
    BY <2>3 DEF RungChange
  <2>5. QED
    BY <1>0, <1>1, <1>2, <2>2, <2>3, <2>4, ChangeHolds DEF ChangeStands
<1>5. QED
  BY <1>3, <1>4

LEMMA OrchestratorKeepsRungs ==
    ASSUME Base, Base', RungsStand, NEW o \in Orchestrators, OrchestratorStep(o),
           IsOpen(o) => Follows(view[o], log), IsOpen(o)' => Follows(view'[o], log')
    PROVE  RungsHold(log') /\ ChangeStands(log', stage'[o], task'[o])
<1>1. /\ stage = [q \in Orchestrators |-> stage[q]]
      /\ stage[o] # "closed" => Follows(view[o], log)
      /\ stage'[o] # "closed" => Follows(view'[o], log')
  BY DEF Base, Control
<1>2. CASE RecordFailure(o) \/ RecordClean(o)
  <2>1. stage[o] # "closed" /\ stage'[o] # "closed"
    BY <1>1, <1>2 DEF RecordFailure, RecordClean, MoveTo
  <2>2. QED
    BY <1>1, <1>2, <2>1, RecordKeepsRungs
<1>3. CASE DemoteOnFailure(o) \/ Promote(o)
  BY <1>1, <1>3, ChangeKeepsRungs DEF DemoteOnFailure, Promote
<1>4. CASE \E who \in Identity : ApprovePromotion(o, who)
  BY <1>4, ApprovalKeepsRungs
<1>5. QED
  BY <1>2, <1>3, <1>4, OrchestratorQuietSteps DEF OrchestratorStep

-----------------------------------------------------------------------------
(* Every step *)

LEMMA ApproverKeepsRungs ==
    ASSUME Base, Base', RungsStand, NEW p \in Approver, ApproverStep(p)
    PROVE  RungsHold(log')
<1>1. SUFFICES QuietStep
  BY QuietStepKeeps DEF RungsStand
<1>2. CASE StartApprove(p)
  BY <1>2, QuietOpens DEF StartApprove
<1>3. CASE \E r \in Requested, v \in {"approve", "deny"}, who \in Identity : Answer(p, r, v, who)
  <2>1. \E body : Emit(p, "approval", body)
    BY <1>3 DEF Answer
  <2>2. QED
    BY <2>1, QuietEmits
<1>4. CASE SealApprove(p)
  <2>1. \E body : Depart(p, "run.seal", body)
    BY <1>4 DEF SealApprove, SealRun
  <2>2. QED
    BY <2>1, QuietEmits
<1>5. CASE RefuseApprove(p) \/ KillApprove(p)
  BY <1>5 DEF RefuseApprove, KillApprove, Die, Exit, QuietStep
<1>6. QED
  BY <1>2, <1>3, <1>4, <1>5 DEF ApproverStep

\* What the rungs rest on: one process at a time, with the log in memory.
RungsInv == Accounts /\ AllAlone /\ Current /\ RungsStand

\* A process that has no run open is nowhere.
LEMMA ClosedStands ==
    ASSUME Base
    PROVE  /\ \A q \in Broker : ~IsOpen(q) => DecisionStands(log, pc[q], current[q])
           /\ \A o \in Orchestrators : ~IsOpen(o) => ChangeStands(log, stage[o], task[o])
BY DEF Base, Control, DecisionStands, ChangeStands

LEMMA StepKeepsAlone ==
    ASSUME OneByOne, Base, AllAlone, Current, NEW p \in Process, LogStep(p),
           IsOpen(p) \/ \E kinds, body : OpenRun(p, kinds, body)
    PROVE  /\ AllAlone' /\ Current'
           /\ IsOpen(p)' => Follows(view'[p], log')
           /\ \A q \in Process : q # p => ~IsOpen(q)'
<1>1. Only(p)' /\ (IsOpen(p)' => Follows(view'[p], log'))
  BY StepAlone
<1>2. \A q \in Process : q # p => ~IsOpen(q)'
  BY <1>1 DEF Only
<1>3. QED
  BY <1>1, <1>2 DEF AllAlone, Current

LEMMA NextKeepsRungs ==
    ASSUME OneByOne, Base, RungsInv, [Next]_vars
    PROVE  RungsInv'
<1>0. /\ Base' /\ Accounts'
      /\ Accounts /\ AllAlone /\ Current /\ RungsStand
      /\ Broker \subseteq Process /\ Approver \subseteq Process /\ Orchestrators \subseteq Process
      /\ Orchestrators \cap (Broker \cup Approver) = {} /\ Broker \cap Approver = {}
      /\ Logged /\ Control
  BY NextKeepsBase, NextKeepsAccounts, BrokerAssumption, OrchestratorAssumption, HarnessAssumption
     DEF RungsInv, Base
<1>1. /\ \A q \in Broker : ~IsOpen(q)' => DecisionStands(log', pc'[q], current'[q])
      /\ \A o \in Orchestrators : ~IsOpen(o)' => ChangeStands(log', stage'[o], task'[o])
  BY <1>0 DEF Base, Control, DecisionStands, ChangeStands
<1>2. ASSUME NEW p \in Broker, BrokerStep(p)
      PROVE  RungsInv'
  <2>1. LogStep(p) /\ (IsOpen(p) \/ \E kinds, body : OpenRun(p, kinds, body)) /\ p \in Process
    BY <1>0, <1>2, BrokerLogSteps, BrokerActsOpen
  <2>2. AllAlone' /\ Current' /\ \A q \in Process : q # p => ~IsOpen(q)'
    BY <1>0, <2>1, StepKeepsAlone
  <2>3. RungsHold(log') /\ DecisionStands(log', pc'[p], current'[p])
    BY <1>0, <1>2, <2>1, BrokerKeepsRungs DEF Current
  <2>4. RungsStand'
    BY <1>0, <1>1, <2>2, <2>3 DEF RungsStand
  <2>5. QED
    BY <1>0, <2>2, <2>4 DEF RungsInv
<1>3. ASSUME NEW p \in Approver, ApproverStep(p)
      PROVE  RungsInv'
  <2>1. LogStep(p) /\ (IsOpen(p) \/ \E kinds, body : OpenRun(p, kinds, body)) /\ p \in Process
    BY <1>0, <1>3, ApproverLogSteps, ApproverActsOpen
  <2>2. AllAlone' /\ Current' /\ \A q \in Process : q # p => ~IsOpen(q)'
    BY <1>0, <2>1, StepKeepsAlone
  <2>3. RungsHold(log')
    BY <1>0, <1>3, ApproverKeepsRungs
  <2>4. RungsStand'
    BY <1>0, <1>1, <2>2, <2>3 DEF RungsStand
  <2>5. QED
    BY <1>0, <2>2, <2>4 DEF RungsInv
<1>4. ASSUME NEW o \in Orchestrators, OrchestratorStep(o)
      PROVE  RungsInv'
  <2>1. LogStep(o) /\ (IsOpen(o) \/ \E kinds, body : OpenRun(o, kinds, body)) /\ o \in Process
    BY <1>0, <1>4, OrchestratorLogSteps, OrchestratorActsOpen
  <2>2. /\ AllAlone' /\ Current' /\ \A q \in Process : q # o => ~IsOpen(q)'
        /\ IsOpen(o)' => Follows(view'[o], log')
    BY <1>0, <2>1, StepKeepsAlone
  <2>3. RungsHold(log') /\ ChangeStands(log', stage'[o], task'[o])
    BY <1>0, <1>4, <2>1, <2>2, OrchestratorKeepsRungs DEF Current
  <2>4. RungsStand'
    BY <1>0, <1>1, <2>2, <2>3 DEF RungsStand
  <2>5. QED
    BY <1>0, <2>2, <2>4 DEF RungsInv
<1>5. ASSUME NEW i \in DOMAIN log, Expire(i)
      PROVE  RungsInv'
  <2>1. /\ \A p \in Process : ~IsOpen(p)
        /\ run' = run
        /\ log' = Append(log, Stamped(NoRun, 0, "retention.expire", [event |-> i]))
    BY <1>5 DEF Expire
  <2>2. \A p \in Process : ~IsOpen(p)'
    BY <2>1 DEF IsOpen
  <2>3. Adds(log', log, Stamped(NoRun, 0, "retention.expire", [event |-> i]))
    BY <2>1, BaseLog, AppendAdds
  <2>4. Quiet(Stamped(NoRun, 0, "retention.expire", [event |-> i]))
    BY StampedFields DEF Quiet
  <2>5. RungsHold(log')
    BY <1>0, <2>3, <2>4, QuietStepKeeps DEF QuietStep, RungsStand
  <2>6. QED
    BY <1>0, <1>1, <2>2, <2>5 DEF RungsInv, RungsStand, AllAlone, Current
<1>6. CASE UNCHANGED vars
  BY <1>0, <1>6 DEF vars, logVars, brokerVars, orchestratorVars, RungsInv, AllAlone, Current,
                    RungsStand, IsOpen
<1>7. QED
  BY <1>2, <1>3, <1>4, <1>5, <1>6 DEF Next, BrokerNext, OrchestratorNext

\* The log earlier runs left accounts for them, and its rungs hold.
RecordedRungs == RecordedAccounts /\ RungsHold(Recorded)

LEMMA NoRungsRecorded == Recorded = <<>> => RecordedRungs
BY NoEventsSeq, NothingRecorded DEF RecordedRungs, RungsHold

LEMMA InitRungs ==
    ASSUME RecordedRungs, Init
    PROVE  Base /\ RungsInv
<1>1. Base /\ Accounts
  <2>1. Base /\ \A p \in Broker : ~IsOpen(p) /\ pc[p] = "closed"
    BY InitBase, BrokerAssumption DEF Init, BrokerInit, Base, Control
  <2>2. log = Recorded /\ \A p \in Process : ~IsOpen(p)
    BY DEF Init, LogInit, IsOpen
  <2>3. \A p \in Broker : reviews[p] = 0
    BY DEF Init, BrokerInit
  <2>4. QED
    BY <2>1, <2>2, <2>3 DEF RecordedRungs, RecordedAccounts, Accounts, CallStands, ReviewsCounted
<1>2. log = Recorded /\ \A p \in Process : ~IsOpen(p)
  BY DEF Init, LogInit, IsOpen
<1>3. RungsStand
  BY <1>1, <1>2, ClosedStands, BrokerAssumption, OrchestratorAssumption DEF RungsStand, RecordedRungs
<1>4. QED
  BY <1>1, <1>2, <1>3 DEF RungsInv, AllAlone, Current

\* When commands run one after another, as the command line is used, and what
\* earns a rung does not expire:

\* every decision on the log, but for those of a delegated grant, is what a
\* reader computes from the policy and the log before it;
THEOREM DecisionsReplay == OneByOne /\ RecordedRungs /\ Spec => []DecisionIsReplayable
<1>1. CASE OneByOne /\ RecordedRungs
  <2>1. Init => Base /\ RungsInv
    BY <1>1, InitRungs
  <2>2. Base /\ RungsInv /\ [Next]_vars => (Base /\ RungsInv)'
    BY <1>1, NextKeepsBase, NextKeepsRungs
  <2>3. Base /\ RungsInv => DecisionIsReplayable
    BY RungsHoldSaid DEF RungsInv, RungsStand
  <2>4. QED
    BY <2>1, <2>2, <2>3, PTL DEF Spec
<1>2. QED
  BY <1>1

\* every change of a rung starts from the rung the log replays to and is one
\* step long;
THEOREM ChangesAreOneRung == OneByOne /\ RecordedRungs /\ Spec => []ChangeMovesOneRung
<1>1. CASE OneByOne /\ RecordedRungs
  <2>1. Init => Base /\ RungsInv
    BY <1>1, InitRungs
  <2>2. Base /\ RungsInv /\ [Next]_vars => (Base /\ RungsInv)'
    BY <1>1, NextKeepsBase, NextKeepsRungs
  <2>3. Base /\ RungsInv => ChangeMovesOneRung
    BY RungsHoldSaid DEF RungsInv, RungsStand
  <2>4. QED
    BY <2>1, <2>2, <2>3, PTL DEF Spec
<1>2. QED
  BY <1>1

\* a promotion has on the log before it the clean runs that earn it, none of
\* them from before the last change or failure, and a permitted approval;
THEOREM PromotionsAreEarned == OneByOne /\ RecordedRungs /\ Spec => []PromotionIsEarned
<1>1. CASE OneByOne /\ RecordedRungs
  <2>1. Init => Base /\ RungsInv
    BY <1>1, InitRungs
  <2>2. Base /\ RungsInv /\ [Next]_vars => (Base /\ RungsInv)'
    BY <1>1, NextKeepsBase, NextKeepsRungs
  <2>3. Base /\ RungsInv => PromotionIsEarned
    BY RungsHoldSaid DEF RungsInv, RungsStand
  <2>4. QED
    BY <2>1, <2>2, <2>3, PTL DEF Spec
<1>2. QED
  BY <1>1

\* and a denial that has its result has cost a rung, if there was one to lose.
THEOREM DenialsNarrow == OneByOne /\ RecordedRungs /\ Spec => []DenialNarrows
<1>1. CASE OneByOne /\ RecordedRungs
  <2>1. Init => Base /\ RungsInv
    BY <1>1, InitRungs
  <2>2. Base /\ RungsInv /\ [Next]_vars => (Base /\ RungsInv)'
    BY <1>1, NextKeepsBase, NextKeepsRungs
  <2>3. Base /\ RungsInv => DenialNarrows
    BY RungsHoldSaid DEF RungsInv, RungsStand
  <2>4. QED
    BY <2>1, <2>2, <2>3, PTL DEF Spec
<1>2. QED
  BY <1>1

=============================================================================
