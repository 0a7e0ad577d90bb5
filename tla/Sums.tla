-------------------------------- MODULE Sums --------------------------------
(***************************************************************************)
(* Sums over finite sets, as the community modules define them: a fold     *)
(* that takes the elements in some order.  The order does not matter, and  *)
(* the sum of the sizes of the parts is the size of the whole.             *)
(***************************************************************************)
EXTENDS Functions, FiniteSetTheorems, WellFoundedInduction, TLAPS

\* The function on the subsets of I that a sum of f is defined by.
Summing(g, f, I) ==
    g = [T \in SUBSET I |->
            IF T = {} THEN 0
            ELSE LET x == CHOOSE y \in T : TRUE IN f[x] + g[T \ {x}]]

\* A set of numbers that is not empty has a least one.
LEMMA HasLeast ==
    ASSUME NEW I, I \subseteq Nat, I # {}
    PROVE  \E x \in I : \A i \in I : x <= i
<1> DEFINE R == OpToRel(<, Nat)
<1>1. \A i, j \in Nat : <<i, j>> \in R <=> i < j
  BY DEF OpToRel
<1>2. IsWellFoundedOn(R, Nat)
  BY NatLessThanWellFounded
<1> HIDE DEF R
<1>3. PICK x \in I : \A y \in I : ~(<<y, x>> \in R)
  BY <1>2, WFMin
<1>4. ASSUME NEW y \in I
      PROVE  x <= y
  <2>1. x \in Nat /\ y \in Nat /\ ~(y < x)
    BY <1>1, <1>3
  <2> QED
    BY <2>1
<1> QED
  BY <1>4

\* A family of finite sets that is not empty has one of least size.
LEMMA HasSmallest ==
    ASSUME NEW F, F # {}, \A T \in F : IsFiniteSet(T)
    PROVE  \E T \in F : \A U \in F : Cardinality(T) <= Cardinality(U)
<1> DEFINE I == {Cardinality(T) : T \in F}
<1>1. I \subseteq Nat /\ I # {}
  BY FS_CardinalityType
<1>2. PICK n \in I : \A i \in I : n <= i
  BY <1>1, HasLeast
<1> QED
  BY <1>2

\* A function that sums, but only over the sets of at most n elements.
SumsUpTo(g, f, I, n) ==
    /\ g = [T \in SUBSET I |-> g[T]]
    /\ g[{}] = 0
    /\ \A T \in SUBSET I :
          T # {} /\ Cardinality(T) <= n =>
              g[T] = f[CHOOSE y \in T : TRUE] + g[T \ {CHOOSE y \in T : TRUE}]

LEMMA SumsOneMore ==
    ASSUME NEW f, NEW I, IsFiniteSet(I), NEW n \in Nat, NEW g, SumsUpTo(g, f, I, n)
    PROVE  \E h : SumsUpTo(h, f, I, n + 1)
<1> DEFINE pick(T) == CHOOSE y \in T : TRUE
           h == [T \in SUBSET I |->
                    IF T = {} \/ Cardinality(T) <= n THEN g[T] ELSE f[pick(T)] + g[T \ {pick(T)}]]
<1>1. ASSUME NEW T \in SUBSET I, T # {}, Cardinality(T) <= n + 1
      PROVE  h[T] = f[pick(T)] + h[T \ {pick(T)}]
  <2>1. pick(T) \in T /\ IsFiniteSet(T) /\ T \ {pick(T)} \in SUBSET I
    BY <1>1, FS_Subset
  <2>2. Cardinality(T) \in Nat /\ Cardinality(T \ {pick(T)}) = Cardinality(T) - 1
    BY <2>1, FS_RemoveElement, FS_CardinalityType
  <2>3. h[T \ {pick(T)}] = g[T \ {pick(T)}]
    <3>1. Cardinality(T \ {pick(T)}) <= n
      BY <1>1, <2>2
    <3> QED
      BY <2>1, <3>1
  <2>4. CASE Cardinality(T) <= n
    <3>1. h[T] = g[T] /\ g[T] = f[pick(T)] + g[T \ {pick(T)}]
      BY <1>1, <2>4 DEF SumsUpTo
    <3> QED
      BY <2>3, <3>1
  <2>5. CASE ~(Cardinality(T) <= n)
    <3>1. h[T] = f[pick(T)] + g[T \ {pick(T)}]
      BY <1>1, <2>5
    <3> QED
      BY <2>3, <3>1
  <2> QED
    BY <2>4, <2>5
<1>2. h[{}] = 0 /\ h = [T \in SUBSET I |-> h[T]]
  BY DEF SumsUpTo
<1>3. SumsUpTo(h, f, I, n + 1)
  <2> HIDE DEF h
  <2> QED
    BY <1>1, <1>2 DEF SumsUpTo
<1> QED
  BY <1>3

LEMMA SumsAnyNumber ==
    ASSUME NEW f, NEW I, IsFiniteSet(I)
    PROVE  \A n \in Nat : \E g : SumsUpTo(g, f, I, n)
<1> DEFINE Bad == {n \in Nat : ~\E g : SumsUpTo(g, f, I, n)}
<1>1. SUFFICES Bad = {}
  OBVIOUS
<1>2. SUFFICES ASSUME Bad # {} PROVE FALSE
  OBVIOUS
<1>3. PICK m \in Bad : \A n \in Bad : m <= n
  <2>1. Bad \subseteq Nat
    OBVIOUS
  <2> HIDE DEF Bad
  <2> QED
    BY <1>2, <2>1, HasLeast
<1>4. CASE m = 0
  <2> DEFINE g == [T \in SUBSET I |-> 0]
  <2>1. \A T \in SUBSET I : T # {} => ~(Cardinality(T) <= 0)
    <3> SUFFICES ASSUME NEW T \in SUBSET I, T # {} PROVE ~(Cardinality(T) <= 0)
      OBVIOUS
    <3>1. Cardinality(T) \in Nat /\ Cardinality(T) # 0
      BY FS_Subset, FS_CardinalityType, FS_EmptySet
    <3> QED
      BY <3>1
  <2>2. SumsUpTo(g, f, I, 0)
    BY <2>1 DEF SumsUpTo
  <2> QED
    BY <1>3, <1>4, <2>2
<1>5. CASE m # 0
  <2>1. m - 1 \in Nat /\ m - 1 \notin Bad /\ (m - 1) + 1 = m
    BY <1>3, <1>5
  <2>2. PICK g : SumsUpTo(g, f, I, m - 1)
    BY <2>1
  <2>3. \E h : SumsUpTo(h, f, I, m)
    BY <2>1, <2>2, SumsOneMore
  <2> QED
    BY <1>3, <2>3
<1> QED
  BY <1>4, <1>5

LEMMA SummingExists ==
    ASSUME NEW f, NEW I, IsFiniteSet(I)
    PROVE  \E g : Summing(g, f, I)
<1>1. Cardinality(I) \in Nat
  BY FS_CardinalityType
<1>2. PICK g : SumsUpTo(g, f, I, Cardinality(I))
  BY <1>1, SumsAnyNumber
<1>3. \A T \in SUBSET I : Cardinality(T) <= Cardinality(I)
  BY FS_Subset
<1>4. \A T \in SUBSET I :
          g[T] = IF T = {} THEN 0
                 ELSE f[CHOOSE y \in T : TRUE] + g[T \ {CHOOSE y \in T : TRUE}]
  BY <1>2, <1>3 DEF SumsUpTo
<1>5. Summing(g, f, I)
  BY <1>2, <1>4 DEF SumsUpTo, Summing
<1> QED
  BY <1>5

LEMMA SumIsFold ==
    ASSUME NEW f
    PROVE  SumFunction(f) = (CHOOSE g : Summing(g, f, DOMAIN f))[DOMAIN f]
BY DEF SumFunction, SumFunctionOnSet, FoldFunctionOnSet, MapThenFoldSet, Summing


\* What a sum takes first does not matter.
LEMMA SumTakesAny ==
    ASSUME NEW f, NEW I, IsFiniteSet(I), \A i \in I : f[i] \in Nat, NEW g, Summing(g, f, I)
    PROVE  /\ g[{}] = 0
           /\ \A T \in SUBSET I :
                 g[T] \in Nat /\ \A y \in T : g[T] = f[y] + g[T \ {y}]
<1> DEFINE pick(T) == CHOOSE y \in T : TRUE
           Right(T) == g[T] \in Nat /\ \A y \in T : g[T] = f[y] + g[T \ {y}]
           Wrong == {T \in SUBSET I : ~Right(T)}
<1>1. /\ g[{}] = 0
      /\ \A T \in SUBSET I : T # {} => pick(T) \in T /\ g[T] = f[pick(T)] + g[T \ {pick(T)}]
  BY DEF Summing
<1> HIDE DEF pick
<1>2. SUFFICES ASSUME Wrong # {} PROVE FALSE
  BY <1>1
<1>3. \A T \in SUBSET I : IsFiniteSet(T) /\ Cardinality(T) \in Nat
  BY FS_Subset, FS_CardinalityType
<1>4. PICK T \in Wrong : \A U \in Wrong : Cardinality(T) <= Cardinality(U)
  <2>1. \A U \in Wrong : IsFiniteSet(U)
    BY <1>3
  <2> HIDE DEF Wrong
  <2> QED
    BY <1>2, <2>1, HasSmallest
<1>5. T \in SUBSET I /\ T # {}
  <2>1. Right({})
    BY <1>1
  <2> HIDE DEF Right
  <2> QED
    BY <1>4, <2>1
<1>6. ASSUME NEW U \in SUBSET T, U # T PROVE Right(U)
  <2>1. Cardinality(U) < Cardinality(T)
    <3>1. IsFiniteSet(T) /\ Cardinality(T) \in Nat /\ Cardinality(U) \in Nat
      BY <1>3, <1>5
    <3>2. Cardinality(U) <= Cardinality(T) /\ (Cardinality(T) = Cardinality(U) => T = U)
      BY <3>1, FS_Subset
    <3> QED
      BY <3>1, <3>2, <1>6
  <2>2. U \in SUBSET I
    BY <1>5
  <2>3. U \notin Wrong
    BY <1>3, <1>4, <1>5, <2>1, <2>2
  <2> QED
    BY <2>2, <2>3
<1> DEFINE x == pick(T)
<1>7. x \in T /\ g[T] = f[x] + g[T \ {x}] /\ f[x] \in Nat
  BY <1>1, <1>5
<1>8. Right(T \ {x})
  BY <1>6, <1>7
<1>9. ASSUME NEW y \in T PROVE g[T] = f[y] + g[T \ {y}]
  <2>1. CASE y = x
    BY <1>7, <2>1
  <2>2. CASE y # x
    <3>1. f[y] \in Nat
      BY <1>5
    <3>2. Right(T \ {y}) /\ x \in T \ {y} /\ y \in T \ {x}
      BY <1>6, <1>7, <2>2
    <3>3. (T \ {x}) \ {y} = (T \ {y}) \ {x}
      OBVIOUS
    <3>4. Right((T \ {x}) \ {y})
      BY <1>6, <1>7
    <3>5. g[T \ {x}] = f[y] + g[(T \ {x}) \ {y}]
      BY <1>8, <3>2
    <3>6. g[T \ {y}] = f[x] + g[(T \ {x}) \ {y}]
      BY <3>2, <3>3
    <3>7. g[(T \ {x}) \ {y}] \in Nat
      BY <3>4
    <3> QED
      BY <1>7, <3>1, <3>5, <3>6, <3>7
  <2> QED
    BY <2>1, <2>2
<1>10. g[T] \in Nat
  BY <1>7, <1>8
<1> QED
  BY <1>4, <1>9, <1>10

\* Where they sum the same numbers, two sums agree.
LEMMA SumsAgree ==
    ASSUME NEW f, NEW I, NEW g, Summing(g, f, I),
           NEW e, NEW J, NEW h, Summing(h, e, J),
           NEW S \in SUBSET I, S \in SUBSET J, IsFiniteSet(S), \A i \in S : f[i] = e[i]
    PROVE  g[S] = h[S]
<1> DEFINE pick(T) == CHOOSE y \in T : TRUE
           Wrong == {T \in SUBSET S : g[T] # h[T]}
<1>1. \A T \in SUBSET S :
         IF T = {} THEN g[T] = 0 /\ h[T] = 0
         ELSE pick(T) \in T /\ g[T] = f[pick(T)] + g[T \ {pick(T)}]
                            /\ h[T] = e[pick(T)] + h[T \ {pick(T)}]
  BY DEF Summing
<1> HIDE DEF pick
<1>2. SUFFICES ASSUME Wrong # {} PROVE FALSE
  OBVIOUS
<1>3. PICK T \in Wrong : \A U \in Wrong : Cardinality(T) <= Cardinality(U)
  <2>1. \A U \in Wrong : IsFiniteSet(U)
    BY FS_Subset
  <2> HIDE DEF Wrong
  <2> QED
    BY <1>2, <2>1, HasSmallest
<1>4. T \in SUBSET S /\ T # {} /\ IsFiniteSet(T)
  BY <1>1, <1>3, FS_Subset
<1>5. pick(T) \in T
  BY <1>1, <1>4
<1>6. Cardinality(T \ {pick(T)}) = Cardinality(T) - 1 /\ Cardinality(T) \in Nat
  BY <1>4, <1>5, FS_RemoveElement, FS_CardinalityType
<1>7. T \ {pick(T)} \in SUBSET S /\ T \ {pick(T)} \notin Wrong
  BY <1>3, <1>4, <1>6
<1> QED
  BY <1>1, <1>3, <1>4, <1>5, <1>7

LEMMA SumFound ==
    ASSUME NEW f, IsFiniteSet(DOMAIN f)
    PROVE  \E g : Summing(g, f, DOMAIN f) /\ SumFunction(f) = g[DOMAIN f]
<1>1. \E g : Summing(g, f, DOMAIN f)
  BY SummingExists
<1>2. Summing(CHOOSE g : Summing(g, f, DOMAIN f), f, DOMAIN f)
  BY <1>1
<1> QED
  BY <1>2, SumIsFold

LEMMA SumUnfolds ==
    ASSUME NEW f, IsFiniteSet(DOMAIN f), \A i \in DOMAIN f : f[i] \in Nat
    PROVE  \E g : /\ SumFunction(f) = g[DOMAIN f]
                  /\ g[{}] = 0
                  /\ \A T \in SUBSET DOMAIN f :
                        g[T] \in Nat /\ \A y \in T : g[T] = f[y] + g[T \ {y}]
<1>1. PICK g : Summing(g, f, DOMAIN f) /\ SumFunction(f) = g[DOMAIN f]
  BY SumFound
<1>2. /\ g[{}] = 0
      /\ \A T \in SUBSET DOMAIN f :
            g[T] \in Nat /\ \A y \in T : g[T] = f[y] + g[T \ {y}]
  BY <1>1, SumTakesAny
<1> QED
  BY <1>1, <1>2

\* A sum of nothing is zero.
LEMMA SumOfNone ==
    ASSUME NEW f, DOMAIN f = {}
    PROVE  SumFunction(f) = 0
<1>1. IsFiniteSet(DOMAIN f)
  BY FS_EmptySet
<1>2. PICK g : Summing(g, f, DOMAIN f) /\ SumFunction(f) = g[DOMAIN f]
  BY <1>1, SumFound
<1> QED
  BY <1>2, <1>1, SumTakesAny

\* One number more adds itself to the sum.
LEMMA SumOfOneMore ==
    ASSUME NEW f, IsFiniteSet(DOMAIN f), \A i \in DOMAIN f : f[i] \in Nat,
           NEW y, y \notin DOMAIN f,
           NEW e, DOMAIN e = DOMAIN f \cup {y}, \A i \in DOMAIN f : e[i] = f[i], e[y] \in Nat
    PROVE  SumFunction(e) = SumFunction(f) + e[y] /\ SumFunction(f) \in Nat
<1> DEFINE D == DOMAIN f
           E == DOMAIN e
<1>1. IsFiniteSet(E) /\ D \in SUBSET D /\ D \in SUBSET E /\ y \in E /\ E \ {y} = D
  BY FS_AddElement
<1>2. PICK g : Summing(g, f, D) /\ SumFunction(f) = g[D]
  BY SumFound
<1>3. PICK h : Summing(h, e, E) /\ SumFunction(e) = h[E]
  BY <1>1, SumFound
<1>4. h[D] = g[D]
  BY <1>1, <1>2, <1>3, SumsAgree
<1>5. \A i \in E : e[i] \in Nat
  OBVIOUS
<1>6. h[E] = e[y] + h[E \ {y}]
  BY <1>1, <1>3, <1>5, SumTakesAny
<1>7. g[D] \in Nat
  BY <1>1, <1>2, SumTakesAny
<1> QED
  BY <1>1, <1>2, <1>3, <1>4, <1>6, <1>7

\* A finite set sorted into parts is as large as its parts together.
LEMMA SumOfParts ==
    ASSUME NEW A, IsFiniteSet(A), NEW f, IsFiniteSet(DOMAIN f), NEW part \in [A -> DOMAIN f],
           \A r \in DOMAIN f : f[r] = Cardinality({a \in A : part[a] = r})
    PROVE  SumFunction(f) = Cardinality(A)
<1> DEFINE R == DOMAIN f
           In(T) == {a \in A : part[a] \in T}
<1>1. \A r \in R : f[r] \in Nat
  <2>1. \A r \in R : IsFiniteSet({a \in A : part[a] = r})
    BY FS_Subset
  <2> QED
    BY <2>1, FS_CardinalityType
<1>2. PICK g : /\ SumFunction(f) = g[R]
               /\ g[{}] = 0
               /\ \A T \in SUBSET R : g[T] \in Nat /\ \A y \in T : g[T] = f[y] + g[T \ {y}]
  <2> HIDE DEF In
  <2> QED
    BY <1>1, SumUnfolds
<1> DEFINE Wrong == {T \in SUBSET R : g[T] # Cardinality(In(T))}
<1>4. Wrong = {}
  <2> SUFFICES ASSUME Wrong # {} PROVE FALSE
    OBVIOUS
  <2>1. PICK T \in Wrong : \A U \in Wrong : Cardinality(T) <= Cardinality(U)
    <3>1. \A U \in Wrong : IsFiniteSet(U)
      BY FS_Subset
    <3> HIDE DEF Wrong
    <3> QED
      BY <3>1, HasSmallest
  <2>2. T # {}
    <3>1. In({}) = {} /\ Cardinality({}) = 0
      BY FS_EmptySet
    <3> QED
      BY <1>2, <2>1, <3>1
  <2>3. PICK y \in T : TRUE
    BY <2>2
  <2>4. T \in SUBSET R /\ y \in R /\ IsFiniteSet(T) /\ T \ {y} \in SUBSET R
    BY <2>1, <2>3, FS_Subset
  <2>5. Cardinality(T \ {y}) = Cardinality(T) - 1 /\ Cardinality(T) \in Nat
    BY <2>3, <2>4, FS_RemoveElement, FS_CardinalityType
  <2>6. g[T \ {y}] = Cardinality(In(T \ {y}))
    BY <2>1, <2>4, <2>5
  <2>7. g[T] = f[y] + g[T \ {y}] /\ f[y] = Cardinality({a \in A : part[a] = y})
    BY <1>2, <2>3, <2>4
  <2>8. Cardinality(In(T)) = Cardinality(In(T \ {y})) + Cardinality({a \in A : part[a] = y})
    <3>1. In(T) = In(T \ {y}) \cup {a \in A : part[a] = y}
      BY <2>3
    <3>2. In(T \ {y}) \cap {a \in A : part[a] = y} = {}
      OBVIOUS
    <3>3. IsFiniteSet(In(T \ {y})) /\ IsFiniteSet({a \in A : part[a] = y})
      BY FS_Subset
    <3>4. Cardinality({}) = 0
      BY FS_EmptySet
    <3>5. /\ Cardinality(In(T \ {y})) \in Nat
          /\ Cardinality({a \in A : part[a] = y}) \in Nat
      BY <3>3, FS_CardinalityType
    <3> HIDE DEF In
    <3>6. Cardinality(In(T)) = Cardinality(In(T \ {y})) + Cardinality({a \in A : part[a] = y})
                              - Cardinality(In(T \ {y}) \cap {a \in A : part[a] = y})
      BY <3>1, <3>3, FS_Union
    <3> DEFINE rest == Cardinality(In(T \ {y}))
               own  == Cardinality({a \in A : part[a] = y})
               both == Cardinality(In(T \ {y}) \cap {a \in A : part[a] = y})
    <3>7. both = 0
      BY <3>2, <3>4
    <3>8. rest \in Nat /\ own \in Nat /\ Cardinality(In(T)) = rest + own - both
      BY <3>5, <3>6
    <3> HIDE DEF rest, own, both
    <3>9. Cardinality(In(T)) = rest + own
      BY <3>7, <3>8
    <3> QED
      BY <3>9 DEF rest, own
  <2>9. g[T \ {y}] \in Nat /\ f[y] \in Nat
    BY <1>1, <1>2, <2>4
  <2> QED
    BY <2>1, <2>6, <2>7, <2>8, <2>9
<1>5. R \in SUBSET R /\ In(R) = A
  OBVIOUS
<1> QED
  BY <1>2, <1>4, <1>5

=============================================================================
