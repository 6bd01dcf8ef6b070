------------------------------ MODULE SumProofs ------------------------------
(***************************************************************************)
(* Sums of a function's values over a finite set, which the folds of the   *)
(* community modules compute one element at a time in an order of their    *)
(* own choice.  The lemmas say that the order does not matter: whatever    *)
(* element is taken out first, the rest of the sum is the sum of the rest. *)
(***************************************************************************)
EXTENDS Integers, FiniteSetTheorems, TLAPS

\* h is the table of all sums of g over subsets of S
IsSum(h, g, S) ==
    /\ h \in [SUBSET S -> Nat]
    /\ h[{}] = 0
    /\ \A T \in SUBSET S : \A x \in T : h[T] = g[x] + h[T \ {x}]

\* k sums up g over the subsets of S, in some order
Peels(k, g, S) ==
    /\ k[{}] = 0
    /\ \A T \in SUBSET S : T # {} => \E x \in T : k[T] = g[x] + k[T \ {x}]

Total(g, S) == CHOOSE n \in Nat : \E h : IsSum(h, g, S) /\ n = h[S]

\* iter folds g over the subsets of S, taking out the elements that CHOOSE
\* picks, as MapThenFoldSet does
Folds(iter, g, S) ==
    iter = [T \in SUBSET S |->
               IF T = {} THEN 0
               ELSE LET x == CHOOSE x \in T : TRUE IN g[x] + iter[T \ {x}]]

\* A nonempty set of finite sets has a minimal element.
LEMMA MinimalSet ==
    ASSUME NEW S, IsFiniteSet(S), NEW C, C \subseteq SUBSET S, C # {}
    PROVE  \E T \in C : \A U \in C : ~(U \subseteq T /\ U # T)
<1>1. C \subseteq FiniteSubsetsOf(S)
  BY FS_Subset DEF FiniteSubsetsOf
<1>2. PICK T \in C : \A U \in C : ~(<<U, T>> \in StrictSubsetOrdering(S))
  BY <1>1, FS_StrictSubsetOrderingWellFounded, WFMin
<1> QED
  BY <1>2 DEF StrictSubsetOrdering

LEMMA ExtendSum ==
    ASSUME NEW S, NEW x, x \notin S, NEW g, \A y \in S \cup {x} : g[y] \in Nat,
           NEW k, IsSum(k, g, S)
    PROVE  \E h : IsSum(h, g, S \cup {x})
<1> DEFINE h == [T \in SUBSET (S \cup {x}) |->
                    IF x \in T THEN g[x] + k[T \ {x}] ELSE k[T]]
<1>1. h \in [SUBSET (S \cup {x}) -> Nat]
  BY DEF IsSum
<1>2. h[{}] = 0
  BY DEF IsSum
<1>3. ASSUME NEW T \in SUBSET (S \cup {x}), NEW y \in T
      PROVE  h[T] = g[y] + h[T \ {y}]
  <2>1. CASE y = x
    <3>1. T \ {y} \in SUBSET S /\ x \notin T \ {y}
      BY <2>1
    <3> QED
      BY <2>1, <3>1
  <2>2. CASE y # x /\ x \in T
    <3>1. T \ {x} \in SUBSET S /\ y \in T \ {x} /\ (T \ {x}) \ {y} \in SUBSET S
      BY <2>2
    <3>2. k[T \ {x}] = g[y] + k[(T \ {x}) \ {y}]
      BY <3>1 DEF IsSum
    <3>3. (T \ {x}) \ {y} = (T \ {y}) \ {x} /\ x \in T \ {y}
      BY <2>2
    <3>4. h[T] = g[x] + k[T \ {x}] /\ h[T \ {y}] = g[x] + k[(T \ {x}) \ {y}]
      BY <2>2, <3>3
    <3>5. /\ g[x] \in Nat /\ g[y] \in Nat
          /\ k[T \ {x}] \in Nat /\ k[(T \ {x}) \ {y}] \in Nat
      BY <3>1 DEF IsSum
    <3> HIDE DEF h
    <3> QED
      BY <3>2, <3>4, <3>5
  <2>3. CASE x \notin T
    <3>1. T \in SUBSET S /\ T \ {y} \in SUBSET S
      BY <2>3
    <3> QED
      BY <2>3, <3>1 DEF IsSum
  <2> QED
    BY <2>1, <2>2, <2>3
<1>4. IsSum(h, g, S \cup {x})
  BY <1>1, <1>2, <1>3 DEF IsSum
<1> QED
  BY <1>4

LEMMA SumExists ==
    ASSUME NEW S, IsFiniteSet(S), NEW g, \A x \in S : g[x] \in Nat
    PROVE  \E h : IsSum(h, g, S)
<1> DEFINE C == {T \in SUBSET S : ~\E h : IsSum(h, g, T)}
<1> SUFFICES ASSUME C # {} PROVE FALSE
  OBVIOUS
<1>1. PICK T \in C : \A U \in C : ~(U \subseteq T /\ U # T)
  <2>1. C \subseteq SUBSET S
    OBVIOUS
  <2> HIDE DEF C
  <2> QED
    BY <2>1, MinimalSet
<1>2. T # {}
  <2>1. IsSum([U \in SUBSET {} |-> 0], g, {})
    BY DEF IsSum
  <2> QED
    BY <1>1, <2>1
<1>3. PICK x \in T : TRUE
  BY <1>2
<1>4. T \ {x} \notin C /\ T \ {x} \in SUBSET S
  BY <1>1, <1>3
<1>5. PICK k : IsSum(k, g, T \ {x})
  BY <1>4
<1>6. (T \ {x}) \cup {x} = T
  BY <1>3
<1>7. \E h : IsSum(h, g, (T \ {x}) \cup {x})
  BY <1>3, <1>5, ExtendSum
<1> QED
  BY <1>1, <1>6, <1>7

\* Whatever the order, two ways to sum up the same values agree.
LEMMA SumsAgree ==
    ASSUME NEW S, IsFiniteSet(S), NEW R, S \subseteq R,
           NEW f, NEW g, \A x \in S : f[x] = g[x],
           NEW h, IsSum(h, f, R), NEW k, Peels(k, g, S)
    PROVE  h[S] = k[S]
<1> DEFINE C == {T \in SUBSET S : h[T] # k[T]}
<1> SUFFICES ASSUME C # {} PROVE FALSE
  OBVIOUS
<1>1. PICK T \in C : \A U \in C : ~(U \subseteq T /\ U # T)
  <2>1. C \subseteq SUBSET S
    OBVIOUS
  <2> HIDE DEF C
  <2> QED
    BY <2>1, MinimalSet
<1>2. T # {}
  BY <1>1 DEF IsSum, Peels
<1>3. PICK x \in T : k[T] = g[x] + k[T \ {x}]
  BY <1>1, <1>2 DEF Peels
<1>4. T \ {x} \notin C /\ T \ {x} \in SUBSET S
  BY <1>1, <1>3
<1>5. h[T \ {x}] = k[T \ {x}]
  BY <1>4
<1>6. h[T] = f[x] + h[T \ {x}]
  BY <1>1, <1>3 DEF IsSum
<1> QED
  BY <1>1, <1>3, <1>5, <1>6

LEMMA TotalIs ==
    ASSUME NEW S, IsFiniteSet(S), NEW g, NEW h, IsSum(h, g, S)
    PROVE  Total(g, S) = h[S] /\ Total(g, S) \in Nat
<1>1. h[S] \in Nat
  BY DEF IsSum
<1>2. Total(g, S) \in Nat /\ \E k : IsSum(k, g, S) /\ Total(g, S) = k[S]
  BY <1>1 DEF Total
<1>3. \A k : IsSum(k, g, S) => Peels(k, g, S)
  BY DEF IsSum, Peels
<1> QED
  BY <1>2, <1>3, SumsAgree

LEMMA TotalNat ==
    ASSUME NEW S, IsFiniteSet(S), NEW g, \A x \in S : g[x] \in Nat
    PROVE  Total(g, S) \in Nat
BY SumExists, TotalIs

\* A total depends on the values over its set only.
LEMMA TotalCongruence ==
    ASSUME NEW S, IsFiniteSet(S), NEW f, NEW g,
           \A x \in S : f[x] \in Nat /\ f[x] = g[x]
    PROVE  Total(f, S) = Total(g, S)
<1>1. PICK h : IsSum(h, f, S)
  BY SumExists
<1>2. PICK k : IsSum(k, g, S)
  BY SumExists
<1>3. Peels(k, g, S)
  BY <1>2 DEF IsSum, Peels
<1>4. h[S] = k[S]
  BY <1>1, <1>3, SumsAgree
<1> QED
  BY <1>1, <1>2, <1>4, TotalIs

\* Any element may be taken out first.
LEMMA TotalSplit ==
    ASSUME NEW S, IsFiniteSet(S), NEW g, \A y \in S : g[y] \in Nat, NEW x \in S
    PROVE  Total(g, S) = g[x] + Total(g, S \ {x})
<1>1. PICK h : IsSum(h, g, S)
  BY SumExists
<1>2. IsFiniteSet(S \ {x}) /\ S \ {x} \subseteq S
  BY FS_RemoveElement
<1>3. PICK k : IsSum(k, g, S \ {x})
  BY <1>2, SumExists
<1>4. Peels(k, g, S \ {x})
  BY <1>3 DEF IsSum, Peels
<1>5. h[S \ {x}] = k[S \ {x}]
  BY <1>1, <1>2, <1>4, SumsAgree
<1>6. h[S] = g[x] + h[S \ {x}]
  BY <1>1 DEF IsSum
<1> QED
  BY <1>1, <1>2, <1>3, <1>5, <1>6, TotalIs

LEMMA TotalChange ==
    ASSUME NEW S, IsFiniteSet(S), NEW f, NEW g, NEW x \in S,
           \A y \in S : f[y] \in Nat /\ g[y] \in Nat,
           \A y \in S \ {x} : f[y] = g[y]
    PROVE  Total(g, S) + f[x] = Total(f, S) + g[x]
<1>1. IsFiniteSet(S \ {x})
  BY FS_RemoveElement
<1>2. Total(f, S \ {x}) = Total(g, S \ {x}) /\ Total(f, S \ {x}) \in Nat
  BY <1>1, TotalCongruence, TotalNat
<1>3. Total(f, S) = f[x] + Total(f, S \ {x}) /\ Total(g, S) = g[x] + Total(g, S \ {x})
  BY TotalSplit
<1> QED
  BY <1>2, <1>3

LEMMA TotalZero ==
    ASSUME NEW S, IsFiniteSet(S), NEW g, \A x \in S : g[x] = 0
    PROVE  Total(g, S) = 0
<1> DEFINE h == [T \in SUBSET S |-> 0]
<1>1. IsSum(h, g, S)
  BY DEF IsSum
<1>2. h[S] = 0
  OBVIOUS
<1> HIDE DEF h
<1> QED
  BY <1>1, <1>2, TotalIs

\* Elements of value 0 may be left out.
LEMMA TotalSupport ==
    ASSUME NEW R, IsFiniteSet(R), NEW S, S \subseteq R, NEW g,
           \A x \in R : g[x] \in Nat, \A x \in R \ S : g[x] = 0
    PROVE  Total(g, S) = Total(g, R)
<1>1. IsFiniteSet(S)
  BY FS_Subset
<1>2. PICK k : IsSum(k, g, S)
  BY <1>1, SumExists
<1> DEFINE h == [T \in SUBSET R |-> k[T \cap S]]
<1>3. h \in [SUBSET R -> Nat] /\ h[{}] = 0
  BY <1>2 DEF IsSum
<1>4. ASSUME NEW T \in SUBSET R, NEW x \in T
      PROVE  h[T] = g[x] + h[T \ {x}]
  <2>1. CASE x \in S
    <3>1. (T \ {x}) \cap S = (T \cap S) \ {x} /\ x \in T \cap S
      BY <2>1
    <3> QED
      BY <1>2, <3>1 DEF IsSum
  <2>2. CASE x \notin S
    <3>1. (T \ {x}) \cap S = T \cap S /\ g[x] = 0 /\ k[T \cap S] \in Nat
      BY <1>2, <2>2 DEF IsSum
    <3>2. h[T] = k[T \cap S] /\ h[T \ {x}] = k[T \cap S]
      BY <3>1
    <3> HIDE DEF h
    <3> QED
      BY <3>1, <3>2
  <2> QED
    BY <2>1, <2>2
<1>5. IsSum(h, g, R)
  BY <1>3, <1>4 DEF IsSum
<1>6. h[R] = k[S]
  <2>1. R \cap S = S
    OBVIOUS
  <2> QED
    BY <2>1
<1> HIDE DEF h
<1> QED
  BY <1>1, <1>2, <1>5, <1>6, TotalIs

\* A fold that takes the elements out as CHOOSE happens to say computes the
\* total.
LEMMA FoldIsTotal ==
    ASSUME NEW S, IsFiniteSet(S), NEW g, \A x \in S : g[x] \in Nat,
           NEW iter, Folds(iter, g, S)
    PROVE  iter[S] = Total(g, S)
<1>1. iter[{}] = 0
  BY DEF Folds
<1>2. ASSUME NEW T \in SUBSET S, T # {}
      PROVE  \E x \in T : iter[T] = g[x] + iter[T \ {x}]
  <2>1. (CHOOSE x \in T : TRUE) \in T
    BY <1>2
  <2>2. iter[T] = LET x == CHOOSE x \in T : TRUE IN g[x] + iter[T \ {x}]
    BY <1>2 DEF Folds
  <2> QED
    BY <2>1, <2>2
<1>3. Peels(iter, g, S)
  BY <1>1, <1>2 DEF Peels
<1>4. PICK h : IsSum(h, g, S)
  BY SumExists
<1>5. h[S] = iter[S]
  BY <1>3, <1>4, SumsAgree
<1> QED
  BY <1>4, <1>5, TotalIs

\* There is such a fold: the table of all sums is one.
LEMMA FoldExists ==
    ASSUME NEW S, IsFiniteSet(S), NEW g, \A x \in S : g[x] \in Nat
    PROVE  \E iter : Folds(iter, g, S)
<1>1. PICK h : IsSum(h, g, S)
  BY SumExists
<1>2. ASSUME NEW T \in SUBSET S, T # {}
      PROVE  h[T] = LET x == CHOOSE x \in T : TRUE IN g[x] + h[T \ {x}]
  <2>1. (CHOOSE x \in T : TRUE) \in T
    BY <1>2
  <2> QED
    BY <1>1, <2>1 DEF IsSum
<1>3. h = [T \in SUBSET S |->
              IF T = {} THEN 0
              ELSE LET x == CHOOSE x \in T : TRUE IN g[x] + h[T \ {x}]]
  BY <1>1, <1>2 DEF IsSum
<1> QED
  BY <1>3 DEF Folds
=============================================================================
