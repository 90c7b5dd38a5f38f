----------------------------- MODULE SumLemmas -----------------------------
(***************************************************************************)
(* Sums over finite sets, as MapThenSumSet of the community modules forms  *)
(* them: by a function that takes the chosen element off a set and adds up *)
(* the rest.  That such a function exists, and that the order in which     *)
(* elements are taken makes no difference, is by induction on the size of  *)
(* the set, in the form that a least counterexample cannot be.             *)
(***************************************************************************)
EXTENDS FiniteSetsExt, FiniteSetTheorems, WellFoundedInduction, TLAPS

SumOver(g, S) == MapThenSumSet(LAMBDA x : g[x], S)

\* The element that is taken first, and what it means for a function to sum
\* g over the subsets of S.
First(s) == CHOOSE x \in s : TRUE

SumsUp(it, g, S) ==
  it = [s \in SUBSET S |-> IF s = {} THEN 0 ELSE g[First(s)] + it[s \ {First(s)}]]

----------------------------------------------------------------------------
(* A set of natural numbers that is not empty has a least element.         *)
LEMMA LeastNatural ==
  ASSUME NEW B \in SUBSET Nat, B # {}
  PROVE  \E m \in B : \A n \in B : m <= n
<1> DEFINE Less == OpToRel(<, Nat)
<1>1. PICK m \in B : \A n \in B : ~ (<<n, m>> \in Less)
  BY NatLessThanWellFounded, WFMin, Zenon
<1>2. \A n \in B : ~ (n < m)
  BY <1>1 DEF OpToRel
<1>3. \A n \in B : m <= n
  BY <1>2
<1> QED BY <1>3

(* A set with zero and the successor of each of its members has all        *)
(* natural numbers.                                                        *)
LEMMA AllNaturals ==
  ASSUME NEW G, 0 \in G, \A n \in Nat : n \in G => n + 1 \in G
  PROVE  Nat \subseteq G
<1> DEFINE B == Nat \ G
<1> SUFFICES ASSUME B # {} PROVE FALSE
  OBVIOUS
<1>1. PICK m \in B : \A n \in B : m <= n
  BY LeastNatural
<1>2. m \in Nat /\ m # 0 /\ m - 1 \in Nat
  OBVIOUS
<1>3. m - 1 \in G
  BY <1>1, <1>2
<1>4. (m - 1) + 1 = m
  BY <1>2
<1> QED BY <1>2, <1>3, <1>4

(* What is true of a set whenever it is true of all its proper subsets is  *)
(* true of every subset of a finite set.                                   *)
LEMMA SubsetInduction ==
  ASSUME NEW S, IsFiniteSet(S), NEW G,
         \A T \in SUBSET S : (\A U \in SUBSET T : U # T => U \in G) => T \in G
  PROVE  SUBSET S \subseteq G
<1> DEFINE Bad == {T \in SUBSET S : T \notin G}
           Sizes == {Cardinality(T) : T \in Bad}
<1> SUFFICES ASSUME Bad # {} PROVE FALSE
  OBVIOUS
<1>1. \A T \in SUBSET S : IsFiniteSet(T) /\ Cardinality(T) \in Nat
  BY FS_Subset, FS_CardinalityType
<1>2. Sizes \in SUBSET Nat /\ Sizes # {}
  BY <1>1
<1>3. PICK m \in Sizes : \A n \in Sizes : m <= n
  BY <1>2, LeastNatural
<1>4. PICK T \in Bad : Cardinality(T) = m
  OBVIOUS
<1>5. ASSUME NEW U \in SUBSET T, U # T PROVE U \in G
  <2>1. U \in SUBSET S /\ T \in SUBSET S
    OBVIOUS
  <2>2. Cardinality(U) <= Cardinality(T) /\ Cardinality(U) # Cardinality(T)
    BY <1>1, <1>5, <2>1, FS_Subset
  <2>3. Cardinality(U) \in Nat /\ Cardinality(T) \in Nat
    BY <1>1, <2>1
  <2>4. ~ (m <= Cardinality(U))
    BY <1>4, <2>2, <2>3
  <2> QED BY <1>3, <2>1, <2>4
<1> QED BY <1>4, <1>5

----------------------------------------------------------------------------
LEMMA FirstIn == \A s : s # {} => First(s) \in s
BY DEF First

(* There is a function that sums over the subsets of a finite set: one     *)
(* that does so over those of a given size extends to the next size.       *)
LEMMA SumExists ==
  ASSUME NEW S, IsFiniteSet(S), NEW g
  PROVE  \E it : SumsUp(it, g, S)
<1> DEFINE D(n) == {s \in SUBSET S : Cardinality(s) <= n}
           Good(h, n) == h = [s \in D(n) |-> IF s = {} THEN 0
                                            ELSE g[First(s)] + h[s \ {First(s)}]]
           Reached == {n \in Nat : \E h : Good(h, n)}
<1>1. \A T \in SUBSET S : IsFiniteSet(T) /\ Cardinality(T) \in Nat
  BY FS_Subset, FS_CardinalityType
<1>2. \A s \in SUBSET S : s # {} => /\ s \ {First(s)} \in SUBSET S
                                   /\ Cardinality(s \ {First(s)}) = Cardinality(s) - 1
  BY <1>1, FirstIn, FS_RemoveElement
<1>3. 0 \in Reached
  <2> DEFINE h == [s \in D(0) |-> 0]
  <2>1. ASSUME NEW s \in D(0), s # {} PROVE FALSE
    <3>1. Cardinality(s) \in Nat /\ Cardinality(s) <= 0
      BY <1>1
    <3>2. Cardinality(s \ {First(s)}) \in Nat
      BY <1>1, <1>2, <2>1
    <3>3. Cardinality(s \ {First(s)}) = Cardinality(s) - 1
      BY <1>2, <2>1
    <3> QED BY <3>1, <3>2, <3>3
  <2>2. Good(h, 0)
    BY <2>1
  <2> QED BY <2>2
<1>4. ASSUME NEW n \in Nat, n \in Reached PROVE n + 1 \in Reached
  <2>1. PICK h : Good(h, n)
    BY <1>4
  <2> DEFINE j == [s \in D(n + 1) |-> IF s = {} THEN 0
                                     ELSE g[First(s)] + h[s \ {First(s)}]]
  <2>2. \A s \in D(n) : s \in D(n + 1) /\ j[s] = h[s]
    <3> TAKE s \in D(n)
    <3>1. s \in D(n + 1)
      BY <1>1
    <3>2. j[s] = IF s = {} THEN 0 ELSE g[First(s)] + h[s \ {First(s)}]
      BY <3>1
    <3>3. h[s] = IF s = {} THEN 0 ELSE g[First(s)] + h[s \ {First(s)}]
      BY <2>1
    <3> QED BY <3>1, <3>2, <3>3
  <2>3. \A s \in D(n + 1) : s # {} => s \ {First(s)} \in D(n)
    BY <1>1, <1>2
  <2>4. j = [s \in D(n + 1) |-> IF s = {} THEN 0
                               ELSE g[First(s)] + j[s \ {First(s)}]]
    <3>1. \A s \in D(n + 1) : s # {} => j[s \ {First(s)}] = h[s \ {First(s)}]
      BY <2>2, <2>3
    <3> HIDE DEF D
    <3> QED BY <3>1
  <2>5. Good(j, n + 1)
    BY <2>4
  <2> HIDE DEF j, Good
  <2> QED BY <2>5
<1>5. Nat \subseteq Reached
  <2> HIDE DEF Reached
  <2> QED BY <1>3, <1>4, AllNaturals
<1>6. Cardinality(S) \in Reached
  BY <1>1, <1>5
<1>7. PICK h : Good(h, Cardinality(S))
  BY <1>6
<1>8. D(Cardinality(S)) = SUBSET S
  BY FS_Subset
<1> QED BY <1>7, <1>8 DEF SumsUp

(* MapThenSumSet is the value of such a function.                          *)
LEMMA SumIs ==
  ASSUME NEW S, IsFiniteSet(S), NEW g
  PROVE  \E it : SumsUp(it, g, S) /\ SumOver(g, S) = it[S]
<1> DEFINE It == CHOOSE it : SumsUp(it, g, S)
<1>1. SumsUp(It, g, S)
  BY SumExists
<1>2. SumOver(g, S) = It[S]
  BY DEF SumOver, MapThenSumSet, MapThenFoldSet, SumsUp, First
<1> QED BY <1>1, <1>2

(* Any element may be taken off first.                                     *)
LEMMA AnyFirst ==
  ASSUME NEW S, IsFiniteSet(S), NEW g, \A x \in S : g[x] \in Int,
         NEW it, SumsUp(it, g, S)
  PROVE  \A T \in SUBSET S : /\ it[T] \in Int
                             /\ \A x \in T : it[T] = g[x] + it[T \ {x}]
<1> DEFINE Fine(T) == it[T] \in Int /\ \A x \in T : it[T] = g[x] + it[T \ {x}]
           G == {T \in SUBSET S : Fine(T)}
<1>1. \A T \in SUBSET S : it[T] = IF T = {} THEN 0 ELSE g[First(T)] + it[T \ {First(T)}]
  BY DEF SumsUp
<1>2. ASSUME NEW T \in SUBSET S, \A U \in SUBSET T : U # T => U \in G
      PROVE  T \in G
  <2>1. CASE T = {}
    <3>1. it[T] = 0 /\ \A x \in T : FALSE
      BY <1>1, <2>1
    <3> QED BY <3>1
  <2>2. CASE T # {}
    <3> DEFINE y == First(T)
    <3>1. y \in T /\ it[T] = g[y] + it[T \ {y}]
      BY <1>1, <2>2, FirstIn
    <3> HIDE DEF y
    <3>2. \A x \in T : /\ it[T \ {x}] \in Int /\ g[x] \in Int
                       /\ \A z \in T \ {x} : it[T \ {x}] = g[z] + it[(T \ {x}) \ {z}]
      <4> TAKE x \in T
      <4>1. T \ {x} \in SUBSET T /\ T \ {x} # T /\ x \in S
        OBVIOUS
      <4>2. T \ {x} \in G
        BY <1>2, <4>1
      <4> QED BY <4>1, <4>2
    <3>3. it[T] \in Int
      <4>1. it[T \ {y}] \in Int /\ g[y] \in Int
        BY <3>1, <3>2
      <4> QED BY <3>1, <4>1
    <3>4. ASSUME NEW x \in T PROVE it[T] = g[x] + it[T \ {x}]
      <4>1. CASE x = y
        BY <3>1, <4>1
      <4>2. CASE x # y
        <5>1. it[T \ {y}] = g[x] + it[(T \ {y}) \ {x}]
          BY <3>1, <3>2, <4>2
        <5>2. it[T \ {x}] = g[y] + it[(T \ {x}) \ {y}]
          BY <3>1, <3>2, <4>2
        <5>3. (T \ {y}) \ {x} = (T \ {x}) \ {y}
          OBVIOUS
        <5>4. it[(T \ {x}) \ {y}] \in Int
          <6>1. (T \ {x}) \ {y} \in SUBSET T /\ (T \ {x}) \ {y} # T
            OBVIOUS
          <6> QED BY <1>2, <6>1
        <5>5. g[x] \in Int /\ g[y] \in Int
          BY <3>1, <3>2
        <5>6. it[T] = g[y] + (g[x] + it[(T \ {x}) \ {y}])
          BY <3>1, <5>1, <5>3
        <5> QED BY <5>2, <5>4, <5>5, <5>6
      <4> QED BY <4>1, <4>2
    <3> QED BY <3>3, <3>4
  <2> QED BY <2>1, <2>2
<1>3. SUBSET S \subseteq G
  <2> HIDE DEF G
  <2> QED BY <1>2, SubsetInduction
<1> QED BY <1>3

(* Functions that agree on a set have the same sum over it, whatever the   *)
(* sets their sums were formed for.                                        *)
LEMMA SumsAgree ==
  ASSUME NEW S, IsFiniteSet(S), NEW T, S \subseteq T,
         NEW g, NEW h, \A x \in S : g[x] = h[x],
         NEW it, SumsUp(it, g, S), NEW jt, SumsUp(jt, h, T)
  PROVE  \A U \in SUBSET S : it[U] = jt[U]
<1> DEFINE G == {U \in SUBSET S : it[U] = jt[U]}
<1>1. \A U \in SUBSET S : it[U] = IF U = {} THEN 0 ELSE g[First(U)] + it[U \ {First(U)}]
  BY DEF SumsUp
<1>2. \A U \in SUBSET S : jt[U] = IF U = {} THEN 0 ELSE h[First(U)] + jt[U \ {First(U)}]
  BY DEF SumsUp
<1>3. ASSUME NEW U \in SUBSET S, \A V \in SUBSET U : V # U => V \in G
      PROVE  U \in G
  <2>1. CASE U = {}
    BY <1>1, <1>2, <2>1
  <2>2. CASE U # {}
    <3>1. First(U) \in U
      BY <2>2, FirstIn
    <3>2. g[First(U)] = h[First(U)] /\ it[U \ {First(U)}] = jt[U \ {First(U)}]
      BY <1>3, <3>1
    <3> QED BY <1>1, <1>2, <2>2, <3>2
  <2> QED BY <2>1, <2>2
<1>4. SUBSET S \subseteq G
  <2> HIDE DEF G
  <2> QED BY <1>3, SubsetInduction
<1> QED BY <1>4

----------------------------------------------------------------------------
(* The laws of sums that proofs use.                                       *)

LEMMA SumEmpty == \A g : SumOver(g, {}) = 0
<1> TAKE g
<1>1. PICK it : SumsUp(it, g, {}) /\ SumOver(g, {}) = it[{}]
  BY SumIs, FS_EmptySet
<1>2. {} \in SUBSET {}
  OBVIOUS
<1> QED BY <1>1, <1>2 DEF SumsUp

LEMMA SumInteger ==
  ASSUME NEW S, IsFiniteSet(S), NEW g, \A x \in S : g[x] \in Int
  PROVE  SumOver(g, S) \in Int
<1>1. PICK it : SumsUp(it, g, S) /\ SumOver(g, S) = it[S]
  BY SumIs
<1> QED BY <1>1, AnyFirst

LEMMA SumSame ==
  ASSUME NEW S, IsFiniteSet(S), NEW g, NEW h, \A x \in S : g[x] = h[x]
  PROVE  SumOver(g, S) = SumOver(h, S)
<1>1. PICK it : SumsUp(it, g, S) /\ SumOver(g, S) = it[S]
  BY SumIs
<1>2. PICK jt : SumsUp(jt, h, S) /\ SumOver(h, S) = jt[S]
  BY SumIs
<1> QED BY <1>1, <1>2, SumsAgree

LEMMA SumAdd ==
  ASSUME NEW S, IsFiniteSet(S), NEW x, x \notin S,
         NEW g, \A y \in S \cup {x} : g[y] \in Int
  PROVE  SumOver(g, S \cup {x}) = SumOver(g, S) + g[x]
<1> DEFINE T == S \cup {x}
<1>0. IsFiniteSet(T)
  BY FS_AddElement
<1>1. PICK it : SumsUp(it, g, S) /\ SumOver(g, S) = it[S]
  BY SumIs
<1>2. PICK jt : SumsUp(jt, g, T) /\ SumOver(g, T) = jt[T]
  BY <1>0, SumIs
<1>3. jt[T] = g[x] + jt[T \ {x}] /\ jt[T \ {x}] \in Int /\ g[x] \in Int
  <2>1. x \in T /\ T \ {x} \in SUBSET T /\ T \in SUBSET T /\ \A y \in T : g[y] \in Int
    OBVIOUS
  <2> HIDE DEF T
  <2>2. \A U \in SUBSET T : jt[U] \in Int /\ \A y \in U : jt[U] = g[y] + jt[U \ {y}]
    BY <1>0, <1>2, <2>1, AnyFirst
  <2> QED BY <2>1, <2>2
<1>4. T \ {x} = S
  OBVIOUS
<1>5. it[S] = jt[S]
  BY <1>1, <1>2, SumsAgree
<1>6. SumOver(g, T) = SumOver(g, S) + g[x]
  <2> HIDE DEF T
  <2>1. jt[T] = g[x] + jt[S] /\ jt[S] \in Int /\ g[x] \in Int
    BY <1>3, <1>4
  <2>2. jt[T] = it[S] + g[x]
    BY <1>5, <2>1
  <2> QED BY <1>1, <1>2, <2>2
<1> QED BY <1>6

(* When one summand changes, the sum changes by as much.                   *)
LEMMA SumChange ==
  ASSUME NEW S, IsFiniteSet(S), NEW x \in S, NEW g, NEW h,
         \A y \in S : g[y] \in Int /\ h[y] \in Int,
         \A y \in S : y # x => g[y] = h[y]
  PROVE  SumOver(h, S) = SumOver(g, S) + (h[x] - g[x])
<1> DEFINE T == S \ {x}
<1>1. IsFiniteSet(T) /\ x \notin T /\ S = T \cup {x}
  BY FS_RemoveElement
<1> HIDE DEF T
<1>2. /\ SumOver(g, S) = SumOver(g, T) + g[x]
      /\ SumOver(h, S) = SumOver(h, T) + h[x]
  BY <1>1, SumAdd
<1>3. SumOver(g, T) = SumOver(h, T)
  BY <1>1, SumSame
<1>4. SumOver(g, T) \in Int
  BY <1>1, SumInteger
<1> QED BY <1>1, <1>2, <1>3, <1>4
=============================================================================
