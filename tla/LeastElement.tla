---------------------------- MODULE LeastElement ----------------------------
(***************************************************************************)
(* A non-empty set of natural numbers has a least element: the fact behind *)
(* "the first occurrence in a batch", "the first entry of a session" and   *)
(* "the first anchor of an entry".                                         *)
(***************************************************************************)
EXTENDS Naturals, FiniteSetTheorems, WellFoundedInduction, TLAPS

(* Up to a bound: the sets of the predecessors of its elements have a      *)
(* minimal one under strict inclusion.                                     *)
LEMMA LeastBelow ==
  ASSUME NEW n \in Nat, NEW T \in SUBSET (0 .. n), T # {}
  PROVE  \E x \in T : \A y \in T : x <= y
<1> DEFINE S == 0 .. n
           Less == StrictSubsetOrdering(S)
           F == FiniteSubsetsOf(S)
           Before(x) == {y \in T : y < x}
           B == {Before(x) : x \in T}
<1>1. B \subseteq F
  <2>1. IsFiniteSet(S)
    BY FS_Interval
  <2>2. ASSUME NEW x \in T PROVE Before(x) \in F
    <3>1. Before(x) \in SUBSET S
      OBVIOUS
    <3>2. QED BY <2>1, <3>1, FS_Subset DEF FiniteSubsetsOf
  <2>3. QED BY <2>2
<1>2. IsWellFoundedOn(Less, F)
  BY FS_StrictSubsetOrderingWellFounded
<1>3. B # {}
  OBVIOUS
<1>4. PICK b \in B : \A c \in B : <<c, b>> \notin Less
  <2> HIDE DEF Less, F, B
  <2> QED BY <1>1, <1>2, <1>3, WFMin
<1>5. PICK x \in T : b = Before(x)
  OBVIOUS
<1>6. ASSUME NEW y \in T, ~(x <= y) PROVE FALSE
  <2>1. \A z \in T : z \in Int
    OBVIOUS
  <2>2. y < x
    BY <1>6, <2>1
  <2>3. Before(y) \subseteq Before(x)
    <3>1. ASSUME NEW z \in T, z < y PROVE z < x
      BY <2>1, <2>2, <3>1
    <3>2. QED BY <3>1
  <2>4. Before(y) # Before(x)
    BY <2>1, <2>2
  <2>5. <<Before(y), Before(x)>> \in (SUBSET S) \X (SUBSET S)
    OBVIOUS
  <2>6. <<Before(y), Before(x)>> \in Less
    BY <2>3, <2>4, <2>5 DEF StrictSubsetOrdering
  <2>7. QED BY <1>4, <1>5, <2>6
<1>7. QED BY <1>6

(* Without a bound: an element of the set is one. *)
LEMMA LeastNat ==
  ASSUME NEW T \in SUBSET Nat, T # {}
  PROVE  \E x \in T : \A y \in T : x <= y
<1>1. PICK n \in T : TRUE
  OBVIOUS
<1> DEFINE U == {x \in T : x <= n}
<1>2. U \in SUBSET (0 .. n) /\ U # {} /\ n \in Nat
  <2>1. n \in Nat
    OBVIOUS
  <2>2. n <= n /\ \A x \in Nat : x <= n => x \in 0 .. n
    BY <2>1
  <2>3. QED BY <2>1, <2>2
<1>3. PICK x \in U : \A y \in U : x <= y
  <2> HIDE DEF U
  <2> QED BY <1>2, LeastBelow
<1>4. \A y \in T : x <= y
  BY <1>1, <1>3
<1>5. QED BY <1>3, <1>4

(* Of the elements of a set that are numbered, one has the least number.   *)
LEMMA LeastNumbered ==
  ASSUME NEW T, T # {}, NEW f, \A x \in T : f[x] \in Nat
  PROVE  \E x \in T : \A y \in T : f[x] <= f[y]
<1> DEFINE N == {f[x] : x \in T}
<1>1. N \in SUBSET Nat /\ N # {}
  OBVIOUS
<1>2. PICK n \in N : \A m \in N : n <= m
  <2> HIDE DEF N
  <2> QED BY <1>1, LeastNat
<1>3. PICK x \in T : f[x] = n
  OBVIOUS
<1>4. QED BY <1>2, <1>3

(* The image of a finite set under a function is finite and no larger.     *)
LEMMA FiniteImage ==
  ASSUME NEW S, IsFiniteSet(S), NEW f, f = [x \in S |-> f[x]]
  PROVE  /\ IsFiniteSet({f[x] : x \in S})
         /\ Cardinality({f[x] : x \in S}) <= Cardinality(S)
<1> DEFINE T == {f[x] : x \in S}
<1>1. f \in Surjection(S, T)
  <2>1. f \in [S -> T]
    OBVIOUS
  <2>2. \A y \in T : \E x \in S : f[x] = y
    OBVIOUS
  <2>3. QED BY <2>1, <2>2 DEF Surjection
<1> HIDE DEF T
<1>2. QED BY <1>1, FS_Surjection DEF T
=============================================================================
