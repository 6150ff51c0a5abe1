---------------------------- MODULE LeastElement ----------------------------
(***************************************************************************)
(* The least element of a set of natural numbers, and the least set of a   *)
(* set of finite sets.  They stand for induction in the proofs: what holds *)
(* of no least counterexample holds of all.                                *)
(***************************************************************************)
EXTENDS Integers, FiniteSetsExt, FiniteSetTheorems, WellFoundedInduction, TLAPS

\* A non-empty set of natural numbers has a least element, and Min is it: std::map
\* iterates in this order, history_.begin() and newSignalsM_.begin() (source.cpp:171).
LEMMA LeastExists ==
  ASSUME NEW S, S \subseteq Nat, S # {}
  PROVE  Min(S) \in S /\ \A x \in S : Min(S) <= x
<1> DEFINE R == {p \in Nat \X Nat : p[1] < p[2]}
<1>1. IsWellFoundedOn(R, Nat)
  BY NatLessThanWellFounded DEF OpToRel
<1> HIDE DEF R
<1>2. \E m \in S : \A y \in S : <<y, m>> \notin R
  BY <1>1, WFMin
<1>3. \E m \in S : \A y \in S : m <= y
  <2>1. \A x, y \in Nat : <<y, x>> \notin R => x <= y
    BY DEF R
  <2> QED
    BY <1>2, <2>1
<1> QED
  BY <1>3, Zenon DEF Min

\* Some set of those in B is such that no element can be taken from it.
LEMMA LeastSubset ==
  ASSUME NEW T, IsFiniteSet(T), NEW B, B \subseteq SUBSET T, B # {}
  PROVE  \E S \in B : \A x \in S : S \ {x} \notin B
<1> DEFINE N == {Cardinality(S) : S \in B}
<1>1. \A S \in B : IsFiniteSet(S) /\ Cardinality(S) \in Nat
  BY FS_Subset, FS_CardinalityType
<1>2. N \subseteq Nat /\ N # {}
  BY <1>1
<1>3. Min(N) \in N /\ \A n \in N : Min(N) <= n
  BY <1>2, LeastExists
<1>4. PICK S \in B : \A R \in B : Cardinality(S) <= Cardinality(R)
  BY <1>3
<1>5. ASSUME NEW x \in S, S \ {x} \in B PROVE FALSE
  <2>1. Cardinality(S \ {x}) = Cardinality(S) - 1
    BY <1>1, <1>5, FS_RemoveElement
  <2> QED
    BY <1>1, <1>4, <1>5, <2>1
<1> QED
  BY <1>5

\* A finite set of integers has a least element and a greatest one, and Min and Max are
\* they.
LEMMA LeastAndGreatest ==
  ASSUME NEW T, IsFiniteSet(T), T \subseteq Int, T # {}
  PROVE  /\ Min(T) \in T /\ \A x \in T : Min(T) <= x
         /\ Max(T) \in T /\ \A x \in T : Max(T) >= x
<1> DEFINE Ends(S) == /\ \E m \in S : \A x \in S : m <= x
                      /\ \E m \in S : \A x \in S : m >= x
           B == {S \in SUBSET T : S # {} /\ ~Ends(S)}
<1>1. B = {}
  <2> SUFFICES ASSUME B # {} PROVE FALSE
    OBVIOUS
  <2>1. PICK S \in B : \A x \in S : S \ {x} \notin B
    BY LeastSubset
  <2>2. PICK x \in S : x \in Int
    OBVIOUS
  <2>3. \A y \in S : y \in Int
    OBVIOUS
  <2>4. CASE S \ {x} = {}
    <3>1. \A y \in S : y = x
      BY <2>4
    <3> QED
      BY <2>2, <3>1
  <2>5. CASE S \ {x} # {}
    <3>1. Ends(S \ {x})
      BY <2>1, <2>5
    <3>2. PICK lo \in S \ {x} : \A y \in S \ {x} : lo <= y
      BY <3>1
    <3>3. PICK hi \in S \ {x} : \A y \in S \ {x} : hi >= y
      BY <3>1
    <3>4. \E m \in S : \A y \in S : m <= y
      <4>1. CASE x <= lo
        BY <2>2, <2>3, <3>2, <4>1
      <4>2. CASE ~(x <= lo)
        BY <2>2, <2>3, <3>2, <4>2
      <4> QED
        BY <4>1, <4>2
    <3>5. \E m \in S : \A y \in S : m >= y
      <4>1. CASE x >= hi
        BY <2>2, <2>3, <3>3, <4>1
      <4>2. CASE ~(x >= hi)
        BY <2>2, <2>3, <3>3, <4>2
      <4> QED
        BY <4>1, <4>2
    <3> QED
      BY <3>4, <3>5
  <2> QED
    BY <2>4, <2>5
<1>2. Ends(T)
  BY <1>1
<1> QED
  BY <1>2, Zenon DEF Min, Max

=============================================================================
