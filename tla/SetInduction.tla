---------------------------- MODULE SetInduction ----------------------------
(***************************************************************************)
(* Induction over the natural numbers, stated of sets.  The induction      *)
(* theorems of the library take a predicate as a parameter, which no       *)
(* prover here can instantiate; that strict inclusion of finite sets is    *)
(* well founded takes none, and the rest follows.  What a recursive        *)
(* function computes is proved with these facts, of the set of the numbers *)
(* at which it is right.                                                   *)
(***************************************************************************)
EXTENDS Integers, FiniteSetTheorems, TLAPS

\* A set of natural numbers that is not empty has a least element.
LEMMA LeastElement ==
  ASSUME NEW T \in SUBSET Nat, T # {}
  PROVE  \E x \in T : \A y \in T : x <= y
<1> DEFINE Intervals == {0..k : k \in T}
<1>1. Intervals # {}
  OBVIOUS
<1>2. Intervals \subseteq FiniteSubsetsOf(Nat)
  <2>1. \A k \in T : k \in Int /\ 0..k \subseteq Nat
    OBVIOUS
  <2>2. \A k \in T : IsFiniteSet(0..k)
    BY <2>1, FS_Interval, 0 \in Int
  <2> QED
    BY <2>1, <2>2 DEF FiniteSubsetsOf
<1>3. IsWellFoundedOn(StrictSubsetOrdering(Nat), FiniteSubsetsOf(Nat))
  BY FS_StrictSubsetOrderingWellFounded
<1> HIDE DEF Intervals
<1>4. PICK m \in Intervals :
        \A y \in Intervals : ~ (<<y, m>> \in StrictSubsetOrdering(Nat))
  BY <1>1, <1>2, <1>3, WFMin
<1>5. PICK k \in T : m = 0..k
  BY DEF Intervals
<1>6. ASSUME NEW y \in T, y < k
      PROVE  FALSE
  <2>1. 0..y \in Intervals
    BY DEF Intervals
  <2>2. 0..y \subseteq 0..k /\ 0..y \in SUBSET Nat /\ 0..k \in SUBSET Nat
    BY <1>6
  <2>3. k \in 0..k /\ k \notin 0..y
    BY <1>6
  <2>4. <<0..y, 0..k>> \in StrictSubsetOrdering(Nat)
    BY <2>2, <2>3 DEF StrictSubsetOrdering
  <2> QED
    BY <1>4, <1>5, <2>1, <2>4
<1> QED
  BY <1>6

\* A set that has 0 and, with a number, the next one has every natural number.
LEMMA Induction ==
  ASSUME NEW T, 0 \in T, \A n \in Nat : n \in T => n + 1 \in T
  PROVE  Nat \subseteq T
<1>1. SUFFICES ASSUME Nat \ T # {}
               PROVE  FALSE
  OBVIOUS
<1>2. PICK x \in Nat \ T : \A y \in Nat \ T : x <= y
  <2>1. Nat \ T \in SUBSET Nat
    OBVIOUS
  <2> QED
    BY <1>1, <2>1, LeastElement
<1>3. x - 1 \in Nat
  BY <1>2
<1>4. x - 1 \in T
  BY <1>2, <1>3
<1>5. x - 1 + 1 \in T
  BY <1>3, <1>4
<1> QED
  BY <1>2, <1>5
=============================================================================
