---------------------------- MODULE NumberLemmas ----------------------------
(***************************************************************************)
(* The least and the largest of a set of natural numbers.  With them the   *)
(* other proof modules argue by induction over data: take the least number *)
(* for which a claim fails, and contradict it.                             *)
(***************************************************************************)
EXTENDS Integers, WellFoundedInduction, TLAPS

\* A set of natural numbers that is not empty has a smallest element.
LEMMA Smallest ==
  ASSUME NEW T \in SUBSET Nat, T # {}
  PROVE  \E m \in T : \A k \in T : m =< k
  <1>1. PICK x \in T : \A y \in T : ~(<<y, x>> \in OpToRel(<, Nat))
    BY WFMin, NatLessThanWellFounded
  <1>2. \A y \in T : ~(y < x)
    BY <1>1 DEF OpToRel
  <1> QED BY <1>2

\* A bounded one has a largest element.
LEMMA Largest ==
  ASSUME NEW T \in SUBSET Nat, T # {}, NEW b \in Nat, \A t \in T : t =< b
  PROVE  \E m \in T : \A t \in T : t =< m
  <1> DEFINE bounds == {c \in Nat : \A t \in T : t =< c}
  <1>1. PICK m \in bounds : \A c \in bounds : m =< c
    <2>1. bounds \in SUBSET Nat /\ bounds # {}
      OBVIOUS
    <2> HIDE DEF bounds
    <2> QED BY <2>1, Smallest
  <1>2. m \in T
    <2> SUFFICES ASSUME m \notin T PROVE FALSE OBVIOUS
    <2>1. \A t \in T : t < m
      BY <1>1
    <2>2. PICK t \in T : TRUE
      OBVIOUS
    <2>3. m - 1 \in Nat
      BY <2>1, <2>2, <1>1
    <2>4. m - 1 \in bounds
      BY <2>1, <2>3, <1>1
    <2> QED BY <1>1, <2>4
  <1> QED BY <1>1, <1>2
=============================================================================
