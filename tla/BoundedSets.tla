----------------------------- MODULE BoundedSets -----------------------------
(***************************************************************************)
(* Least and greatest elements of sets of natural numbers, for the proofs  *)
(* about definitions that choose one.                                      *)
(***************************************************************************)
EXTENDS Integers, WellFoundedInduction, TLAPS

NatLess == {p \in Nat \X Nat : p[1] < p[2]}

\* Every set of natural numbers that is not empty has a least element.
LEMMA LeastElement ==
  ASSUME NEW S \in SUBSET Nat, S # {}
  PROVE  \E s \in S : \A t \in S : s <= t
<1>1. IsWellFoundedOn(NatLess, Nat)
  BY NatLessThanWellFounded DEF OpToRel, NatLess
<1>2. PICK s \in S : \A t \in S : ~ (<<t, s>> \in NatLess)
  BY <1>1, WFMin
<1>3. \A t \in S : s <= t
  <2> SUFFICES ASSUME NEW t \in S, t < s PROVE FALSE
    OBVIOUS
  <2>1. <<t, s>> \in NatLess
    BY DEF NatLess
  <2> QED BY <2>1, <1>2
<1> QED BY <1>3

\* ... and, if it is bounded, a greatest one.
LEMMA GreatestElement ==
  ASSUME NEW S \in SUBSET Nat, S # {}, NEW n \in Nat, \A s \in S : s <= n
  PROVE  \E s \in S : \A t \in S : t <= s
<1> DEFINE D == {n - s : s \in S}
<1>1. D # {}
  OBVIOUS
<1>2. D \in SUBSET Nat
  OBVIOUS
<1>3. PICK d \in D : \A e \in D : d <= e
  BY <1>1, <1>2, LeastElement
<1>4. PICK s \in S : d = n - s
  OBVIOUS
<1>5. \A t \in S : n - s <= n - t
  BY <1>3, <1>4
<1> QED BY <1>4, <1>5
=============================================================================
