----------------------------- MODULE Induction -----------------------------
(***************************************************************************)
(* Induction over the naturals as a statement about sets.  The induction   *)
(* theorems of NaturalsInduction take an operator, which no installed      *)
(* prover can instantiate; that the naturals are well-ordered can be       *)
(* stated without one.                                                     *)
(***************************************************************************)
EXTENDS Integers, WellFoundedInduction, TLAPS

LOCAL LessThan == {pair \in Nat \X Nat : pair[1] < pair[2]}

LEMMA LessThanWellFounded == IsWellFoundedOn(LessThan, Nat)
  BY NatLessThanWellFounded, Zenon DEF OpToRel, LessThan

\* A nonempty set of naturals has a least element.
LEMMA NatMinimum ==
  ASSUME NEW T \in SUBSET Nat, T # {}
  PROVE  \E m \in T : \A n \in T : m <= n
<1>1. PICK m \in T : \A n \in T : ~(<<n, m>> \in LessThan)
  BY LessThanWellFounded, WFMin
<1>2. ASSUME NEW n \in T PROVE m <= n
  <2>1. ~(n < m)
    BY <1>1 DEF LessThan
  <2> QED
    BY <2>1
<1> QED
  BY <1>2

\* A set of naturals that holds zero and with each number the next holds them all.
LEMMA NatInductionOnSets ==
  ASSUME NEW T \in SUBSET Nat, 0 \in T, \A n \in T : n + 1 \in T
  PROVE  T = Nat
<1>1. SUFFICES ASSUME Nat \ T # {} PROVE FALSE
  OBVIOUS
<1>2. PICK m \in Nat \ T : \A n \in Nat \ T : m <= n
  BY <1>1, NatMinimum
<1>3. m - 1 \in T
  BY <1>2
<1> QED
  BY <1>2, <1>3
=============================================================================
