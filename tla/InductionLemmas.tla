-------------------------- MODULE InductionLemmas --------------------------
(***************************************************************************)
(* Induction in the form the proofs of this project use it: over a set of  *)
(* natural numbers, which is an ordinary parameter, where the library's    *)
(* induction theorems take a predicate.                                    *)
(***************************************************************************)
EXTENDS Integers, WellFoundedInduction, TLAPS

(* A set of natural numbers that is not empty has a least element. *)
LEMMA LeastElement ==
    ASSUME NEW T \in SUBSET Nat, T # {}
    PROVE  \E n \in T : \A m \in T : n <= m
<1>1. PICK n \in T : \A m \in T : ~(<<m, n>> \in OpToRel(<, Nat))
  BY NatLessThanWellFounded, WFMin, Zenon
<1>2. \A m \in T : ~(m < n)
  BY <1>1, Zenon DEF OpToRel
<1> QED BY <1>2

(* A set that holds 0 and with every number the next one, up to n. *)
LEMMA IntervalInduction ==
    ASSUME NEW n \in Nat, NEW T, 0 \in T,
           \A i \in 1 .. n : i - 1 \in T => i \in T
    PROVE  0 .. n \subseteq T
<1> DEFINE rest == (0 .. n) \ T
<1> SUFFICES ASSUME rest # {} PROVE FALSE
  OBVIOUS
<1>1. rest \in SUBSET Nat
  OBVIOUS
<1>2. PICK m \in rest : \A k \in rest : m <= k
  <2> HIDE DEF rest
  <2> QED BY <1>1, LeastElement
<1>3. m \in 1 .. n /\ m - 1 \notin rest
  BY <1>2
<1> QED BY <1>2, <1>3
=============================================================================
