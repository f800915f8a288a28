---------------------------- MODULE SetInduction ----------------------------
(***************************************************************************)
(* Induction over the natural numbers for the members of a set: the set of *)
(* the numbers a fact holds for takes the place of the predicate.  What a  *)
(* recursive function of the models computes is proved with it.            *)
(***************************************************************************)
EXTENDS Integers, Sequences, WellFoundedInduction, TLAPS

\* The order of the natural numbers is well founded.
LEMMA NatOrder == IsWellFoundedOn({ss \in Nat \X Nat : ss[1] < ss[2]}, Nat)
BY NatLessThanWellFounded DEF OpToRel

\* A set of natural numbers that is not empty has a smallest element.
LEMMA SmallestOf ==
  ASSUME NEW T, T \subseteq Nat, T # {}
  PROVE  \E x \in T : \A y \in T : x <= y
<1>1. PICK x \in T : \A y \in T : ~ (<<y, x>> \in {ss \in Nat \X Nat : ss[1] < ss[2]})
  BY NatOrder, WFMin
<1>2. \A y \in T : x <= y
  <2>. TAKE y \in T
  <2>1. <<y, x>> \notin {ss \in Nat \X Nat : ss[1] < ss[2]} BY <1>1
  <2>2. ~(y < x) BY <2>1
  <2>3. x \in Nat /\ y \in Nat OBVIOUS
  <2>. QED BY <2>2, <2>3
<1>. QED BY <1>2

\* Induction up to a bound, for the members of a set.
LEMMA UpTo ==
  ASSUME NEW T, NEW m \in Nat, 0 \in T, \A n \in 0..(m-1) : n \in T => n + 1 \in T
  PROVE  0..m \subseteq T
<1>. SUFFICES ASSUME NEW k \in 0..m, k \notin T PROVE FALSE OBVIOUS
<1>. DEFINE Out == {n \in 0..m : n \notin T}
<1>1. Out \subseteq Nat /\ Out # {} OBVIOUS
<1>2. PICK x \in Out : \A y \in Out : x <= y BY <1>1, SmallestOf
<1>3. x # 0 /\ x \in 0..m /\ x \notin T BY <1>2
<1>4. x - 1 \in 0..(m-1) BY <1>3
<1>5. x - 1 \notin T BY <1>3, <1>4
<1>6. x - 1 \in Out BY <1>4, <1>5
<1>. QED BY <1>2, <1>3, <1>6

\* Induction over the natural numbers, for the members of a set.
LEMMA NatUpTo ==
  ASSUME NEW T, 0 \in T, \A n \in Nat : n \in T => n + 1 \in T
  PROVE  Nat \subseteq T
<1>. SUFFICES ASSUME NEW k \in Nat PROVE k \in T OBVIOUS
<1>1. 0..k \subseteq T BY UpTo
<1>. QED BY <1>1
=============================================================================
