----------------------------- MODULE Induction -----------------------------
(***************************************************************************)
(* Induction over the numbers, stated of sets of them: what a recursive    *)
(* function computes is proved by way of the set of numbers up to which    *)
(* there is such a function.                                               *)
(***************************************************************************)
EXTENDS Naturals, WellFoundedInduction, TLAPS

LEMMA LessIsWellFounded == ~ \E f \in [Nat -> Nat] : \A n \in Nat : f[n+1] < f[n]
<1>1. SUFFICES ASSUME NEW ff \in [Nat -> Nat], \A n \in Nat : ff[n+1] < ff[n]
               PROVE  FALSE
  OBVIOUS
<1>2. \A n \in Nat : ff[n] \in Nat /\ ff[n+1] \in Nat
  OBVIOUS
<1>3. \A n \in Nat : <<ff[n+1], ff[n]>> \in OpToRel(<, Nat)
  BY <1>1, <1>2, Zenon DEF OpToRel
<1> QED
  BY <1>3, NatLessThanWellFounded, Zenon DEF IsWellFoundedOn

LEMMA LeastExists ==
  ASSUME NEW S, S \subseteq Nat, S # {}
  PROVE  \E i \in S : \A j \in S : i <= j
<1> DEFINE R == {p \in Nat \X Nat : p[1] < p[2]}
<1>1. IsWellFoundedOn(R, Nat)
  BY LessIsWellFounded DEF IsWellFoundedOn
<1>2. \A i, j \in Nat : i < j => <<i, j>> \in R
  OBVIOUS
<1> HIDE DEF R
<1>3. PICK i \in S : \A j \in S : ~ (<<j, i>> \in R)
  BY <1>1, WFMin
<1>4. \A j \in S : i \in Nat /\ j \in Nat /\ ~ (j < i)
  BY <1>2, <1>3
<1>5. \A j \in S : i <= j
  BY <1>4
<1> QED
  BY <1>3, <1>5

LEMMA SetInduction ==
  ASSUME NEW S, 0 \in S, \A n \in Nat : n \in S => n + 1 \in S
  PROVE  \A n \in Nat : n \in S
<1> SUFFICES ASSUME NEW m \in Nat, m \notin S PROVE FALSE
  OBVIOUS
<1> DEFINE R == {n \in Nat : n \notin S}
<1>1. R \subseteq Nat /\ R # {}
  OBVIOUS
<1>2. PICK i \in R : \A j \in R : i <= j
  BY <1>1, LeastExists
<1>3. i - 1 \in Nat /\ i - 1 \notin R /\ (i - 1) + 1 = i
  BY <1>2
<1> QED
  BY <1>2, <1>3

\* The same, up to a number.
LEMMA SetInductionTo ==
  ASSUME NEW N \in Nat, NEW S, 0 \in S, \A n \in 0 .. N - 1 : n \in S => n + 1 \in S
  PROVE  \A n \in 0 .. N : n \in S
<1> DEFINE R == {n \in Nat : n <= N => n \in S}
<1>1. 0 \in R
  OBVIOUS
<1>2. ASSUME NEW n \in Nat, n \in R PROVE n + 1 \in R
  BY <1>2
<1>3. \A n \in Nat : n \in R
  <2> HIDE DEF R
  <2> QED
    BY <1>1, <1>2, SetInduction
<1> QED
  BY <1>3
=============================================================================
