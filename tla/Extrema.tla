------------------------------ MODULE Extrema ------------------------------
(***************************************************************************)
(* The first and the last place of a list: a set of places that is not     *)
(* empty has a least and, when it is bounded, a greatest element, and what *)
(* holds of the first place and passes on to the next holds of all.        *)
(***************************************************************************)
EXTENDS Naturals, WellFoundedInduction, TLAPS

\* A set of natural numbers that is not empty has a least element.
THEOREM LeastExists ==
    ASSUME NEW S \in SUBSET Nat, S # {}
    PROVE  \E i \in S : \A j \in S : i <= j
  <1>1. PICK i \in S : \A j \in S : ~ (<<j, i>> \in OpToRel(<, Nat))
    BY WFMin, NatLessThanWellFounded
  <1>2. \A j \in S : ~ (j < i)
    BY <1>1 DEF OpToRel
  <1> QED
    BY <1>2

\* A set of natural numbers up to n that is not empty has a greatest element.
THEOREM GreatestExists ==
    ASSUME NEW n \in Nat, NEW S \in SUBSET (0 .. n), S # {}
    PROVE  \E i \in S : \A j \in S : j <= i
  <1> DEFINE T == {n - i : i \in S}
  <1>1. T \in SUBSET Nat /\ T # {}
    <2>1. \A i \in S : i \in Nat /\ n - i \in Nat
      OBVIOUS
    <2>2. PICK i \in S : TRUE
      OBVIOUS
    <2>3. n - i \in T
      BY <2>2
    <2> QED
      BY <2>1, <2>3
  <1>2. PICK k \in T : \A l \in T : k <= l
    BY <1>1, LeastExists
  <1>3. PICK i \in S : k = n - i
    BY <1>2
  <1>4. ASSUME NEW j \in S PROVE j <= i
    <2>1. n - j \in T
      BY <1>4
    <2> QED
      BY <1>2, <1>3, <2>1
  <1> QED
    BY <1>4

\* What holds at zero and passes from each place to the next holds up to the last:
\* P is the set of places where it holds.
THEOREM UpTo ==
    ASSUME NEW n \in Nat, NEW P, 0 \in P, \A i \in 1 .. n : i - 1 \in P => i \in P
    PROVE  \A i \in 0 .. n : i \in P
  <1> DEFINE S == {i \in 0 .. n : i \notin P}
  <1>1. SUFFICES ASSUME S # {} PROVE FALSE
    OBVIOUS
  <1>2. S \in SUBSET Nat
    OBVIOUS
  <1>3. PICK i \in S : \A j \in S : i <= j
    BY <1>1, <1>2, LeastExists
  <1>4. i \in 1 .. n
    BY <1>3
  <1>5. i - 1 \notin S
    BY <1>3, <1>4
  <1>6. i - 1 \in P
    BY <1>4, <1>5
  <1> QED
    BY <1>3, <1>4, <1>6
=============================================================================
