------------------------------- MODULE Positions -------------------------------
(***************************************************************************)
(* The first of a set of positions in a list, which the models use for the *)
(* place where a loop of the code stops.                                   *)
(***************************************************************************)
EXTENDS Naturals, WellFoundedInduction, TLAPS

Less == {ss \in Nat \X Nat : ss[1] < ss[2]}

LEMMA LessIsLess == OpToRel(<, Nat) = Less
BY Zenon DEF OpToRel, Less

LEMMA LessWellFounded == IsWellFoundedOn(Less, Nat)
BY NatLessThanWellFounded, LessIsLess

LEMMA LessPair ==
  ASSUME NEW a \in Nat, NEW b \in Nat, a < b
  PROVE  <<a, b>> \in Less
BY DEF Less

\* A non-empty set of positions has a first one.
LEMMA FirstExists ==
  ASSUME NEW S, S \subseteq Nat, S # {}
  PROVE  \E i \in S : \A k \in S : i <= k
<1>1. PICK i \in S : \A k \in S : ~(<<k, i>> \in Less)
  BY LessWellFounded, WFMin
<1>2. ASSUME NEW k \in S
      PROVE  i <= k
  <2>1. k \in Nat /\ i \in Nat
    OBVIOUS
  <2>2. ~(k < i)
    BY <1>1, <2>1, LessPair
  <2>3. QED
    BY <2>1, <2>2
<1>3. QED
  BY <1>2

\* The position that the models choose is the first one.
LEMMA FirstPosition ==
  ASSUME NEW S, S \subseteq Nat, S # {}
  PROVE  LET first == CHOOSE i \in S : \A k \in S : i <= k
         IN  first \in S /\ \A k \in S : first <= k
BY FirstExists

\* A non-empty set of bounded positions has a last one.
LEMMA LastExists ==
  ASSUME NEW S, NEW n \in Nat, S \subseteq 0..n, S # {}
  PROVE  \E m \in S : \A p \in S : p <= m
<1> DEFINE D == {n - p : p \in S}
<1>1. D \subseteq Nat /\ D # {}
  <2>1. \A p \in S : n - p \in Nat
    OBVIOUS
  <2>2. QED
    BY <2>1
<1>2. PICK d \in D : \A e \in D : d <= e
  <2> HIDE DEF D
  <2>1. QED
    BY <1>1, FirstExists
<1>3. PICK m \in S : d = n - m
  OBVIOUS
<1>4. ASSUME NEW p \in S
      PROVE  p <= m
  <2>1. n - m <= n - p
    BY <1>2, <1>3
  <2>2. p \in Nat /\ m \in Nat
    OBVIOUS
  <2>3. QED
    BY <2>1, <2>2
<1>5. QED
  BY <1>4
=============================================================================
