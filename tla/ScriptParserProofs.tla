--------------------------- MODULE ScriptParserProofs ---------------------------
(***************************************************************************)
(* Proofs about ScriptParser and GroupSelect, for all releases and         *)
(* versions: what is built are jobs of different names and the             *)
(* dependencies that the headers declare, what is accepted is a DAG with   *)
(* one entry in every tree, a release nothing is wrong with is accepted,   *)
(* and no group is selected by itself to be replaced by an older version.  *)
(***************************************************************************)
EXTENDS ScriptParser, Positions, FiniteSetTheorems, TLAPS

-----------------------------------------------------------------------------
(* Comparing versions.                                                     *)

\* The place where a loop stops is one of its places, and none comes before.
LEMMA FirstIsFirst ==
  ASSUME NEW places, places \subseteq Nat, places # {}
  PROVE  First(places) \in places /\ \A k \in places : First(places) <= k
BY FirstPosition DEF First

LEMMA PartType ==
  ASSUME NEW a \in VersionSet, NEW k \in DOMAIN a
  PROVE  /\ DOMAIN a = 1..Len(a) /\ Len(a) \in Nat /\ k \in Nat
         /\ a[k] \in Seq(Nat \cup {NoNumber})
         /\ Len(a[k]) \in Nat /\ DOMAIN a[k] = 1..Len(a[k])
<1>1. /\ a \in Seq(Seq(Nat \cup {NoNumber})) /\ DOMAIN a = 1..Len(a) /\ Len(a) \in Nat
  BY DEF VersionSet
<1>2. a[k] \in Seq(Nat \cup {NoNumber})
  BY <1>1
<1>3. QED
  BY <1>1, <1>2

\* The numbers of a readable version are natural numbers, the missing ones zero.
LEMMA NumberType ==
  ASSUME NEW a \in VersionSet, Readable(a), NEW k, NEW i
  PROVE  /\ Number(a, k, i) \in Nat
         /\ k \in DOMAIN a /\ i \notin DOMAIN a[k] => Number(a, k, i) = 0
<1>1. CASE k \in DOMAIN a /\ i \in DOMAIN a[k]
  <2>1. a[k] \in Seq(Nat \cup {NoNumber})
    BY <1>1, PartType
  <2>2. a[k][i] \in Nat \cup {NoNumber}
    BY <1>1, <2>1
  <2>3. a[k][i] # NoNumber
    BY <1>1 DEF Readable, ToSet
  <2>4. QED
    BY <1>1, <2>2, <2>3 DEF Number
<1>2. CASE ~(k \in DOMAIN a /\ i \in DOMAIN a[k])
  BY <1>2 DEF Number
<1>3. QED
  BY <1>1, <1>2

\* In readable versions the loop stops at the numbers that differ, as far as the
\* part of b goes.
LEMMA DecisiveNumbers ==
  ASSUME NumberAssumption,
         NEW a \in VersionSet, NEW b \in VersionSet, Readable(a), Readable(b),
         NEW k \in DOMAIN a, k \in DOMAIN b
  PROVE  /\ Decisive(a[k], b[k]) = {i \in DOMAIN b[k] : Number(a, k, i) # Number(b, k, i)}
         /\ \A i \in DOMAIN b[k] : /\ Padded(a[k], Len(b[k]))[i] = Number(a, k, i)
                                   /\ b[k][i] = Number(b, k, i)
<1> DEFINE x == Padded(a[k], Len(b[k]))
<1>1. DOMAIN b[k] = 1..Len(b[k])
  BY PartType
<1>2. DOMAIN b[k] \subseteq DOMAIN x
  BY <1>1 DEF Padded
<1>3. ASSUME NEW i \in DOMAIN b[k]
      PROVE  x[i] = Number(a, k, i) /\ b[k][i] = Number(b, k, i)
  <2>1. i \in DOMAIN a[k] \cup 1..Len(b[k])
    BY <1>1
  <2>2. x[i] = IF i \in DOMAIN a[k] THEN a[k][i] ELSE 0
    BY <2>1 DEF Padded
  <2>3. QED
    BY <2>2 DEF Number
<1>4. \A i \in DOMAIN b[k] : NoNumber \notin {x[i], b[k][i]}
  <2> SUFFICES ASSUME NEW i \in DOMAIN b[k]
               PROVE  NoNumber \notin {x[i], b[k][i]}
    OBVIOUS
  <2>1. Number(a, k, i) \in Nat /\ Number(b, k, i) \in Nat
    BY NumberType
  <2>2. QED
    BY <1>3, <2>1 DEF NumberAssumption
<1>5. Decisive(a[k], b[k]) =
        {i \in DOMAIN x \cap DOMAIN b[k] : x[i] # b[k][i] \/ NoNumber \in {x[i], b[k][i]}}
  BY DEF Decisive
<1> HIDE DEF x
<1>6. Decisive(a[k], b[k]) = {i \in DOMAIN b[k] : x[i] # b[k][i]}
  BY <1>2, <1>4, <1>5
<1>7. QED
  BY <1>3, <1>6 DEF x

\* Whatever verComp takes to be greater is a later version, for parts of all lengths and
\* any number of suffixes.
LEMMA GreaterIsLater ==
  ASSUME NumberAssumption,
         NEW a \in VersionSet, NEW b \in VersionSet, Readable(a), Readable(b),
         VerComp(a, b) = 1
  PROVE  Later(a, b)
<1> DEFINE Differ == {k \in DOMAIN a \cap DOMAIN b : ~SamePart(a, b, k)}
           Parts == {k \in DOMAIN a \cap DOMAIN b : Decisive(a[k], b[k]) # {}}
<1>1. /\ DOMAIN a = 1..Len(a) /\ Len(a) \in Nat
      /\ DOMAIN b = 1..Len(b) /\ Len(b) \in Nat
  BY DEF VersionSet
<1>2. VerComp(a, b) =
        CASE Parts # {}                    -> ComparePart(a[First(Parts)], b[First(Parts)])
          [] Parts = {} /\ Len(a) = Len(b) -> 0
          [] Parts = {} /\ Len(a) < Len(b) -> 1
          [] Parts = {} /\ Len(a) > Len(b) -> -1
  BY DEF VerComp
<1>3. \A k \in DOMAIN a \cap DOMAIN b :
        Decisive(a[k], b[k]) = {i \in DOMAIN b[k] : Number(a, k, i) # Number(b, k, i)}
  BY DecisiveNumbers
<1>4. \A k \in DOMAIN a \cap DOMAIN b : Places(a, b, k) = DOMAIN a[k] \cup DOMAIN b[k]
  BY DEF Places
<1>5. \A k \in DOMAIN a \cap DOMAIN b : SamePart(a, b, k) => Decisive(a[k], b[k]) = {}
  BY <1>3, <1>4 DEF SamePart
<1> HIDE DEF Parts, Differ
<1>6. CASE Differ = {}
  <2>1. Parts = {}
    BY <1>5, <1>6 DEF Differ, Parts
  <2>2. Len(a) < Len(b)
    <3>1. Len(a) = Len(b) => VerComp(a, b) = 0
      BY <1>1, <1>2, <2>1
    <3>2. Len(a) > Len(b) => VerComp(a, b) = -1
      BY <1>1, <1>2, <2>1
    <3>3. VerComp(a, b) # 0 /\ VerComp(a, b) # -1
      OBVIOUS
    <3>4. Len(a) # Len(b) /\ ~(Len(a) > Len(b))
      BY <3>1, <3>2, <3>3
    <3>5. Len(a) \in Nat /\ Len(b) \in Nat
      BY <1>1
    <3>6. QED
      BY <3>4, <3>5
  <2>3. Len(a) + 1 \in DOMAIN b
    BY <1>1, <2>2
  <2>4. \A l \in 1 .. (Len(a) + 1) - 1 : l \in DOMAIN a /\ SamePart(a, b, l)
    BY <1>1, <1>6, <2>2 DEF Differ
  <2>5. QED
    BY <2>3, <2>4 DEF Later
<1>7. CASE Differ # {}
  <2> DEFINE k == First(Differ)
             P == {i \in Places(a, b, k) : Number(a, k, i) # Number(b, k, i)}
             i == First(P)
  <2>1. Differ \subseteq Nat
    BY <1>1 DEF Differ
  <2>2. k \in Differ /\ \A l \in Differ : k <= l
    BY <1>7, <2>1, FirstIsFirst
  <2>3. k \in DOMAIN a /\ k \in DOMAIN b /\ ~SamePart(a, b, k) /\ k \in Nat
    BY <2>1, <2>2 DEF Differ
  <2> HIDE DEF k
  <2>4. /\ Places(a, b, k) = DOMAIN a[k] \cup DOMAIN b[k]
        /\ DOMAIN a[k] = 1..Len(a[k]) /\ DOMAIN b[k] = 1..Len(b[k])
        /\ Len(a[k]) \in Nat /\ Len(b[k]) \in Nat
    BY <1>4, <2>3, PartType
  <2>5. P \subseteq Nat /\ P # {}
    <3>1. Places(a, b, k) \subseteq Nat
      BY <2>4
    <3>2. QED
      BY <2>3, <3>1 DEF SamePart
  <2>6. i \in P /\ \A h \in P : i <= h
    <3> HIDE DEF P
    <3>1. QED
      BY <2>5, FirstIsFirst
  <2>7. i \in Nat /\ i \in Places(a, b, k) /\ Number(a, k, i) # Number(b, k, i)
    BY <2>5, <2>6
  <2>8. \A l \in 1 .. k - 1 : l \in DOMAIN a /\ l \in DOMAIN b /\ SamePart(a, b, l)
    <3> SUFFICES ASSUME NEW l \in 1 .. k - 1
                 PROVE  l \in DOMAIN a /\ l \in DOMAIN b /\ SamePart(a, b, l)
      OBVIOUS
    <3>1. l \in DOMAIN a /\ l \in DOMAIN b /\ ~(k <= l)
      BY <1>1, <2>3
    <3>2. QED
      BY <2>2, <3>1 DEF Differ
  <2>9. \A h \in 1 .. i - 1 : Number(a, k, h) = Number(b, k, h)
    <3> SUFFICES ASSUME NEW h \in 1 .. i - 1
                 PROVE  Number(a, k, h) = Number(b, k, h)
      OBVIOUS
    <3>1. ~(i <= h)
      BY <2>7
    <3>2. h \notin P
      BY <2>6, <3>1
    <3>3. CASE h \in Places(a, b, k)
      BY <3>2, <3>3
    <3>4. CASE h \notin Places(a, b, k)
      BY <2>3, <2>4, <3>4, NumberType
    <3>5. QED
      BY <3>3, <3>4
  <2> HIDE DEF P, i
  <2>10. Number(a, k, i) \in Nat /\ Number(b, k, i) \in Nat
    BY NumberType
  <2>11. Number(a, k, i) > Number(b, k, i)
    <3>1. CASE i \notin DOMAIN b[k]
      <4>1. Number(b, k, i) = 0
        BY <2>3, <3>1, NumberType
      <4>2. QED
        BY <2>7, <2>10, <4>1
    <3>2. CASE i \in DOMAIN b[k]
      <4>1. i \in Decisive(a[k], b[k]) /\ Decisive(a[k], b[k]) \subseteq P
        BY <1>3, <2>3, <2>4, <2>7, <3>2 DEF P
      <4>2. k \in Parts /\ \A l \in Parts : k <= l
        <5>1. k \in Parts
          BY <2>3, <4>1 DEF Parts
        <5>2. ASSUME NEW l \in Parts
              PROVE  k <= l
          <6>1. l \in DOMAIN a /\ l \in DOMAIN b /\ Decisive(a[l], b[l]) # {} /\ l \in Nat
            BY <1>1 DEF Parts
          <6>2. l \in Differ
            BY <1>5, <6>1 DEF Differ
          <6>3. QED
            BY <2>2, <6>2
        <5>3. QED
          BY <5>1, <5>2
      <4>3. First(Parts) = k
        <5>1. Parts \subseteq Nat /\ Parts # {}
          BY <1>1, <4>2 DEF Parts
        <5>2. First(Parts) \in Parts /\ First(Parts) <= k /\ First(Parts) \in Nat
          BY <4>2, <5>1, FirstIsFirst
        <5>3. QED
          BY <2>3, <4>2, <5>2
      <4>4. First(Decisive(a[k], b[k])) = i
        <5> DEFINE D == Decisive(a[k], b[k])
        <5> HIDE DEF D
        <5>1. D \subseteq Nat /\ D # {} /\ i \in D /\ D \subseteq P
          BY <2>5, <4>1 DEF D
        <5>2. First(D) \in D /\ First(D) <= i /\ First(D) \in Nat
          BY <5>1, FirstIsFirst
        <5>3. i <= First(D)
          BY <2>6, <5>1, <5>2
        <5>4. QED
          BY <2>7, <5>2, <5>3 DEF D
      <4>5. ComparePart(a[k], b[k]) = 1
        BY <1>2, <4>2, <4>3
      <4>6. /\ Padded(a[k], Len(b[k]))[i] = Number(a, k, i)
            /\ b[k][i] = Number(b, k, i)
        BY <2>3, <3>2, DecisiveNumbers
      <4>7. QED
        BY <2>10, <4>4, <4>5, <4>6 DEF ComparePart, VersionCompareError
    <3>3. QED
      BY <3>1, <3>2
  <2>12. QED
    BY <2>3, <2>7, <2>8, <2>9, <2>11 DEF Later
<1>8. QED
  BY <1>6, <1>7

-----------------------------------------------------------------------------
(* Induction and recursion.                                                *)

\* What holds of zero and of the successor of each number it holds of, holds of all.
LEMMA Induction ==
  ASSUME NEW S, 0 \in S, \A n \in Nat : n \in S => n + 1 \in S
  PROVE  Nat \subseteq S
<1> DEFINE Bad == Nat \ S
<1>1. SUFFICES ASSUME Bad # {}
               PROVE  FALSE
  OBVIOUS
<1>2. PICK m \in Bad : \A k \in Bad : m <= k
  <2>1. Bad \subseteq Nat
    OBVIOUS
  <2> HIDE DEF Bad
  <2>2. QED
    BY <1>1, <2>1, FirstExists
<1>3. m \in Nat /\ m # 0 /\ m \notin S
  OBVIOUS
<1>4. m - 1 \in Nat /\ (m - 1) + 1 = m /\ ~(m <= m - 1)
  BY <1>3
<1>5. m - 1 \in S
  BY <1>2, <1>4
<1>6. QED
  BY <1>3, <1>4, <1>5

\* A function may be defined from its value at zero and from each value to the next.
Steps(X) == [Nat -> [X -> X]]

Iteration(f, X, x0, s) ==
  f \in [Nat -> X] /\ f[0] = x0 /\ \A n \in Nat : f[n + 1] = s[n][f[n]]

LEMMA Iterates ==
  ASSUME NEW X, NEW x0 \in X, NEW s \in Steps(X)
  PROVE  \E f : Iteration(f, X, x0, s)
<1> DEFINE Upto(g, m) == /\ g \in [0..m -> X] /\ g[0] = x0
                         /\ \A i \in 0..m : i # m => g[i + 1] = s[i][g[i]]
           Good == {m \in Nat : \E g : Upto(g, m)}
<1>0. s \in [Nat -> [X -> X]]
  BY DEF Steps
<1>1. 0 \in Good
  <2>1. Upto([i \in 0..0 |-> x0], 0)
    OBVIOUS
  <2>2. QED
    BY <2>1
<1>2. ASSUME NEW m \in Nat, m \in Good
      PROVE  m + 1 \in Good
  <2>1. PICK g : Upto(g, m)
    BY <1>2
  <2> DEFINE h == [i \in 0..(m + 1) |-> IF i = m + 1 THEN s[m][g[m]] ELSE g[i]]
  <2>2. \A i \in 0..(m + 1) : i # m + 1 => i \in 0..m
    OBVIOUS
  <2>3. m \in 0..m /\ g[m] \in X /\ s[m][g[m]] \in X
    BY <1>0, <2>1
  <2>4. h \in [0..(m + 1) -> X]
    BY <2>1, <2>2, <2>3
  <2>5. h[0] = x0
    BY <2>1
  <2>6. ASSUME NEW i \in 0..(m + 1), i # m + 1
        PROVE  h[i + 1] = s[i][h[i]]
    <3>1. CASE i = m
      BY <3>1
    <3>2. CASE i # m
      <4>1. i \in 0..m /\ i + 1 \in 0..(m + 1) /\ i + 1 # m + 1
        BY <2>6, <3>2
      <4>2. h[i + 1] = g[i + 1] /\ h[i] = g[i]
        BY <4>1, <2>6
      <4>3. g[i + 1] = s[i][g[i]]
        BY <2>1, <3>2, <4>1
      <4>4. QED
        BY <4>2, <4>3
    <3>3. QED
      BY <3>1, <3>2
  <2>7. Upto(h, m + 1)
    BY <2>4, <2>5, <2>6
  <2> HIDE DEF h, Upto
  <2>8. QED
    BY <2>7
<1>3. \A m \in Nat : \E g : Upto(g, m)
  <2>1. Nat \subseteq Good
    <3> HIDE DEF Good
    <3>1. QED
      BY <1>1, <1>2, Induction
  <2>2. QED
    BY <2>1
<1>4. ASSUME NEW m \in Nat, NEW g, NEW n \in Nat, NEW h, Upto(g, m), Upto(h, n), m <= n
      PROVE  g[m] = h[m]
  <2> DEFINE Same == {i \in Nat : i <= m => g[i] = h[i]}
  <2>1. 0 \in Same
    BY <1>4
  <2>2. ASSUME NEW i \in Nat, i \in Same
        PROVE  i + 1 \in Same
    <3>1. SUFFICES ASSUME i + 1 <= m
                   PROVE  g[i + 1] = h[i + 1]
      OBVIOUS
    <3>2. i \in 0..m /\ i # m /\ i \in 0..n /\ i # n /\ i <= m
      BY <1>4, <3>1
    <3>3. QED
      BY <1>4, <2>2, <3>2
  <2>3. Nat \subseteq Same
    <3> HIDE DEF Same
    <3>1. QED
      BY <2>1, <2>2, Induction
  <2>4. QED
    BY <2>3
<1> DEFINE G(m) == CHOOSE g : Upto(g, m)
           f == [m \in Nat |-> G(m)[m]]
<1>5. \A m \in Nat : Upto(G(m), m)
  BY <1>3
<1> HIDE DEF G
<1>6. f \in [Nat -> X]
  <2>1. \A m \in Nat : m \in 0..m
    OBVIOUS
  <2>2. QED
    BY <1>5, <2>1
<1>7. f[0] = x0
  BY <1>5
<1>8. ASSUME NEW n \in Nat
      PROVE  f[n + 1] = s[n][f[n]]
  <2>1. Upto(G(n + 1), n + 1) /\ Upto(G(n), n)
    BY <1>5
  <2>2. n \in 0..(n + 1) /\ n # n + 1 /\ n <= n + 1 /\ n + 1 \in Nat
    OBVIOUS
  <2>3. G(n + 1)[n + 1] = s[n][G(n + 1)[n]]
    BY <2>1, <2>2
  <2>4. G(n)[n] = G(n + 1)[n]
    <3> HIDE DEF Upto
    <3>1. QED
      BY <1>4, <2>1, <2>2
  <2>5. QED
    BY <2>2, <2>3, <2>4
<1>9. QED
  BY <1>6, <1>7, <1>8 DEF Iteration

-----------------------------------------------------------------------------
(* Sequences.                                                              *)

\* Sequences are put one after the other from the left.
LEMMA FlattenUnfolds ==
  ASSUME NEW S, NEW seqs \in Seq(Seq(S))
  PROVE  \E f \in [Nat -> Seq(S)] :
           /\ f[0] = <<>>
           /\ \A i \in 1..Len(seqs) : f[i] = f[i - 1] \o seqs[i]
           /\ FlattenSeq(seqs) = f[Len(seqs)]
<1> DEFINE n == Len(seqs)
           X == Seq(S)
           s == [i \in Nat |-> [x \in X |-> IF i + 1 \in 1..n THEN x \o seqs[i + 1] ELSE x]]
<1>1. n \in Nat /\ \A i \in 1..n : seqs[i] \in X
  OBVIOUS
<1>2. <<>> \in X /\ \A x \in X, y \in X : x \o y \in X /\ <<>> \o y = y
  OBVIOUS
<1>3. s \in Steps(X)
  <2> HIDE DEF X, n
  <2>1. ASSUME NEW i \in Nat, NEW x \in X
        PROVE  (IF i + 1 \in 1..n THEN x \o seqs[i + 1] ELSE x) \in X
    BY <1>1, <1>2
  <2>2. QED
    BY <2>1 DEF Steps
<1>4. PICK f \in [Nat -> X] : f[0] = <<>> /\ \A i \in Nat : f[i + 1] = s[i][f[i]]
  <2> DEFINE e == <<>>
  <2>1. e \in X
    BY <1>2
  <2> HIDE DEF X, s, e
  <2>2. \E f : Iteration(f, X, e, s)
    BY <1>3, <2>1, Iterates
  <2>3. QED
    BY <2>2 DEF e, Iteration
<1>5. ASSUME NEW i \in 1..n
      PROVE  f[i] = f[i - 1] \o seqs[i]
  <2>1. i - 1 \in Nat /\ (i - 1) + 1 = i
    BY <1>1
  <2>2. f[i - 1] \in X
    BY <1>4, <2>1
  <2> HIDE DEF X, n
  <2>3. s[i - 1][f[i - 1]] = f[i - 1] \o seqs[i]
    BY <2>1, <2>2
  <2>4. QED
    BY <1>4, <2>1, <2>3
<1>6. FlattenSeq(seqs) = f[n]
  <2>1. CASE n = 0
    <3>1. FlattenSeq(seqs) = seqs /\ seqs = <<>>
      BY <2>1 DEF FlattenSeq
    <3>2. QED
      BY <1>4, <2>1, <3>1
  <2>2. CASE n # 0
    <3> DEFINE Step(g, i) == IF i = 1 THEN seqs[i] ELSE g[i - 1] \o seqs[i]
               flatten == CHOOSE g : g = [i \in 1..n |-> Step(g, i)]
               h == [i \in 1..n |-> f[i]]
    <3>1. FlattenSeq(seqs) = flatten[n]
      BY <2>2 DEF FlattenSeq
    <3>2. \A i \in 1..n : i # 1 => i - 1 \in 1..n
      BY <1>1
    <3>3. ASSUME NEW i \in 1..n
          PROVE  h[i] = Step(h, i)
      <4>1. CASE i = 1
        <5>1. f[i] = f[i - 1] \o seqs[i]
          BY <1>5
        <5>2. i - 1 = 0 /\ f[i - 1] = <<>> /\ seqs[i] \in Seq(S)
          BY <1>1, <1>4, <4>1
        <5>3. f[i] = seqs[i]
          BY <5>1, <5>2
        <5>4. QED
          BY <4>1, <5>3
      <4>2. CASE i # 1
        BY <1>5, <3>2, <4>2
      <4>3. QED
        BY <4>1, <4>2
    <3>4. h = [i \in 1..n |-> Step(h, i)]
      BY <3>3
    <3> HIDE DEF h
    <3>5. flatten = [i \in 1..n |-> Step(flatten, i)]
      BY <3>4
    <3> HIDE DEF flatten
    <3> DEFINE Same == {i \in Nat : i \in 1..n => flatten[i] = h[i]}
    <3>6. 0 \in Same
      OBVIOUS
    <3>7. ASSUME NEW i \in Nat, i \in Same
          PROVE  i + 1 \in Same
      <4>1. SUFFICES ASSUME i + 1 \in 1..n
                     PROVE  flatten[i + 1] = h[i + 1]
        OBVIOUS
      <4>2. flatten[i + 1] = Step(flatten, i + 1) /\ h[i + 1] = Step(h, i + 1)
        BY <3>4, <3>5, <4>1
      <4>3. i + 1 # 1 => i \in 1..n
        BY <1>1, <4>1
      <4>4. (i + 1) - 1 = i
        OBVIOUS
      <4>5. QED
        BY <3>7, <4>2, <4>3, <4>4
    <3>8. Nat \subseteq Same
      <4> HIDE DEF Same
      <4>1. QED
        BY <3>6, <3>7, Induction
    <3>9. flatten[n] = h[n] /\ n \in 1..n
      BY <1>1, <2>2, <3>8
    <3>10. QED
      BY <3>1, <3>9 DEF h
  <2>3. QED
    BY <2>1, <2>2
<1>7. QED
  BY <1>4, <1>5, <1>6

\* The members of two sequences, one after the other.
LEMMA ConcatMembers ==
  ASSUME NEW S, NEW a \in Seq(S), NEW b \in Seq(S)
  PROVE  ToSet(a \o b) = ToSet(a) \cup ToSet(b)
<1> DEFINE c == a \o b
<1>1. /\ DOMAIN a = 1..Len(a) /\ Len(a) \in Nat
      /\ DOMAIN b = 1..Len(b) /\ Len(b) \in Nat
      /\ DOMAIN c = 1..(Len(a) + Len(b))
  OBVIOUS
<1>2. /\ \A i \in DOMAIN a : i \in DOMAIN c /\ c[i] = a[i]
      /\ \A i \in DOMAIN b : Len(a) + i \in DOMAIN c /\ c[Len(a) + i] = b[i]
  BY <1>1
<1>3. \A i \in DOMAIN c : \/ i \in DOMAIN a /\ c[i] = a[i]
                          \/ i - Len(a) \in DOMAIN b /\ c[i] = b[i - Len(a)]
  BY <1>1
<1> HIDE DEF c
<1>4. ToSet(c) \subseteq ToSet(a) \cup ToSet(b)
  BY <1>3 DEF ToSet
<1>5. ToSet(a) \subseteq ToSet(c)
  BY <1>2 DEF ToSet
<1>6. ToSet(b) \subseteq ToSet(c)
  BY <1>2 DEF ToSet
<1>7. QED
  BY <1>4, <1>5, <1>6 DEF c

\* Sequences one after the other have the members of each, and no others.
LEMMA FlattenMembers ==
  ASSUME NEW S, NEW seqs \in Seq(Seq(S))
  PROVE  /\ FlattenSeq(seqs) \in Seq(S)
         /\ ToSet(FlattenSeq(seqs)) = UNION {ToSet(seqs[i]) : i \in DOMAIN seqs}
<1> DEFINE n == Len(seqs)
           Upto(i) == UNION {ToSet(seqs[k]) : k \in 1..i}
<1>1. PICK f \in [Nat -> Seq(S)] :
        /\ f[0] = <<>>
        /\ \A i \in 1..n : f[i] = f[i - 1] \o seqs[i]
        /\ FlattenSeq(seqs) = f[n]
  BY FlattenUnfolds
<1>2. n \in Nat /\ DOMAIN seqs = 1..n /\ \A i \in 1..n : seqs[i] \in Seq(S)
  OBVIOUS
<1> DEFINE Good == {i \in Nat : i <= n => ToSet(f[i]) = Upto(i)}
<1>3. 0 \in Good
  <2>1. Upto(0) = {}
    <3>1. 1..0 = {}
      OBVIOUS
    <3>2. QED
      BY <3>1
  <2>2. ToSet(f[0]) = {}
    BY <1>1 DEF ToSet
  <2>3. QED
    BY <2>1, <2>2
<1>4. ASSUME NEW i \in Nat, i \in Good
      PROVE  i + 1 \in Good
  <2>1. SUFFICES ASSUME i + 1 <= n
                 PROVE  ToSet(f[i + 1]) = Upto(i + 1)
    <3> HIDE DEF Upto
    <3>1. i + 1 \in Nat
      OBVIOUS
    <3>2. QED
      BY <3>1
  <2>2. i + 1 \in 1..n /\ (i + 1) - 1 = i /\ i <= n
    BY <1>2, <2>1
  <2>3. f[i + 1] = f[i] \o seqs[i + 1]
    BY <1>1, <2>2
  <2>4. f[i] \in Seq(S) /\ seqs[i + 1] \in Seq(S)
    BY <1>1, <1>2, <2>2
  <2>5. ToSet(f[i + 1]) = ToSet(f[i]) \cup ToSet(seqs[i + 1])
    BY <2>3, <2>4, ConcatMembers
  <2>6. ToSet(f[i]) = Upto(i)
    BY <1>4, <2>2
  <2>7. /\ \A k \in 1..(i + 1) : k \in 1..i \/ k = i + 1
        /\ 1..i \subseteq 1..(i + 1) /\ i + 1 \in 1..(i + 1)
    OBVIOUS
  <2>8. Upto(i + 1) = Upto(i) \cup ToSet(seqs[i + 1])
    <3>1. Upto(i + 1) \subseteq Upto(i) \cup ToSet(seqs[i + 1])
      BY <2>7
    <3>2. Upto(i) \subseteq Upto(i + 1)
      BY <2>7
    <3>3. ToSet(seqs[i + 1]) \subseteq Upto(i + 1)
      BY <2>7
    <3>4. QED
      BY <3>1, <3>2, <3>3
  <2>9. QED
    BY <2>5, <2>6, <2>8
<1>5. Nat \subseteq Good
  <2> HIDE DEF Good
  <2>1. QED
    BY <1>3, <1>4, Induction
<1>6. ToSet(f[n]) = Upto(n)
  <2>1. n \in Good
    BY <1>2, <1>5
  <2> HIDE DEF Upto
  <2>2. QED
    BY <1>2, <2>1
<1>7. QED
  BY <1>1, <1>2, <1>6

\* Among picks members of the sequence that are in the set.
LEMMA AmongType ==
  ASSUME NEW S, NEW seq \in Seq(S), NEW set
  PROVE  Among(seq, set) \in Seq(S \cap set)
<1> DEFINE parts == [i \in DOMAIN seq |-> IF seq[i] \in set THEN <<seq[i]>> ELSE <<>>]
<1>1. DOMAIN seq = 1..Len(seq) /\ Len(seq) \in Nat
  OBVIOUS
<1>2. \A i \in DOMAIN seq : seq[i] \in S
  OBVIOUS
<1>3. ASSUME NEW i \in DOMAIN seq
      PROVE  parts[i] \in Seq(S \cap set)
  <2>1. CASE seq[i] \in set
    <3>1. parts[i] = <<seq[i]>> /\ seq[i] \in S \cap set
      BY <1>2, <2>1
    <3>2. QED
      BY <3>1
  <2>2. CASE seq[i] \notin set
    <3>1. parts[i] = <<>>
      BY <2>2
    <3>2. QED
      BY <3>1
  <2>3. QED
    BY <2>1, <2>2
<1>4. parts \in [1..Len(seq) -> Seq(S \cap set)]
  BY <1>1, <1>3
<1> HIDE DEF parts
<1>5. parts \in Seq(Seq(S \cap set))
  BY <1>1, <1>4
<1>6. FlattenSeq(parts) \in Seq(S \cap set)
  BY <1>5, FlattenMembers
<1>7. QED
  BY <1>6 DEF Among, parts

\* A function on 1..n is a sequence.
LEMMA MapType ==
  ASSUME NEW S, NEW T, NEW seq \in Seq(S), NEW f, DOMAIN f = DOMAIN seq,
         f = [i \in DOMAIN f |-> f[i]], \A i \in DOMAIN seq : f[i] \in T
  PROVE  f \in Seq(T)
<1>1. DOMAIN seq = 1..Len(seq) /\ Len(seq) \in Nat
  OBVIOUS
<1>2. f \in [1..Len(seq) -> T]
  BY <1>1
<1>3. QED
  BY <1>1, <1>2

\* Two readable versions can be compared.
LEMMA ReadableCompares ==
  ASSUME NumberAssumption,
         NEW a \in VersionSet, NEW b \in VersionSet, Readable(a), Readable(b)
  PROVE  VerComp(a, b) # VersionCompareError
<1> DEFINE Parts == {k \in DOMAIN a \cap DOMAIN b : Decisive(a[k], b[k]) # {}}
<1>1. /\ DOMAIN a = 1..Len(a) /\ Len(a) \in Nat
      /\ DOMAIN b = 1..Len(b) /\ Len(b) \in Nat
  BY DEF VersionSet
<1>2. CASE Parts = {}
  <2>1. VerComp(a, b) \in {0, 1, -1}
    <3>1. Len(a) \in Nat /\ Len(b) \in Nat
      BY <1>1
    <3> DEFINE m == Len(a)
               n == Len(b)
    <3>2. m = n \/ m < n \/ m > n
      <4> HIDE DEF m, n
      <4>1. m \in Nat /\ n \in Nat
        BY <3>1 DEF m, n
      <4>2. QED
        BY <4>1
    <3>3. VerComp(a, b) = CASE Parts # {}           -> ComparePart(a[First(Parts)], b[First(Parts)])
                            [] Parts = {} /\ m = n -> 0
                            [] Parts = {} /\ m < n -> 1
                            [] Parts = {} /\ m > n -> -1
      BY DEF VerComp
    <3> HIDE DEF Parts, m, n
    <3>4. CASE m = n
      <4>1. ~ (m < n) /\ ~ (m > n)
        BY <3>1, <3>4 DEF m, n
      <4>2. QED
        BY <1>2, <3>3, <3>4, <4>1
    <3>5. CASE m < n
      <4>1. m # n /\ ~ (m > n)
        BY <3>1, <3>5 DEF m, n
      <4>2. QED
        BY <1>2, <3>3, <3>5, <4>1
    <3>6. CASE m > n
      <4>1. m # n /\ ~ (m < n)
        BY <3>1, <3>6 DEF m, n
      <4>2. QED
        BY <1>2, <3>3, <3>6, <4>1
    <3>7. QED
      BY <3>2, <3>4, <3>5, <3>6
  <2>2. QED
    BY <2>1 DEF VersionCompareError
<1>3. CASE Parts # {}
  <2> DEFINE k == First(Parts)
             D == Decisive(a[k], b[k])
             i == First(D)
  <2>1. k \in Parts
    <3>1. Parts \subseteq Nat
      BY <1>1
    <3> HIDE DEF Parts
    <3>2. QED
      BY <1>3, <3>1, FirstIsFirst
  <2>2. k \in DOMAIN a /\ k \in DOMAIN b /\ D # {}
    BY <2>1
  <2>3. VerComp(a, b) = ComparePart(a[k], b[k])
    BY <1>3 DEF VerComp
  <2> HIDE DEF k
  <2>4. D = {h \in DOMAIN b[k] : Number(a, k, h) # Number(b, k, h)} /\ DOMAIN b[k] \subseteq Nat
    <3>1. DOMAIN b[k] = 1..Len(b[k])
      BY <2>2, PartType
    <3>2. QED
      BY <2>2, <3>1, DecisiveNumbers
  <2>5. i \in DOMAIN b[k]
    <3>1. D \subseteq Nat /\ D \subseteq DOMAIN b[k]
      BY <2>4
    <3> HIDE DEF D
    <3>2. QED
      BY <2>2, <3>1, FirstIsFirst
  <2>6. /\ Padded(a[k], Len(b[k]))[i] = Number(a, k, i)
        /\ b[k][i] = Number(b, k, i)
    BY <2>2, <2>5, DecisiveNumbers
  <2>7. Number(a, k, i) # NoNumber /\ Number(b, k, i) # NoNumber
    BY NumberType DEF NumberAssumption
  <2>8. ComparePart(a[k], b[k]) \in {1, -1}
    BY <2>6, <2>7 DEF ComparePart
  <2>9. QED
    BY <2>3, <2>8 DEF VersionCompareError
<1>4. QED
  BY <1>2, <1>3

-----------------------------------------------------------------------------
(* Reading directories.                                                    *)

ScriptSet == [name : Names, override : BOOLEAN, header : Headers]
AskSet == [kind : {"hard", "soft", "child", "phase"}, tree : Trees, script : Names,
           defined : BOOLEAN, other : Patterns]
DepSet == [tree : Trees, parent : Patterns, child : Patterns]

\* What has been read has the types the constants promise.
ReadInv ==
  /\ release \in Releases
  /\ groups \in Seq(Groups)
  /\ unread \in Seq([group : Groups, override : BOOLEAN])
  /\ scripts \in [Groups -> Seq(ScriptSet)]

LEMMA DirectoriesType ==
  ASSUME NEW selected \in Seq(Groups), NEW o \in BOOLEAN
  PROVE  Directories(selected, o) \in Seq([group : Groups, override : BOOLEAN])
<1> DEFINE f == [i \in DOMAIN selected |-> [group |-> selected[i], override |-> o]]
<1>1. \A i \in DOMAIN selected : selected[i] \in Groups
  OBVIOUS
<1>2. \A i \in DOMAIN selected : f[i] \in [group : Groups, override : BOOLEAN]
  BY <1>1
<1>3. DOMAIN f = DOMAIN selected /\ f = [i \in DOMAIN f |-> f[i]]
  OBVIOUS
<1> HIDE DEF f
<1>4. f \in Seq([group : Groups, override : BOOLEAN])
  BY <1>2, <1>3, MapType
<1>5. QED
  BY <1>4 DEF Directories, f

\* What is chosen is of the release, and was to be installed.
LEMMA ChosenType ==
  ASSUME ReleaseAssumption, NEW r \in Releases
  PROVE  Chosen(r.install, r.named) \in
           Seq({g \in GroupElements(Groups) : g \in ToSet(r.install) /\ ToInstall(g, r.named)})
<1> DEFINE wanted == {g \in ToSet(r.install) : ToInstall(g, r.named)}
           S == {g \in GroupElements(Groups) : g \in ToSet(r.install) /\ ToInstall(g, r.named)}
<1>1. r.install \in Seq(GroupElements(Groups))
  BY DEF ReleaseAssumption
<1>2. GroupElements(Groups) \cap wanted = S
  OBVIOUS
<1> HIDE DEF wanted, S
<1>3. Among(r.install, wanted) \in Seq(GroupElements(Groups) \cap wanted)
  BY <1>1, AmongType
<1>4. QED
  BY <1>2, <1>3 DEF Chosen, wanted, S

\* The names of the chosen groups.
LEMMA NamesType ==
  ASSUME ReleaseAssumption, NEW r \in Releases,
         NEW chosen, chosen = Chosen(r.install, r.named),
         NEW names, names = [i \in DOMAIN chosen |-> chosen[i].name]
  PROVE  /\ names \in Seq(Groups)
         /\ \A n \in ToSet(names) : \E g \in ToSet(r.install) : g.name = n /\ ToInstall(g, r.named)
<1> DEFINE S == {g \in GroupElements(Groups) : g \in ToSet(r.install) /\ ToInstall(g, r.named)}
           T == {n \in Groups : \E g \in ToSet(r.install) : g.name = n /\ ToInstall(g, r.named)}
<1>1. chosen \in Seq(S)
  BY ChosenType
<1>2. \A g \in S : g.name \in T
  BY DEF GroupElements
<1> HIDE DEF S
<1>3. \A i \in DOMAIN chosen : names[i] \in T
  <2>1. \A i \in DOMAIN chosen : chosen[i] \in S
    BY <1>1
  <2> HIDE DEF T
  <2>2. QED
    BY <1>2, <2>1
<1>4. DOMAIN names = DOMAIN chosen /\ names = [i \in DOMAIN names |-> names[i]]
  OBVIOUS
<1> HIDE DEF T
<1>5. names \in Seq(T)
  BY <1>1, <1>3, <1>4, MapType
<1>6. \A i \in DOMAIN names : names[i] \in T
  BY <1>3, <1>4
<1>7. T \subseteq Groups
  BY DEF T
<1>8. names \in Seq(Groups)
  BY <1>5, <1>7
<1>9. QED
  BY <1>6, <1>8 DEF ToSet, T

LEMMA SelectRead ==
  ASSUME ReleaseAssumption, ReadInv, SelectGroups
  PROVE  ReadInv'
<1>1. PICK chosen \in {Chosen(release.install, release.named)} :
        IF SelectRaises(chosen, release.named)
          THEN step' = "raised" /\ UNCHANGED <<groups, unread>>
          ELSE /\ groups' = [i \in DOMAIN chosen |-> chosen[i].name]
               /\ unread' = Directories(groups', FALSE) \o Directories(groups', TRUE)
               /\ step' = "read"
  BY DEF SelectGroups
<1>2. release \in Releases
  BY DEF ReadInv
<1>3. CASE SelectRaises(chosen, release.named)
  BY <1>1, <1>3 DEF ReadInv, SelectGroups
<1>4. CASE ~SelectRaises(chosen, release.named)
  <2>1. groups' \in Seq(Groups)
    BY <1>1, <1>2, <1>4, NamesType
  <2>2. /\ Directories(groups', FALSE) \in Seq([group : Groups, override : BOOLEAN])
        /\ Directories(groups', TRUE) \in Seq([group : Groups, override : BOOLEAN])
    BY <2>1, DirectoriesType
  <2>3. unread' \in Seq([group : Groups, override : BOOLEAN])
    <3>1. unread' = Directories(groups', FALSE) \o Directories(groups', TRUE)
      BY <1>1, <1>4
    <3>2. \A S : \A s \in Seq(S), t \in Seq(S) : s \o t \in Seq(S)
      OBVIOUS
    <3>3. QED
      BY <2>2, <3>1, <3>2
  <2>4. QED
    BY <2>1, <2>3 DEF ReadInv, SelectGroups
<1>5. QED
  BY <1>3, <1>4

LEMMA AddScriptsType ==
  ASSUME NEW S, NEW list \in Seq(S), NEW added \in Seq(S), NEW o
  PROVE  AddScripts(list, added, o) \in Seq(S)
<1> DEFINE kept == {s \in ToSet(list) : s.name \notin {t.name : t \in ToSet(added)}}
<1>1. Among(list, kept) \in Seq(S)
  <2> HIDE DEF kept
  <2>1. Among(list, kept) \in Seq(S \cap kept)
    BY AmongType
  <2>2. QED
    BY <2>1
<1>2. AddScripts(list, added, o) = (IF o THEN Among(list, kept) ELSE list) \o added
  BY DEF AddScripts
<1> HIDE DEF kept
<1>3. QED
  BY <1>1, <1>2

LEMMA FilesType ==
  ASSUME ReleaseAssumption, release \in Releases, NEW d
  PROVE  DOMAIN Files(d) \subseteq Names /\ \A n \in DOMAIN Files(d) : Files(d)[n] \in Headers
<1> DEFINE dir == IF d.override THEN release.override ELSE release.base
<1>1. DOMAIN dir \subseteq Names /\ \A n \in DOMAIN dir : dir[n] \in Headers
  BY DEF ReleaseAssumption
<1> HIDE DEF dir
<1>2. QED
  BY <1>1 DEF Files, dir

\* A listing of a directory.
LEMMA ListingType ==
  ASSUME ReleaseAssumption, release \in Releases, NEW d, NEW listing \in SetToSeqs(DOMAIN Files(d))
  PROVE  listing \in Seq(DOMAIN Files(d))
<1> DEFINE D == DOMAIN Files(d)
<1>1. IsFiniteSet(D)
  BY FilesType, FS_Subset DEF ReleaseAssumption
<1> HIDE DEF D
<1>2. Cardinality(D) \in Nat
  BY <1>1, FS_CardinalityType
<1>3. listing \in [1..Cardinality(D) -> D]
  BY DEF SetToSeqs, D
<1>4. QED
  BY <1>2, <1>3 DEF D

LEMMA ReadDirRead ==
  ASSUME ReleaseAssumption, ReadInv, ReadDir
  PROVE  ReadInv'
<1> DEFINE d == Head(unread)
           files == Files(d)
<1>1. d \in [group : Groups, override : BOOLEAN]
  <2>1. \A S : \A s \in Seq(S) : s # <<>> => Head(s) \in S
    OBVIOUS
  <2>2. unread # <<>>
    BY DEF ReadDir
  <2>3. unread \in Seq([group : Groups, override : BOOLEAN])
    BY DEF ReadInv
  <2>4. QED
    BY <2>1, <2>2, <2>3
<1> DEFINE Added(listing) ==
      [i \in DOMAIN listing |-> [name |-> listing[i], override |-> d.override,
                                 header |-> files[listing[i]]]]
<1>2. PICK listing \in SetToSeqs(DOMAIN files) :
        scripts' = [scripts EXCEPT ![d.group] =
                      AddScripts(@, Added(listing), d.override)]
  BY Zenon DEF ReadDir
<1>3. listing \in Seq(DOMAIN files)
  BY ListingType DEF ReadInv
<1>4. \A n \in DOMAIN files : n \in Names /\ files[n] \in Headers
  BY FilesType DEF ReadInv
<1>5. d.override \in BOOLEAN /\ d.group \in Groups
  BY <1>1
<1> HIDE DEF d, files
<1> DEFINE added == Added(listing)
<1>6. added \in Seq(ScriptSet)
  <2>1. \A i \in DOMAIN listing : listing[i] \in DOMAIN files
    BY <1>3
  <2>2. \A i \in DOMAIN listing : added[i] \in ScriptSet
    BY <1>4, <1>5, <2>1 DEF ScriptSet
  <2>3. DOMAIN added = DOMAIN listing /\ added = [i \in DOMAIN added |-> added[i]]
    OBVIOUS
  <2> HIDE DEF added
  <2>4. QED
    BY <1>3, <2>2, <2>3, MapType
<1> HIDE DEF added
<1>7. AddScripts(scripts[d.group], added, d.override) \in Seq(ScriptSet)
  <2>1. scripts[d.group] \in Seq(ScriptSet)
    BY <1>5 DEF ReadInv
  <2>2. QED
    BY <1>6, <2>1, AddScriptsType
<1>8. scripts' \in [Groups -> Seq(ScriptSet)]
  BY <1>2, <1>7 DEF ReadInv, added
<1>9. unread' \in Seq([group : Groups, override : BOOLEAN])
  <2>1. \A S : \A s \in Seq(S) : s # <<>> => Tail(s) \in Seq(S)
    OBVIOUS
  <2>2. unread # <<>> /\ unread' = Tail(unread)
    BY DEF ReadDir
  <2>3. unread \in Seq([group : Groups, override : BOOLEAN])
    BY DEF ReadInv
  <2>4. QED
    BY <2>1, <2>2, <2>3
<1>10. QED
  BY <1>8, <1>9 DEF ReadInv, ReadDir

-----------------------------------------------------------------------------
(* Making jobs and adding dependencies.                                    *)

\* q is asked for by a script that has a job.
ByJob(q, all) == \E j \in all : j.tree = q.tree /\ j.name = q.script

LinkInv ==
  /\ step \in {"select", "read"} => jobs = {} /\ deps = <<>>
  /\ todo \in Seq({q \in AskSet : ByJob(q, jobs)})
  /\ deps \in Seq(DepSet)

LEMMA AllScriptsType ==
  ASSUME ReadInv
  PROVE  AllScripts \in Seq(ScriptSet)
<1> DEFINE lists == [i \in DOMAIN groups |-> scripts[groups[i]]]
<1>1. groups \in Seq(Groups)
  BY DEF ReadInv
<1>2. \A i \in DOMAIN groups : groups[i] \in Groups
  BY <1>1
<1>3. \A i \in DOMAIN groups : lists[i] \in Seq(ScriptSet)
  BY <1>2 DEF ReadInv
<1>4. DOMAIN lists = DOMAIN groups /\ lists = [i \in DOMAIN lists |-> lists[i]]
  OBVIOUS
<1> HIDE DEF lists
<1>5. lists \in Seq(Seq(ScriptSet))
  BY <1>1, <1>3, <1>4, MapType
<1>6. FlattenSeq(lists) \in Seq(ScriptSet)
  BY <1>5, FlattenMembers
<1>7. QED
  BY <1>6 DEF AllScripts, lists

LEMMA GlobExpandType ==
  ASSUME ReleaseAssumption, NEW all \in Seq(ScriptSet), NEW patterns \in Seq(Patterns)
  PROVE  GlobExpand(all, patterns) \in Seq(Patterns)
<1> DEFINE names == [i \in DOMAIN all |-> all[i].name]
           lists == [i \in DOMAIN patterns |->
                       IF Matching(all, patterns[i]) = <<>> THEN <<patterns[i]>>
                       ELSE Matching(all, patterns[i])]
<1>1. names \in Seq(Patterns)
  <2>1. \A i \in DOMAIN all : all[i] \in ScriptSet
    OBVIOUS
  <2>2. \A i \in DOMAIN all : names[i] \in Patterns
    BY <2>1 DEF ScriptSet, ReleaseAssumption
  <2>3. DOMAIN names = DOMAIN all /\ names = [i \in DOMAIN names |-> names[i]]
    OBVIOUS
  <2> HIDE DEF names
  <2>4. QED
    BY <2>2, <2>3, MapType
<1>2. ASSUME NEW p
      PROVE  Matching(all, p) \in Seq(Patterns)
  <2> HIDE DEF names
  <2>1. Among(names, Matches[p]) \in Seq(Patterns \cap Matches[p])
    BY <1>1, AmongType
  <2>2. \A S, T : Seq(S \cap T) \subseteq Seq(S)
    OBVIOUS
  <2>3. QED
    BY <2>1, <2>2 DEF Matching, names
<1>3. ASSUME NEW i \in DOMAIN patterns
      PROVE  lists[i] \in Seq(Patterns)
  <2>1. patterns[i] \in Patterns
    OBVIOUS
  <2>2. <<patterns[i]>> \in Seq(Patterns)
    BY <2>1
  <2>3. QED
    BY <1>2, <2>2
<1>4. DOMAIN lists = DOMAIN patterns /\ lists = [i \in DOMAIN lists |-> lists[i]]
  OBVIOUS
<1> HIDE DEF lists
<1>5. lists \in Seq(Seq(Patterns))
  BY <1>3, <1>4, MapType
<1>6. FlattenSeq(lists) \in Seq(Patterns)
  BY <1>5, FlattenMembers
<1>7. QED
  BY <1>6 DEF GlobExpand, lists

LEMMA EarlierType ==
  ASSUME ReleaseAssumption, NEW all \in Seq(ScriptSet), NEW s
  PROVE  Earlier(all, s) \in Seq(Patterns)
<1> DEFINE which == {p \in ToSet(all) :
                      /\ p.header.phase < s.header.phase
                      /\ p.header.within = Root /\ s.header.within = Root}
           before == Among(all, which)
           names == [i \in DOMAIN before |-> before[i].name]
<1> HIDE DEF which
<1>1. before \in Seq(ScriptSet \cap which)
  BY AmongType
<1> HIDE DEF before
<1>2. \A i \in DOMAIN before : before[i] \in ScriptSet
  <2>1. \A i \in DOMAIN before : before[i] \in ScriptSet \cap which
    BY <1>1
  <2>2. QED
    BY <2>1
<1>3. \A i \in DOMAIN before : names[i] \in Patterns
  BY <1>2 DEF ScriptSet, ReleaseAssumption
<1>4. DOMAIN names = DOMAIN before /\ names = [i \in DOMAIN names |-> names[i]]
  OBVIOUS
<1>5. Earlier(all, s) = names
  BY DEF Earlier, names, before, which
<1> HIDE DEF names
<1>6. QED
  BY <1>1, <1>3, <1>4, <1>5, MapType

\* What a script asks for is asked for by it.
LEMMA AsksType ==
  ASSUME ReleaseAssumption, NEW s \in ScriptSet,
         NEW kind \in {"hard", "soft", "child", "phase"}, NEW names \in Seq(Patterns)
  PROVE  Asks(s, kind, names) \in
           Seq({q \in AskSet : q.tree = s.header.within /\ q.script = s.name})
<1> DEFINE T == {q \in AskSet : q.tree = s.header.within /\ q.script = s.name}
           asks == [i \in DOMAIN names |->
                      [kind |-> kind, tree |-> s.header.within, script |-> s.name,
                       defined |-> ~s.header.leftOut, other |-> names[i]]]
<1>1. s.header.within \in Trees /\ s.name \in Names
  BY DEF ScriptSet, Headers
<1>2. \A i \in DOMAIN names : names[i] \in Patterns
  OBVIOUS
<1>3. \A i \in DOMAIN names : asks[i] \in T
  BY <1>1, <1>2 DEF AskSet
<1>4. DOMAIN asks = DOMAIN names /\ asks = [i \in DOMAIN asks |-> asks[i]]
  OBVIOUS
<1> HIDE DEF T, asks
<1>5. asks \in Seq(T)
  BY <1>3, <1>4, MapType
<1>6. QED
  BY <1>5 DEF Asks, asks, T

LEMMA DependenciesType ==
  ASSUME ReleaseAssumption, NEW all \in Seq(ScriptSet), NEW s \in ScriptSet
  PROVE  Dependencies(all, s) \in
           Seq({q \in AskSet : q.tree = s.header.within /\ q.script = s.name})
<1> DEFINE T == {q \in AskSet : q.tree = s.header.within /\ q.script = s.name}
<1>1. s.header \in Headers
  BY DEF ScriptSet
<1>2. /\ s.header.hard \in Seq(Patterns)
      /\ s.header.soft \in Seq(Patterns)
      /\ s.header.child \in Seq(Patterns)
  BY <1>1 DEF Headers
<1>3. /\ Asks(s, "hard", GlobExpand(all, s.header.hard)) \in Seq(T)
      /\ Asks(s, "soft", GlobExpand(all, s.header.soft)) \in Seq(T)
      /\ Asks(s, "child", GlobExpand(all, s.header.child)) \in Seq(T)
      /\ Asks(s, "phase", Earlier(all, s)) \in Seq(T)
  BY <1>2, GlobExpandType, EarlierType, AsksType
<1>4. \A S : \A u, v, w, x \in Seq(S) : u \o v \o w \o x \in Seq(S)
  OBVIOUS
<1> HIDE DEF T
<1>5. Dependencies(all, s) \in Seq(T)
  BY <1>3, <1>4 DEF Dependencies
<1>6. QED
  BY <1>5 DEF T

LEMMA MakeJobsLinks ==
  ASSUME ReleaseAssumption, ReadInv, LinkInv, ParserTypeOK, MakeJobs
  PROVE  LinkInv' /\ ParserTypeOK'
<1>1. PICK all \in {AllScripts} :
        IF NoSuchTree(all) \/ JobDefinedTwice(all)
          THEN step' = "raised" /\ UNCHANGED <<jobs, todo>>
          ELSE /\ jobs' = {Job(s) : s \in ToSet(all)}
               /\ todo' = FlattenSeq([i \in DOMAIN all |-> Dependencies(all, all[i])])
               /\ step' = "link"
  BY DEF MakeJobs
<1>2. all \in Seq(ScriptSet)
  BY <1>1, AllScriptsType
<1>3. jobs = {} /\ deps = <<>> /\ deps' = deps
  BY DEF LinkInv, MakeJobs
<1>4. CASE NoSuchTree(all) \/ JobDefinedTwice(all)
  BY <1>1, <1>3, <1>4 DEF LinkInv, ParserTypeOK, JobsIn
<1>5. CASE ~(NoSuchTree(all) \/ JobDefinedTwice(all))
  <2>1. /\ jobs' = {Job(s) : s \in ToSet(all)}
        /\ todo' = FlattenSeq([i \in DOMAIN all |-> Dependencies(all, all[i])])
        /\ step' = "link"
    BY <1>1, <1>5
  <2>2. ASSUME NEW j \in jobs', NEW k \in jobs', j.tree = k.tree, j.name = k.name
        PROVE  j = k
    <3>1. PICK a \in DOMAIN all : j = Job(all[a])
      BY <2>1 DEF ToSet
    <3>2. PICK b \in DOMAIN all : k = Job(all[b])
      BY <2>1 DEF ToSet
    <3>3. /\ all[a].header.within = all[b].header.within
          /\ all[a].name = all[b].name
      BY <2>2, <3>1, <3>2 DEF Job
    <3>4. a = b
      BY <1>5, <3>3 DEF JobDefinedTwice, IsInjective
    <3>5. QED
      BY <3>1, <3>2, <3>4
  <2> DEFINE Q == {q \in AskSet : ByJob(q, jobs')}
             lists == [i \in DOMAIN all |-> Dependencies(all, all[i])]
  <2>3. ASSUME NEW i \in DOMAIN all
        PROVE  lists[i] \in Seq(Q)
    <3>1. all[i] \in ScriptSet /\ all[i] \in ToSet(all)
      BY <1>2 DEF ToSet
    <3>2. Job(all[i]) \in jobs'
      BY <2>1, <3>1
    <3> DEFINE T == {q \in AskSet : q.tree = all[i].header.within /\ q.script = all[i].name}
    <3>3. T \subseteq Q
      BY <3>2 DEF ByJob, Job
    <3>4. lists[i] \in Seq(T)
      BY <1>2, <3>1, DependenciesType
    <3>5. \A A, B : A \subseteq B => Seq(A) \subseteq Seq(B)
      OBVIOUS
    <3> HIDE DEF T, Q, lists
    <3>6. QED
      BY <3>3, <3>4, <3>5
  <2>4. DOMAIN lists = DOMAIN all /\ lists = [i \in DOMAIN lists |-> lists[i]]
    OBVIOUS
  <2> HIDE DEF Q
  <2>5. lists \in Seq(Seq(Q))
    <3> HIDE DEF lists
    <3>1. QED
      BY <1>2, <2>3, <2>4, MapType
  <2>6. todo' \in Seq(Q)
    <3>1. todo' = FlattenSeq(lists)
      BY <2>1
    <3> HIDE DEF lists
    <3>2. QED
      BY <2>5, <3>1, FlattenMembers
  <2>7. LinkInv'
    BY <1>3, <2>1, <2>6 DEF LinkInv, Q
  <2>8. QED
    BY <1>3, <2>1, <2>2, <2>7 DEF ParserTypeOK, ToSet, IsInjective
<1>6. QED
  BY <1>4, <1>5

\* The dependency asked for relates two different names of the tree.
LEMMA LinkLinks ==
  ASSUME ReleaseAssumption, LinkInv, ParserTypeOK, Link
  PROVE  LinkInv' /\ ParserTypeOK'
<1> DEFINE q == Head(todo)
           Q == {a \in AskSet : ByJob(a, jobs)}
           NamesIn(t, all) == {j.name : j \in {k \in all : k.tree = t}}
<1>1. step = "link" /\ todo \in Seq(Q) /\ todo # <<>>
  BY DEF Link, LinkInv
<1>2. q \in AskSet /\ q.script \in NamesIn(q.tree, jobs) /\ Tail(todo) \in Seq(Q)
  <2>1. \A S : \A s \in Seq(S) : s # <<>> => Head(s) \in S /\ Tail(s) \in Seq(S)
    OBVIOUS
  <2> HIDE DEF Q
  <2>2. Head(todo) \in Q /\ Tail(todo) \in Seq(Q)
    BY <1>1, <2>1
  <2>3. QED
    BY <2>2 DEF ByJob, Q
<1>3. AddDep(q) \/ AddPlaceholder(q) \/ SkipDuplicate(q) \/ Refuse(q)
  BY DEF Link
<1> HIDE DEF q
<1>4. /\ q.tree \in Trees /\ q.script \in Names /\ q.other \in Patterns
      /\ q.kind \in {"hard", "soft", "child", "phase"}
  BY <1>2 DEF AskSet
<1>5. /\ Edge(q) \in DepSet /\ Edge(q).tree = q.tree
      /\ {Edge(q).parent, Edge(q).child} = {q.script, q.other}
  BY <1>4 DEF Edge, DepSet, ReleaseAssumption
<1>6. Known(q) <=> q.other \in NamesIn(q.tree, jobs)
  BY DEF Known, JobsIn
<1>7. deps \in Seq(DepSet)
  BY DEF LinkInv
<1>8. ASSUME q.other # q.script, Edge(q) \notin ToSet(deps), deps' = Append(deps, Edge(q)),
             todo' = Tail(todo), step' = step, jobs \subseteq jobs',
             q.other \in NamesIn(q.tree, jobs'),
             \A j, k \in jobs' : j.tree = k.tree /\ j.name = k.name => j = k
      PROVE  LinkInv' /\ ParserTypeOK'
  <2>1. deps' \in Seq(DepSet)
    BY <1>5, <1>7, <1>8
  <2>2. ToSet(deps') = ToSet(deps) \cup {Edge(q)}
    <3>1. /\ Len(deps) \in Nat /\ DOMAIN deps = 1..Len(deps)
          /\ DOMAIN Append(deps, Edge(q)) = 1..(Len(deps) + 1)
          /\ Append(deps, Edge(q))[Len(deps) + 1] = Edge(q)
          /\ \A i \in 1..Len(deps) : Append(deps, Edge(q))[i] = deps[i]
      BY <1>5, <1>7
    <3> DEFINE new == Append(deps, Edge(q))
    <3> HIDE DEF new
    <3>2. \A i \in 1..(Len(deps) + 1) : i \in 1..Len(deps) \/ i = Len(deps) + 1
      BY <3>1
    <3>3. Len(deps) + 1 \in 1..(Len(deps) + 1) /\ 1..Len(deps) \subseteq 1..(Len(deps) + 1)
      BY <3>1
    <3>4. QED
      BY <1>8, <3>1, <3>2, <3>3 DEF ToSet, new
  <2>3. IsInjective(deps')
    <3>1. /\ Len(deps) \in Nat /\ DOMAIN deps = 1..Len(deps)
          /\ DOMAIN Append(deps, Edge(q)) = 1..(Len(deps) + 1)
          /\ Append(deps, Edge(q))[Len(deps) + 1] = Edge(q)
          /\ \A i \in 1..Len(deps) : Append(deps, Edge(q))[i] = deps[i]
      BY <1>5, <1>7
    <3>2. \A i \in 1..Len(deps) : deps[i] # Edge(q)
      BY <1>8, <3>1 DEF ToSet
    <3>3. \A i, k \in 1..Len(deps) : deps[i] = deps[k] => i = k
      BY <3>1 DEF ParserTypeOK, IsInjective
    <3>4. \A i \in 1..(Len(deps) + 1) : i \in 1..Len(deps) \/ i = Len(deps) + 1
      BY <3>1
    <3> DEFINE new == Append(deps, Edge(q))
    <3>5. \A i, k \in 1..(Len(deps) + 1) : new[i] = new[k] => i = k
      <4> HIDE DEF new
      <4>1. QED
        BY <3>1, <3>2, <3>3, <3>4 DEF new
    <3>6. QED
      BY <1>8, <3>1, <3>5 DEF IsInjective
  <2>4. \A t : NamesIn(t, jobs) \subseteq NamesIn(t, jobs')
    BY <1>8
  <2>5. \A d \in ToSet(deps) : /\ d.parent # d.child
                               /\ {d.parent, d.child} \subseteq NamesIn(d.tree, jobs)
    BY DEF ParserTypeOK, JobsIn
  <2>6. /\ Edge(q).parent # Edge(q).child
        /\ {Edge(q).parent, Edge(q).child} \subseteq NamesIn(q.tree, jobs')
    BY <1>2, <1>5, <1>8, <2>4
  <2>7. \A d \in ToSet(deps') : /\ d.parent # d.child
                                /\ {d.parent, d.child} \subseteq NamesIn(d.tree, jobs')
    <3> HIDE DEF NamesIn
    <3>1. QED
      BY <1>5, <2>2, <2>4, <2>5, <2>6
  <2>8. todo' \in Seq({a \in AskSet : ByJob(a, jobs')})
    <3> DEFINE N == {a \in AskSet : ByJob(a, jobs')}
    <3>1. Q \subseteq N
      BY <1>8 DEF ByJob
    <3>2. \A A, B : A \subseteq B => Seq(A) \subseteq Seq(B)
      OBVIOUS
    <3> HIDE DEF Q, N
    <3>3. todo' \in Seq(N)
      BY <1>2, <1>8, <3>1, <3>2
    <3>4. QED
      BY <3>3 DEF N
  <2>9. LinkInv'
    BY <1>1, <1>8, <2>1, <2>8 DEF LinkInv
  <2>10. ParserTypeOK'
    BY <1>1, <1>8, <2>3, <2>7 DEF ParserTypeOK, JobsIn
  <2>11. QED
    BY <2>9, <2>10
<1>9. CASE AddDep(q)
  <2>1. UNCHANGED <<jobs, step>>
    BY <1>9 DEF AddDep
  <2>2. \A j, k \in jobs' : j.tree = k.tree /\ j.name = k.name => j = k
    BY <2>1 DEF ParserTypeOK
  <2>3. QED
    BY <1>6, <1>8, <1>9, <2>1, <2>2 DEF AddDep, Duplicate
<1>10. CASE AddPlaceholder(q)
  <2>1. q.other \notin NamesIn(q.tree, jobs)
    BY <1>6, <1>10 DEF AddPlaceholder
  <2>2. jobs' = jobs \cup {Placeholder(q.tree, q.other)}
    BY <1>10 DEF AddPlaceholder
  <2>3. Placeholder(q.tree, q.other).tree = q.tree /\ Placeholder(q.tree, q.other).name = q.other
    BY DEF Placeholder
  <2>4. \A j, k \in jobs' : j.tree = k.tree /\ j.name = k.name => j = k
    BY <2>1, <2>2, <2>3 DEF ParserTypeOK
  <2>5. Edge(q) \notin ToSet(deps)
    BY <1>5, <2>1 DEF ParserTypeOK, JobsIn
  <2>6. q.other \in NamesIn(q.tree, jobs')
    BY <2>2, <2>3
  <2>7. QED
    BY <1>2, <1>8, <1>10, <2>1, <2>2, <2>4, <2>5, <2>6 DEF AddPlaceholder
<1>11. CASE SkipDuplicate(q)
  <2>1. UNCHANGED <<jobs, deps, step>> /\ todo' = Tail(todo)
    BY <1>11 DEF SkipDuplicate
  <2>2. QED
    BY <1>1, <1>2, <2>1 DEF LinkInv, ParserTypeOK, JobsIn
<1>12. CASE Refuse(q)
  BY <1>12 DEF Refuse, LinkInv, ParserTypeOK, JobsIn
<1>13. QED
  BY <1>3, <1>9, <1>10, <1>11, <1>12

-----------------------------------------------------------------------------
(* The start.                                                              *)

ParserInv == ReadInv /\ LinkInv /\ ParserTypeOK

LEMMA ParserStarts == ReleaseAssumption /\ Init => ParserInv
<1> SUFFICES ASSUME ReleaseAssumption, Init
             PROVE  ParserInv
  OBVIOUS
<1>1. \A S : <<>> \in Seq(S)
  OBVIOUS
<1>2. ReadInv /\ LinkInv
  BY <1>1 DEF Init, ReadInv, LinkInv
<1>3. ParserTypeOK
  BY DEF Init, ParserTypeOK, ToSet, IsInjective
<1>4. QED
  BY <1>2, <1>3 DEF ParserInv

LEMMA ParserStep ==
  ASSUME ReleaseAssumption, ParserInv, [Next]_vars
  PROVE  ParserInv'
<1>1. CASE SelectGroups
  <2>1. ReadInv'
    BY <1>1, SelectRead DEF ParserInv
  <2>2. step = "select" /\ step' \in {"raised", "read"} /\ UNCHANGED <<jobs, deps, todo>>
    BY <1>1 DEF SelectGroups
  <2>3. LinkInv' /\ ParserTypeOK'
    BY <2>2 DEF ParserInv, LinkInv, ParserTypeOK, JobsIn
  <2>4. QED
    BY <2>1, <2>3 DEF ParserInv
<1>2. CASE ReadDir
  <2>1. ReadInv'
    BY <1>2, ReadDirRead DEF ParserInv
  <2>2. UNCHANGED <<jobs, deps, todo, step>>
    BY <1>2 DEF ReadDir
  <2>3. LinkInv' /\ ParserTypeOK'
    BY <2>2 DEF ParserInv, LinkInv, ParserTypeOK, JobsIn
  <2>4. QED
    BY <2>1, <2>3 DEF ParserInv
<1>3. CASE MakeJobs
  BY <1>3, MakeJobsLinks DEF ParserInv, ReadInv, MakeJobs
<1>4. CASE Link
  BY <1>4, LinkLinks DEF ParserInv, ReadInv, Link
<1>5. CASE Validate
  <2>1. UNCHANGED <<release, groups, unread, scripts, jobs, deps, todo>>
        /\ step' \in {"accepted", "rejected", "raised"}
    BY <1>5 DEF Validate
  <2>2. QED
    BY <2>1 DEF ParserInv, ReadInv, LinkInv, ParserTypeOK, JobsIn
<1>6. CASE UNCHANGED vars
  BY <1>6 DEF vars, ParserInv, ReadInv, LinkInv, ParserTypeOK, JobsIn
<1>7. QED
  BY <1>1, <1>2, <1>3, <1>4, <1>5, <1>6 DEF Next

LEMMA ParserInvariant == ParserSpec => []ParserInv
<1>1. ReleaseAssumption
  BY ReleaseAssumption
<1>2. QED
  BY <1>1, ParserStarts, ParserStep, PTL DEF ParserSpec

\* Every tree that is built has one job of a name, and dependencies between two
\* different jobs of that tree, each pair once, for every release, in whatever order
\* its scripts are listed.  Code: add_job, add_dep and the loops of init_tree.
THEOREM ParserTypeCorrect == ParserSpec => []ParserTypeOK
<1>1. ParserInv => ParserTypeOK
  BY DEF ParserInv
<1>2. QED
  BY <1>1, ParserInvariant, PTL

-----------------------------------------------------------------------------
(* Upgrades.                                                               *)

\* Every group that is going to be installed was to be.
SelectedInv ==
  \A n \in ToSet(groups) : \E g \in ToSet(release.install) :
    g.name = n /\ ToInstall(g, release.named)

LEMMA SelectedStep ==
  ASSUME ReleaseAssumption, ParserInv, SelectedInv, [Next]_vars
  PROVE  SelectedInv'
<1>1. CASE SelectGroups
  <2>1. PICK chosen \in {Chosen(release.install, release.named)} :
          IF SelectRaises(chosen, release.named)
            THEN step' = "raised" /\ UNCHANGED <<groups, unread>>
            ELSE /\ groups' = [i \in DOMAIN chosen |-> chosen[i].name]
                 /\ unread' = Directories(groups', FALSE) \o Directories(groups', TRUE)
                 /\ step' = "read"
    BY <1>1 DEF SelectGroups
  <2>2. release' = release /\ release \in Releases
    BY <1>1 DEF SelectGroups, ParserInv, ReadInv
  <2>3. CASE SelectRaises(chosen, release.named)
    BY <2>1, <2>2, <2>3 DEF SelectedInv
  <2>4. CASE ~SelectRaises(chosen, release.named)
    BY <2>1, <2>2, <2>4, NamesType DEF SelectedInv
  <2>5. QED
    BY <2>3, <2>4
<1>2. ASSUME UNCHANGED <<release, groups>>
      PROVE  SelectedInv'
  BY <1>2 DEF SelectedInv
<1>3. CASE ReadDir \/ MakeJobs \/ Link \/ Validate \/ UNCHANGED vars
  BY <1>2, <1>3 DEF ReadDir, MakeJobs, Link, Validate, vars
<1>4. QED
  BY <1>1, <1>3 DEF Next

LEMMA SelectedUpgrades ==
  ASSUME ReleaseAssumption, NumberAssumption, ParserInv, SelectedInv
  PROVE  AutoselectUpgrades
<1> SUFFICES ASSUME release.named = {}, NEW g \in ToSet(release.install),
                    g.name \in ToSet(groups), ~g.special, g.installed # NotInstalled,
                    Readable(g.version), Readable(g.installed)
             PROVE  Later(g.version, g.installed)
  BY DEF AutoselectUpgrades
<1>1. release \in Releases /\ release.install \in Seq(GroupElements(Groups))
  BY DEF ParserInv, ReadInv, ReleaseAssumption
<1>2. g \in GroupElements(Groups)
  BY <1>1 DEF ToSet
<1>3. g.version \in VersionSet /\ g.installed \in VersionSet
  BY <1>2 DEF GroupElements
<1>4. PICK h \in ToSet(release.install) : h.name = g.name /\ ToInstall(h, release.named)
  BY DEF SelectedInv
<1>5. ToInstall(g, release.named)
  <2>1. release \in Releases
    BY DEF ParserInv, ReadInv
  <2>2. PICK i \in DOMAIN release.install, k \in DOMAIN release.install :
          g = release.install[i] /\ h = release.install[k]
    BY DEF ToSet
  <2>3. i = k
    BY <1>4, <2>1, <2>2 DEF ReleaseAssumption
  <2>4. QED
    BY <1>4, <2>2, <2>3
<1>6. VerComp(g.version, g.installed) \in {1, VersionCompareError}
  BY <1>5 DEF ToInstall, IsNewestVersion
<1>7. VerComp(g.version, g.installed) # VersionCompareError
  BY <1>3, ReadableCompares
<1>8. QED
  BY <1>3, <1>6, <1>7, GreaterIsLater

\* The process never replaces a group by an older version of itself unless asked to,
\* however long the versions are and whatever suffixes they have.  Code: groupSelect,
\* isNewestVersion and verComp, whose padding of the second version does nothing.
THEOREM UpgradesOnly == ParserSpec => []AutoselectUpgrades
<1>1. ReleaseAssumption /\ NumberAssumption
  BY ReleaseAssumption, NumberAssumption
<1>2. Init => SelectedInv
  BY DEF Init, SelectedInv, ToSet
<1>3. ParserInv /\ SelectedInv /\ [Next]_vars => SelectedInv'
  BY <1>1, SelectedStep
<1>4. ParserInv /\ SelectedInv => AutoselectUpgrades
  BY <1>1, SelectedUpgrades
<1>5. QED
  BY <1>2, <1>3, <1>4, ParserInvariant, PTL DEF ParserSpec

-----------------------------------------------------------------------------
(* The searches.                                                           *)

Transformers(U) == [SUBSET U -> SUBSET U]

Monotone(phi, U) == \A A, B \in SUBSET U : A \subseteq B => phi[A] \subseteq phi[B]

\* A monotone map between sets has a fixed point.
LEMMA FixedPoint ==
  ASSUME NEW U, NEW phi \in Transformers(U), Monotone(phi, U)
  PROVE  \E R \in SUBSET U : phi[R] = R
<1> DEFINE R == UNION {A \in SUBSET U : A \subseteq phi[A]}
<1>1. R \in SUBSET U /\ \A A \in SUBSET U : A \subseteq phi[A] => A \subseteq R
  OBVIOUS
<1>2. phi[R] \in SUBSET U
  BY <1>1 DEF Transformers
<1>3. R \subseteq phi[R]
  <2>1. SUFFICES ASSUME NEW x \in R
                 PROVE  x \in phi[R]
    OBVIOUS
  <2>2. PICK A \in SUBSET U : A \subseteq phi[A] /\ x \in A
    OBVIOUS
  <2>3. phi[A] \subseteq phi[R]
    BY <1>1, <2>2 DEF Monotone
  <2>4. QED
    BY <2>2, <2>3
<1>4. phi[R] \subseteq phi[phi[R]]
  BY <1>1, <1>2, <1>3 DEF Monotone
<1>5. phi[R] \subseteq R
  BY <1>1, <1>2, <1>4
<1>6. QED
  BY <1>1, <1>3, <1>5

\* A finite, non-empty family of sets has a smallest and a largest member.
LEMMA SmallestSet ==
  ASSUME NEW U, IsFiniteSet(U), NEW F, F \subseteq SUBSET U, F # {}
  PROVE  \E A \in F : \A B \in F : B \subseteq A => B = A
<1>1. \A A \in SUBSET U : IsFiniteSet(A) /\ Cardinality(A) \in Nat
  BY FS_Subset, FS_CardinalityType
<1> DEFINE Sizes == {Cardinality(A) : A \in F}
<1>2. Sizes \subseteq Nat /\ Sizes # {}
  BY <1>1
<1>3. PICK n \in Sizes : \A k \in Sizes : n <= k
  <2> HIDE DEF Sizes
  <2>1. QED
    BY <1>2, FirstExists
<1>4. PICK A \in F : Cardinality(A) = n
  OBVIOUS
<1>5. ASSUME NEW B \in F, B \subseteq A
      PROVE  B = A
  <2>1. A \in SUBSET U /\ B \in SUBSET U
    OBVIOUS
  <2>2. n <= Cardinality(B)
    BY <1>3
  <2>3. IsFiniteSet(A) /\ Cardinality(A) = n /\ n \in Nat /\ Cardinality(B) \in Nat
    BY <1>1, <1>2, <1>4, <2>1
  <2>4. B # A => Cardinality(B) < n
    BY <1>5, <2>3, FS_Subset
  <2>5. QED
    BY <2>2, <2>3, <2>4
<1>6. QED
  BY <1>5

LEMMA LargestSet ==
  ASSUME NEW U, IsFiniteSet(U), NEW F, F \subseteq SUBSET U, F # {}
  PROVE  \E A \in F : \A B \in F : A \subseteq B => B = A
<1> DEFINE G == {U \ A : A \in F}
<1>1. G \subseteq SUBSET U /\ G # {}
  <2>1. PICK A \in F : TRUE
    OBVIOUS
  <2>2. U \ A \in G
    BY <2>1
  <2>3. \A A1 : U \ A1 \in SUBSET U
    OBVIOUS
  <2>4. G \subseteq SUBSET U
    BY <2>3
  <2>5. QED
    BY <2>2, <2>4
<1>2. PICK C \in G : \A D \in G : D \subseteq C => D = C
  <2> HIDE DEF G
  <2>1. QED
    BY <1>1, SmallestSet
<1>3. PICK A \in F : C = U \ A
  OBVIOUS
<1>4. ASSUME NEW B \in F, A \subseteq B
      PROVE  B = A
  <2>1. U \ B \in G /\ U \ B \subseteq C
    BY <1>3, <1>4
  <2>2. U \ B = U \ A
    BY <1>2, <1>3, <2>1
  <2>3. A \subseteq U /\ B \subseteq U
    OBVIOUS
  <2>4. QED
    BY <2>2, <2>3
<1>5. QED
  BY <1>4

Answers == [Patterns -> {"yes", "no", "endless"}]

LEMMA ParentDepsParents ==
  ASSUME deps \in Seq(DepSet), NEW t, NEW n
  PROVE  /\ ParentDeps(t, n) \subseteq Nat
         /\ \A i \in ParentDeps(t, n) : i \in DOMAIN deps /\ deps[i].parent \in ParentSet(t, n)
         /\ \A p \in ParentSet(t, n) : \E i \in ParentDeps(t, n) : deps[i].parent = p
         /\ ParentSet(t, n) \subseteq Patterns
<1>1. DOMAIN deps \subseteq Nat
  <2>1. DOMAIN deps = 1..Len(deps) /\ Len(deps) \in Nat
    OBVIOUS
  <2>2. QED
    BY <2>1
<1>2. \A i \in DOMAIN deps : deps[i] \in DepSet
  OBVIOUS
<1>3. QED
  BY <1>1, <1>2 DEF ParentDeps, ParentSet, DepsIn, DepSet, ToSet

\* What a call answers, if its parents' calls answer: that all say no, or what one says.
LEMMA AskedParents ==
  ASSUME deps \in Seq(DepSet), NEW t, NEW answer \in Answers
  PROVE  /\ AskParents(t, answer) \in Answers
         /\ \A n \in Patterns :
              IF \A p \in ParentSet(t, n) : Says(t, p, answer) = "no"
              THEN AskParents(t, answer)[n] = "no"
              ELSE \E p \in ParentSet(t, n) :
                     AskParents(t, answer)[n] = Says(t, p, answer) /\ Says(t, p, answer) # "no"
<1> DEFINE Said(i) == Says(t, deps[i].parent, answer)
           Not(n) == {i \in ParentDeps(t, n) : Said(i) # "no"}
           Value(n) == IF \A i \in ParentDeps(t, n) : Said(i) = "no" THEN "no"
                       ELSE Said(First(Not(n)))
<1>1. AskParents(t, answer) = [n \in Patterns |-> Value(n)]
  BY DEF AskParents
<1>2. \A p \in Patterns : Says(t, p, answer) \in {"yes", "no", "endless"}
  BY DEF Says, Answers
<1>3. ASSUME NEW n \in Patterns
      PROVE  /\ Value(n) \in {"yes", "no", "endless"}
             /\ IF \A p \in ParentSet(t, n) : Says(t, p, answer) = "no"
                THEN Value(n) = "no"
                ELSE \E p \in ParentSet(t, n) :
                       Value(n) = Says(t, p, answer) /\ Says(t, p, answer) # "no"
  <2>1. CASE \A p \in ParentSet(t, n) : Says(t, p, answer) = "no"
    <3>1. \A i \in ParentDeps(t, n) : Said(i) = "no"
      BY <2>1, ParentDepsParents
    <3>2. QED
      BY <2>1, <3>1
  <2>2. CASE ~\A p \in ParentSet(t, n) : Says(t, p, answer) = "no"
    <3>1. PICK p \in ParentSet(t, n) : Says(t, p, answer) # "no"
      BY <2>2
    <3>2. PICK i \in ParentDeps(t, n) : deps[i].parent = p
      BY <3>1, ParentDepsParents
    <3>3. i \in Not(n) /\ Not(n) \subseteq Nat
      BY <3>1, <3>2, ParentDepsParents
    <3>4. First(Not(n)) \in Not(n)
      <4> HIDE DEF Not
      <4>1. QED
        BY <3>3, FirstIsFirst
    <3>5. Value(n) = Said(First(Not(n)))
      BY <3>3
    <3>6. First(Not(n)) \in ParentDeps(t, n) /\ Said(First(Not(n))) # "no"
      BY <3>4
    <3> HIDE DEF Not, Value
    <3> DEFINE i0 == First(Not(n))
    <3> HIDE DEF i0
    <3>7. i0 \in ParentDeps(t, n) /\ Said(i0) # "no" /\ Value(n) = Said(i0)
      BY <3>5, <3>6 DEF i0
    <3>8. deps[i0].parent \in ParentSet(t, n) /\ deps[i0].parent \in Patterns
      BY <3>7, ParentDepsParents
    <3>9. QED
      BY <1>2, <2>2, <3>7, <3>8
  <2>3. QED
    BY <2>1, <2>2
<1> HIDE DEF Value
<1>4. QED
  BY <1>1, <1>3 DEF Answers

\* has_defined_anscestors answers what the calls of depth Cardinality(jobs) + 1 do.
LEMMA AnswersUnfold ==
  ASSUME deps \in Seq(DepSet), NEW t, IsFiniteSet(jobs)
  PROVE  \E f \in [Nat -> Answers] :
           /\ \A n \in Patterns : f[0][n] = "endless"
           /\ \A k \in Nat : f[k + 1] = AskParents(t, f[k])
           /\ Cardinality(jobs) + 1 \in Nat
           /\ HasDefinedAncestors(t) = f[Cardinality(jobs) + 1]
<1> DEFINE a0 == [n \in Patterns |-> "endless"]
           s == [k \in Nat |-> [a \in Answers |-> AskParents(t, a)]]
<1>1. a0 \in Answers
  BY DEF Answers
<1>2. s \in Steps(Answers)
  BY AskedParents DEF Steps
<1>3. PICK f : Iteration(f, Answers, a0, s)
  <2> HIDE DEF a0, s
  <2>1. QED
    BY <1>1, <1>2, Iterates
<1>4. f \in [Nat -> Answers] /\ f[0] = a0 /\ \A k \in Nat : f[k + 1] = AskParents(t, f[k])
  BY <1>3 DEF Iteration
<1> DEFINE Value(g, d) == IF d = 0 THEN [n \in Patterns |-> "endless"]
                          ELSE AskParents(t, g[d - 1])
           Answer == CHOOSE g : g = [d \in Nat |-> Value(g, d)]
<1>5. HasDefinedAncestors(t) = Answer[Cardinality(jobs) + 1]
  BY DEF HasDefinedAncestors
<1>6. ASSUME NEW d \in Nat
      PROVE  f[d] = Value(f, d)
  <2>1. d # 0 => d - 1 \in Nat /\ (d - 1) + 1 = d
    OBVIOUS
  <2>2. QED
    BY <1>4, <2>1
<1>7. f = [d \in Nat |-> Value(f, d)]
  <2> HIDE DEF Value
  <2>1. f = [d \in Nat |-> f[d]]
    BY <1>4
  <2>2. QED
    BY <1>6, <2>1
<1>8. Answer = [d \in Nat |-> Value(Answer, d)]
  <2> HIDE DEF Value
  <2>1. QED
    BY <1>7
<1> HIDE DEF Answer
<1> DEFINE Same == {d \in Nat : Answer[d] = f[d]}
<1>9. 0 \in Same
  BY <1>4, <1>8
<1>10. ASSUME NEW d \in Nat, d \in Same
       PROVE  d + 1 \in Same
  <2>1. d + 1 \in Nat /\ d + 1 # 0 /\ (d + 1) - 1 = d
    OBVIOUS
  <2>2. Answer[d + 1] = AskParents(t, Answer[d])
    BY <1>8, <2>1
  <2>3. QED
    BY <1>4, <1>10, <2>1, <2>2
<1>11. Nat \subseteq Same
  <2> HIDE DEF Same
  <2>1. QED
    BY <1>9, <1>10, Induction
<1>12. Cardinality(jobs) + 1 \in Nat
  BY FS_CardinalityType
<1>13. HasDefinedAncestors(t) = f[Cardinality(jobs) + 1]
  BY <1>5, <1>11, <1>12
<1>14. \A n \in Patterns : f[0][n] = "endless"
  BY <1>4
<1>15. QED
  BY <1>4, <1>12, <1>13, <1>14

\* S has, with each of its jobs, the children.
Inherits(t, S) == \A n \in S : Children(t, n) \subseteq S

\* Every job of S has a parent in S.
Climbs(t, S) == \A n \in S : ParentSet(t, n) \cap S # {}

\* Every job of S has a child in S.
Walks(t, S) == \A n \in S : Children(t, n) \cap S # {}

LEMMA Relatives ==
  ASSUME deps \in Seq(DepSet), NEW t, NEW n
  PROVE  /\ Children(t, n) \subseteq Patterns
         /\ \A c : c \in Children(t, n) <=> n \in ParentSet(t, c)
<1>1. \A d \in ToSet(deps) : d \in DepSet
  BY DEF ToSet
<1>2. QED
  BY <1>1 DEF Children, ParentSet, DepsIn, DepSet

\* Jobs that climb for ever, none of them behind a defined one, make
\* has_defined_anscestors recurse for ever.
LEMMA ClimbersAreEndless ==
  ASSUME deps \in Seq(DepSet), IsFiniteSet(jobs), NEW t,
         NEW V \in SUBSET Patterns, Inherits(t, V), DefinedIn(t) \subseteq V,
         NEW S \in SUBSET Patterns, Climbs(t, S), S \cap V = {}, NEW n \in S
  PROVE  HasDefinedAncestors(t)[n] = "endless"
<1>1. PICK f \in [Nat -> Answers] :
        /\ \A m \in Patterns : f[0][m] = "endless"
        /\ \A k \in Nat : f[k + 1] = AskParents(t, f[k])
        /\ \E k \in Nat : HasDefinedAncestors(t) = f[k]
  BY AnswersUnfold
<1>2. \A p : ParentSet(t, p) \subseteq Patterns
  BY ParentDepsParents
<1>3. \A m \in Patterns \ V : \A p \in ParentSet(t, m) : p \notin V
  BY Relatives DEF Inherits
<1> DEFINE Fine == {k \in Nat : /\ \A m \in Patterns \ V : f[k][m] # "yes"
                               /\ \A m \in S : f[k][m] = "endless"}
<1>4. 0 \in Fine
  BY <1>1
<1>5. ASSUME NEW k \in Nat, k \in Fine
      PROVE  k + 1 \in Fine
  <2> DEFINE a == f[k]
             b == f[k + 1]
  <2>1. a \in Answers /\ b = AskParents(t, a)
    BY <1>1
  <2>2. /\ \A m \in Patterns \ V : a[m] # "yes"
        /\ \A m \in S : a[m] = "endless"
    BY <1>5
  <2> HIDE DEF a, b
  <2>3. \A m \in Patterns :
          IF \A p \in ParentSet(t, m) : Says(t, p, a) = "no" THEN b[m] = "no"
          ELSE \E p \in ParentSet(t, m) : b[m] = Says(t, p, a) /\ Says(t, p, a) # "no"
    BY <2>1, AskedParents
  <2>4. \A p \in Patterns \ V : Says(t, p, a) = a[p]
    BY DEF Says
  <2>5. ASSUME NEW m \in Patterns \ V
        PROVE  b[m] # "yes"
    <3>1. \A p \in ParentSet(t, m) : Says(t, p, a) # "yes"
      BY <1>2, <1>3, <2>2, <2>4
    <3>2. QED
      BY <2>3, <3>1
  <2>6. ASSUME NEW m \in S
        PROVE  b[m] = "endless"
    <3>1. PICK p \in ParentSet(t, m) : p \in S
      BY DEF Climbs
    <3>2. Says(t, p, a) = "endless"
      BY <2>2, <2>4, <3>1
    <3>3. \E q \in ParentSet(t, m) : b[m] = Says(t, q, a) /\ Says(t, q, a) # "no"
      BY <2>3, <3>1, <3>2
    <3>4. b \in Answers
      BY <2>1, AskedParents
    <3>5. b[m] \in {"yes", "no", "endless"} /\ b[m] # "no"
      BY <3>3, <3>4 DEF Answers
    <3>6. QED
      BY <2>5, <3>5
  <2>7. QED
    BY <2>5, <2>6 DEF b
<1>6. Nat \subseteq Fine
  <2> HIDE DEF Fine
  <2>1. QED
    BY <1>4, <1>5, Induction
<1>7. QED
  BY <1>1, <1>6

\* Where jobs walk for ever, some both walk and climb for ever.
LEMMA WalkersClimb ==
  ASSUME deps \in Seq(DepSet), IsFiniteSet(Patterns), NEW t,
         NEW S \in SUBSET Patterns, S # {}, Walks(t, S)
  PROVE  \E T \in SUBSET Patterns : T # {} /\ T \subseteq S /\ Walks(t, T) /\ Climbs(t, T)
<1> DEFINE F == {T \in SUBSET Patterns : T # {} /\ T \subseteq S /\ Walks(t, T)}
<1>1. F \subseteq SUBSET Patterns /\ F # {}
  OBVIOUS
<1>2. PICK T \in F : \A B \in F : B \subseteq T => B = T
  <2> HIDE DEF F
  <2>1. QED
    BY <1>1, SmallestSet
<1>3. T \in SUBSET Patterns /\ T # {} /\ T \subseteq S /\ Walks(t, T)
  OBVIOUS
<1>4. ASSUME NEW n \in T, ParentSet(t, n) \cap T = {}
      PROVE  FALSE
  <2>1. \A m \in T : n \notin Children(t, m)
    BY <1>4, Relatives
  <2>2. Walks(t, T \ {n})
    BY <1>3, <2>1 DEF Walks
  <2>3. T \ {n} # {}
    <3>1. PICK c \in Children(t, n) : c \in T
      BY <1>3 DEF Walks
    <3>2. c # n
      BY <2>1, <3>1
    <3>3. QED
      BY <3>1, <3>2
  <2>4. T \ {n} \in F
    BY <1>3, <2>2, <2>3
  <2>5. QED
    BY <1>2, <2>4
<1>5. QED
  BY <1>3, <1>4 DEF Climbs

-----------------------------------------------------------------------------
(* validate_nocycles.                                                      *)

\* Search is what validate_nocycles finds of the jobs it starts from with each path.
Search(t, From) ==
  \A path \in SUBSET Patterns :
    From[path] = {m \in Patterns \ path : \A c \in Children(t, m) : c \in From[path \cup {m}]}

LEMMA NoCyclesUnfolds ==
  ASSUME NEW t, \A n \in Patterns : Children(t, n) \subseteq Patterns
  PROVE  \E From : Search(t, From) /\ \A n : NoCycles(t, n) <=> n \in From[{}]
<1> DEFINE Value(F, path) ==
             {m \in Patterns \ path : \A c \in Children(t, m) : c \in F[path \cup {m}]}
           U == (SUBSET Patterns) \X Patterns
           Next1(A) == {u \in U : /\ u[2] \notin u[1]
                                  /\ \A c \in Children(t, u[2]) : <<u[1] \cup {u[2]}, c>> \in A}
           phi == [A \in SUBSET U |-> Next1(A)]
<1>1. phi \in Transformers(U) /\ Monotone(phi, U)
  <2> HIDE DEF U
  <2>1. \A A : Next1(A) \in SUBSET U
    OBVIOUS
  <2>2. phi \in Transformers(U)
    <3> HIDE DEF Next1
    <3>1. QED
      BY <2>1 DEF Transformers
  <2>3. \A A, B : A \subseteq B => Next1(A) \subseteq Next1(B)
    OBVIOUS
  <2>4. Monotone(phi, U)
    <3> HIDE DEF Next1
    <3>1. QED
      BY <2>3 DEF Monotone
  <2>5. QED
    BY <2>2, <2>4
<1>2. PICK R \in SUBSET U : R = Next1(R)
  <2> HIDE DEF U, Next1
  <2>1. \A A \in SUBSET U : phi[A] = Next1(A)
    OBVIOUS
  <2> HIDE DEF phi
  <2>2. \E R \in SUBSET U : phi[R] = R
    BY <1>1, FixedPoint
  <2>3. QED
    BY <2>1, <2>2
<1> DEFINE G == [path \in SUBSET Patterns |-> {m \in Patterns : <<path, m>> \in R}]
<1>3. ASSUME NEW path \in SUBSET Patterns
      PROVE  G[path] = Value(G, path)
  <2>1. \A m \in Patterns : <<path, m>> \in U
    OBVIOUS
  <2>2. \A m \in Patterns : path \cup {m} \in SUBSET Patterns
    OBVIOUS
  <2>3. \A m \in Patterns : <<path, m>> \in R <=>
          m \notin path /\ \A c \in Children(t, m) : <<path \cup {m}, c>> \in R
    <3> HIDE DEF U
    <3>1. QED
      BY <1>2, <2>1
  <2>4. \A m \in Patterns : G[path \cup {m}] = {c \in Patterns : <<path \cup {m}, c>> \in R}
    BY <2>2
  <2>5. G[path] = {m \in Patterns : <<path, m>> \in R}
    OBVIOUS
  <2> HIDE DEF G, U
  <2>6. QED
    BY <2>3, <2>4, <2>5
<1>4. G = [path \in SUBSET Patterns |-> Value(G, path)]
  <2> HIDE DEF Value
  <2>1. QED
    BY <1>3
<1> DEFINE From == CHOOSE F : F = [path \in SUBSET Patterns |-> Value(F, path)]
<1>5. From = [path \in SUBSET Patterns |-> Value(From, path)]
  <2> HIDE DEF Value, G
  <2>1. QED
    BY <1>4
<1>6. \A n : NoCycles(t, n) <=> n \in From[{}]
  BY DEF NoCycles
<1> HIDE DEF From
<1>7. Search(t, From)
  BY <1>5 DEF Search
<1>8. QED
  BY <1>6, <1>7

\* From a job from which validate_nocycles finds no cycle there is no walk without end.
LEMMA SearchEnds ==
  ASSUME IsFiniteSet(Patterns), NEW t, NEW From, Search(t, From),
         NEW S \in SUBSET Patterns, Walks(t, S),
         NEW path \in SUBSET Patterns, NEW n \in S, n \in From[path]
  PROVE  FALSE
<1> DEFINE F == {p \in SUBSET Patterns : \E m \in S : m \in From[p]}
<1>1. F \subseteq SUBSET Patterns /\ F # {}
  OBVIOUS
<1>2. PICK p \in F : \A q \in F : p \subseteq q => q = p
  <2> HIDE DEF F
  <2>1. QED
    BY <1>1, LargestSet
<1>3. PICK m \in S : m \in From[p]
  OBVIOUS
<1>4. p \in SUBSET Patterns /\ m \in Patterns
  OBVIOUS
<1>5. m \notin p /\ \A c \in Children(t, m) : c \in From[p \cup {m}]
  BY <1>3, <1>4 DEF Search
<1>6. PICK c \in Children(t, m) : c \in S
  BY DEF Walks
<1>7. p \cup {m} \in F
  BY <1>4, <1>5, <1>6
<1>8. QED
  BY <1>2, <1>5, <1>7

LEMMA VisitedUnfolds ==
  ASSUME NEW t, \A n \in Patterns : Children(t, n) \subseteq Patterns
  PROVE  \A n \in Patterns :
           Visited(t)[n] = {n} \cup UNION {Visited(t)[c] : c \in Children(t, n)}
<1> DEFINE Value(v, n) == {n} \cup UNION {v[c] : c \in Children(t, n)}
           U == Patterns \X Patterns
           Next1(A) == {u \in U : \/ u[2] = u[1]
                                  \/ \E c \in Children(t, u[1]) : <<c, u[2]>> \in A}
           phi == [A \in SUBSET U |-> Next1(A)]
<1>1. phi \in Transformers(U) /\ Monotone(phi, U)
  <2> HIDE DEF U
  <2>1. \A A : Next1(A) \in SUBSET U
    OBVIOUS
  <2>2. phi \in Transformers(U)
    <3> HIDE DEF Next1
    <3>1. QED
      BY <2>1 DEF Transformers
  <2>3. \A A, B : A \subseteq B => Next1(A) \subseteq Next1(B)
    OBVIOUS
  <2>4. Monotone(phi, U)
    <3> HIDE DEF Next1
    <3>1. QED
      BY <2>3 DEF Monotone
  <2>5. QED
    BY <2>2, <2>4
<1>2. PICK R \in SUBSET U : R = Next1(R)
  <2> HIDE DEF U, Next1
  <2>1. \A A \in SUBSET U : phi[A] = Next1(A)
    OBVIOUS
  <2> HIDE DEF phi
  <2>2. \E R \in SUBSET U : phi[R] = R
    BY <1>1, FixedPoint
  <2>3. QED
    BY <2>1, <2>2
<1> DEFINE G == [n \in Patterns |-> {x \in Patterns : <<n, x>> \in R}]
<1>3. ASSUME NEW n \in Patterns
      PROVE  G[n] = Value(G, n)
  <2>1. \A x \in Patterns : <<n, x>> \in R <=>
          x = n \/ \E c \in Children(t, n) : <<c, x>> \in R
    <3>1. \A x \in Patterns : <<n, x>> \in U
      OBVIOUS
    <3>2. \A u \in U : u \in R <=>
            u[2] = u[1] \/ \E c \in Children(t, u[1]) : <<c, u[2]>> \in R
      <4>1. \A A : \A u \in U : u \in Next1(A) <=>
              u[2] = u[1] \/ \E c \in Children(t, u[1]) : <<c, u[2]>> \in A
        <5> HIDE DEF U
        <5>1. QED
          OBVIOUS
      <4> HIDE DEF U, Next1
      <4>2. \A u : u \in R <=> u \in Next1(R)
        BY <1>2
      <4>3. QED
        BY <4>1, <4>2
    <3> HIDE DEF U
    <3>3. \A x \in Patterns : <<n, x>>[1] = n /\ <<n, x>>[2] = x
      OBVIOUS
    <3>4. QED
      BY <3>1, <3>2, <3>3
  <2>2. \A c \in Children(t, n) : G[c] = {x \in Patterns : <<c, x>> \in R}
    OBVIOUS
  <2>3. G[n] = {x \in Patterns : <<n, x>> \in R}
    OBVIOUS
  <2> HIDE DEF G, U
  <2>4. G[n] \subseteq Value(G, n)
    BY <2>1, <2>2, <2>3
  <2>5. Value(G, n) \subseteq G[n]
    <3>1. ASSUME NEW x \in Value(G, n)
          PROVE  x \in G[n]
      <4>1. CASE x = n
        BY <2>1, <2>3, <4>1
      <4>2. CASE x # n
        <5>1. PICK c \in Children(t, n) : x \in G[c]
          BY <4>2
        <5>2. x \in Patterns /\ <<c, x>> \in R
          BY <2>2, <5>1
        <5>3. QED
          BY <2>1, <2>3, <5>2
      <4>3. QED
        BY <4>1, <4>2
    <3> HIDE DEF Value
    <3>2. QED
      BY <3>1
  <2>6. QED
    BY <2>4, <2>5
<1>4. G = [n \in Patterns |-> Value(G, n)]
  <2> HIDE DEF Value
  <2>1. QED
    BY <1>3
<1> DEFINE visited == CHOOSE v : v = [n \in Patterns |-> Value(v, n)]
<1>5. visited = [n \in Patterns |-> Value(visited, n)]
  <2> HIDE DEF Value, G
  <2>1. QED
    BY <1>4
<1>6. Visited(t) = visited
  BY DEF Visited
<1> HIDE DEF visited
<1>7. QED
  BY <1>5, <1>6

\* What is reached from one job is in every set that has it and what it inherits.
Reached(t, stem) ==
  {n \in Patterns : \A S \in SUBSET Patterns : Inherits(t, S) /\ stem \in S => n \in S}

\* One stem, no cycle met from it and no recursion without end: a DAG with one entry.
LEMMA ConnectedIsDag ==
  ASSUME IsFiniteSet(Patterns), deps \in Seq(DepSet), IsFiniteSet(jobs), ParserTypeOK,
         NEW t, NEW stem \in DefinedIn(t) \cap Patterns, Connected(t, stem), ~Endless(t)
  PROVE  OneEntryDag(DepsIn(t), DefinedIn(t))
<1> DEFINE V == Reached(t, stem)
<1>1. \A n : /\ Children(t, n) \subseteq Patterns
             /\ \A c : c \in Children(t, n) <=> n \in ParentSet(t, c)
  BY Relatives
<1>2. PICK From : Search(t, From) /\ \A n : NoCycles(t, n) <=> n \in From[{}]
  BY <1>1, NoCyclesUnfolds
<1>3. stem \in From[{}]
  BY <1>2 DEF Connected
<1> DEFINE G == {n \in Patterns : \E path \in SUBSET Patterns : n \in From[path]}
<1>4. Inherits(t, G) /\ stem \in G
  <2>1. stem \in G
    BY <1>3
  <2>2. ASSUME NEW n \in G, NEW c \in Children(t, n)
        PROVE  c \in G
    <3>1. PICK path \in SUBSET Patterns : n \in From[path]
      OBVIOUS
    <3>2. c \in From[path \cup {n}] /\ path \cup {n} \in SUBSET Patterns /\ c \in Patterns
      BY <1>1, <1>2, <3>1 DEF Search
    <3>3. QED
      BY <3>2
  <2>3. Inherits(t, G)
    <3> HIDE DEF G
    <3>1. QED
      BY <2>2 DEF Inherits
  <2>4. QED
    BY <2>1, <2>3
<1>5. V \subseteq G /\ V \subseteq Patterns /\ stem \in V /\ Inherits(t, V)
  <2>1. G \in SUBSET Patterns
    OBVIOUS
  <2> HIDE DEF G
  <2>2. V \subseteq G /\ V \subseteq Patterns /\ stem \in V
    BY <1>4, <2>1 DEF Reached
  <2>3. Inherits(t, V)
    BY <1>1 DEF Reached, Inherits
  <2>4. QED
    BY <2>2, <2>3
<1>6. ASSUME NEW S \in SUBSET Patterns, Walks(t, S), NEW n \in S, n \in G
      PROVE  FALSE
  BY <1>2, <1>6, SearchEnds
<1> HIDE DEF V, G
<1>7. Visited(t)[stem] \subseteq V
  <2>1. SUFFICES ASSUME NEW x \in Visited(t)[stem], x \notin V
                 PROVE  FALSE
    OBVIOUS
  <2> DEFINE S == {n \in V : x \in Visited(t)[n]}
  <2>2. S \in SUBSET Patterns /\ stem \in S
    BY <1>5
  <2>3. ASSUME NEW n \in S
        PROVE  Children(t, n) \cap S # {}
    <3>1. n \in V /\ x \in Visited(t)[n] /\ n \in Patterns
      BY <1>5
    <3>2. x \in {n} \cup UNION {Visited(t)[c] : c \in Children(t, n)}
      BY <1>1, <3>1, VisitedUnfolds
    <3>3. x # n
      BY <2>1, <3>1
    <3>4. PICK c \in Children(t, n) : x \in Visited(t)[c]
      BY <3>2, <3>3
    <3>5. c \in V
      BY <1>5, <3>1 DEF Inherits
    <3>6. QED
      BY <3>4, <3>5
  <2> HIDE DEF S
  <2>4. Walks(t, S)
    BY <2>3 DEF Walks
  <2>5. QED
    BY <1>5, <1>6, <2>2, <2>4
<1>8. DefinedIn(t) \subseteq V
  BY <1>7 DEF Connected
<1>9. ASSUME NEW S \in SUBSET Patterns, S # {}, Walks(t, S)
      PROVE  FALSE
  <2>1. PICK T \in SUBSET Patterns : T # {} /\ T \subseteq S /\ Walks(t, T) /\ Climbs(t, T)
    BY <1>9, WalkersClimb
  <2>2. T \cap V = {}
    BY <1>5, <1>6, <2>1
  <2>3. PICK n \in T : TRUE
    BY <2>1
  <2>4. HasDefinedAncestors(t)[n] = "endless"
    <3>1. V \in SUBSET Patterns
      BY <1>5
    <3>2. QED
      BY <1>5, <1>8, <2>1, <2>2, <3>1, ClimbersAreEndless
  <2>5. PICK c \in Children(t, n) : TRUE
    BY <2>1 DEF Walks
  <2>6. n \in {j.name : j \in JobsIn(t)}
    BY <2>5 DEF Children, DepsIn, ParserTypeOK
  <2>7. QED
    BY <2>4, <2>6 DEF Endless
<1> DEFINE edges == DepsIn(t)
           ChildrenOf(S) == {d.child : d \in {e \in edges : e.parent \in S}}
<1>10. \A S : \A c : c \in ChildrenOf(S) <=> \E n \in S : c \in Children(t, n)
  BY DEF Children
<1>11. ASSUME NEW S \in (SUBSET Patterns) \ {{}}
       PROVE  \E n \in S : ChildrenOf({n}) \cap S = {}
  <2>1. PICK n \in S : Children(t, n) \cap S = {}
    BY <1>9 DEF Walks
  <2>2. \A c : c \in ChildrenOf({n}) => c \in Children(t, n)
    <3>1. \A c : c \in ChildrenOf({n}) => \E m \in {n} : c \in Children(t, m)
      <4> HIDE DEF ChildrenOf
      <4>1. QED
        BY <1>10
    <3> HIDE DEF ChildrenOf
    <3>2. QED
      BY <3>1
  <2> HIDE DEF ChildrenOf
  <2>3. QED
    BY <2>1, <2>2
<1>12. ASSUME NEW S \in SUBSET Patterns, ChildrenOf(S) \subseteq S, stem \in S
       PROVE  DefinedIn(t) \subseteq S
  <2>1. Inherits(t, S)
    <3> HIDE DEF ChildrenOf
    <3>1. QED
      BY <1>10, <1>12 DEF Inherits
  <2>2. QED
    BY <1>8, <1>12, <2>1 DEF V, Reached
<1>13. QED
  BY <1>11, <1>12 DEF OneEntryDag

\* A tree validates if its own conditions are met and the trees in it validate.
LEMMA ValidatesUnfolds ==
  ASSUME \A j \in jobs : j.iterated => j.name \in Trees
  PROVE  \A t \in Trees : Validates[t] <=>
           /\ Cardinality(Stems(t)) = 1
           /\ \A stem \in Stems(t) : Connected(t, stem)
           /\ \A j \in JobsIn(t) : JobValidates(j) /\ (j.iterated => Validates[j.name])
<1> DEFINE Own(t) == /\ Cardinality(Stems(t)) = 1
                     /\ \A stem \in Stems(t) : Connected(t, stem)
           Value(v, t) == /\ Cardinality(Stems(t)) = 1
                          /\ \A stem \in Stems(t) : Connected(t, stem)
                          /\ \A j \in JobsIn(t) : JobValidates(j) /\ (j.iterated => v[j.name])
           Next1(A) == {t \in Trees : /\ Own(t)
                                      /\ \A j \in JobsIn(t) :
                                           JobValidates(j) /\ (j.iterated => j.name \in A)}
           phi == [A \in SUBSET Trees |-> Next1(A)]
<1>1. phi \in Transformers(Trees) /\ Monotone(phi, Trees)
  <2>1. \A A : Next1(A) \in SUBSET Trees
    OBVIOUS
  <2>2. phi \in Transformers(Trees)
    <3> HIDE DEF Next1
    <3>1. QED
      BY <2>1 DEF Transformers
  <2>3. \A A, B : A \subseteq B => Next1(A) \subseteq Next1(B)
    <3> HIDE DEF Own
    <3>1. QED
      OBVIOUS
  <2>4. Monotone(phi, Trees)
    <3> HIDE DEF Next1
    <3>1. QED
      BY <2>3 DEF Monotone
  <2>5. QED
    BY <2>2, <2>4
<1>2. PICK R \in SUBSET Trees : R = Next1(R)
  <2> HIDE DEF Next1
  <2>1. \A A \in SUBSET Trees : phi[A] = Next1(A)
    OBVIOUS
  <2> HIDE DEF phi
  <2>2. \E R \in SUBSET Trees : phi[R] = R
    BY <1>1, FixedPoint
  <2>3. QED
    BY <2>1, <2>2
<1> DEFINE G == [t \in Trees |-> t \in R]
<1>3. ASSUME NEW t \in Trees
      PROVE  G[t] = Value(G, t)
  <2>1. t \in R <=> t \in Next1(R)
    <3> HIDE DEF Next1
    <3>1. QED
      BY <1>2
  <2>2. \A j \in JobsIn(t) : j.iterated => G[j.name] = (j.name \in R)
    BY DEF JobsIn
  <2>3. G[t] = (t \in R)
    OBVIOUS
  <2> HIDE DEF G
  <2>4. t \in Next1(R) <=> Value(G, t)
    BY <2>2
  <2>5. Value(G, t) \in BOOLEAN
    OBVIOUS
  <2>6. t \in R <=> Value(G, t)
    <3> HIDE DEF Value, Next1
    <3>1. QED
      BY <2>1, <2>4
  <2> HIDE DEF Value
  <2>7. QED
    BY <2>3, <2>5, <2>6
<1>4. G = [t \in Trees |-> Value(G, t)]
  <2> HIDE DEF Value
  <2>1. QED
    BY <1>3
<1>5. Validates = [t \in Trees |-> Value(Validates, t)]
  <2> DEFINE v0 == CHOOSE v : v = [t \in Trees |-> Value(v, t)]
  <2>1. Validates = v0
    BY DEF Validates
  <2> HIDE DEF Value, G
  <2>2. v0 = [t \in Trees |-> Value(v0, t)]
    BY <1>4
  <2> HIDE DEF v0
  <2>3. QED
    BY <2>1, <2>2
<1>6. ASSUME NEW t \in Trees
      PROVE  Validates[t] <=> Value(Validates, t)
  <2>1. Validates[t] = Value(Validates, t)
    <3> HIDE DEF Value
    <3>1. QED
      BY <1>5
  <2> HIDE DEF Value
  <2>2. QED
    BY <2>1
<1>7. QED
  BY <1>6

\* There are finitely many jobs, and those with a subtree have a script.
JobsInv ==
  /\ IsFiniteSet(jobs)
  /\ \A j \in jobs : j.name \in Patterns /\ (j.iterated => j.name \in Names)

LEMMA JobsStep ==
  ASSUME ReleaseAssumption, ParserInv, JobsInv, [Next]_vars
  PROVE  JobsInv'
<1>1. CASE MakeJobs
  <2>1. PICK all \in {AllScripts} :
          IF NoSuchTree(all) \/ JobDefinedTwice(all)
            THEN step' = "raised" /\ UNCHANGED <<jobs, todo>>
            ELSE /\ jobs' = {Job(s) : s \in ToSet(all)}
                 /\ todo' = FlattenSeq([i \in DOMAIN all |-> Dependencies(all, all[i])])
                 /\ step' = "link"
    BY <1>1 DEF MakeJobs
  <2>2. all \in Seq(ScriptSet)
    BY AllScriptsType DEF ParserInv
  <2>3. CASE NoSuchTree(all) \/ JobDefinedTwice(all)
    BY <2>1, <2>3 DEF JobsInv
  <2>4. CASE ~(NoSuchTree(all) \/ JobDefinedTwice(all))
    <3>1. jobs' = {Job(s) : s \in ToSet(all)}
      BY <2>1, <2>4
    <3>2. DOMAIN all = 1..Len(all) /\ Len(all) \in Nat /\ \A i \in DOMAIN all : all[i] \in ScriptSet
      BY <2>2
    <3> DEFINE f == [i \in 1..Len(all) |-> Job(all[i])]
    <3>3. jobs' = {f[i] : i \in 1..Len(all)}
      BY <3>1, <3>2 DEF ToSet
    <3>4. IsFiniteSet(jobs')
      <4>1. IsFiniteSet(1..Len(all))
        BY <3>2, FS_Interval
      <4>2. f \in Surjection(1..Len(all), jobs')
        BY <3>3 DEF Surjection, Range
      <4>3. QED
        BY <4>1, <4>2, FS_Surjection
    <3>5. \A i \in DOMAIN all : Job(all[i]).name \in Names
      BY <3>2 DEF Job, ScriptSet
    <3>6. \A j \in jobs' : j.name \in Names
      BY <3>2, <3>3, <3>5
    <3>7. QED
      BY <3>4, <3>6 DEF JobsInv, ReleaseAssumption
  <2>5. QED
    BY <2>3, <2>4
<1>2. CASE Link
  <2> DEFINE q == Head(todo)
  <2>1. AddDep(q) \/ AddPlaceholder(q) \/ SkipDuplicate(q) \/ Refuse(q)
    BY <1>2 DEF Link
  <2>2. q.other \in Patterns
    <3> DEFINE Q == {a \in AskSet : ByJob(a, jobs)}
    <3>1. todo \in Seq(Q) /\ todo # <<>>
      BY <1>2 DEF Link, ParserInv, LinkInv
    <3>2. \A S : \A s \in Seq(S) : s # <<>> => Head(s) \in S
      OBVIOUS
    <3>3. q \in Q
      <4> HIDE DEF Q
      <4>1. QED
        BY <3>1, <3>2
    <3>4. QED
      BY <3>3 DEF AskSet
  <2> HIDE DEF q
  <2>3. CASE UNCHANGED jobs
    BY <2>3 DEF JobsInv
  <2>4. CASE AddPlaceholder(q)
    <3>1. jobs' = jobs \cup {Placeholder(q.tree, q.other)}
      BY <2>4 DEF AddPlaceholder
    <3>2. IsFiniteSet(jobs')
      BY <3>1, FS_AddElement DEF JobsInv
    <3>3. Placeholder(q.tree, q.other).name \in Patterns /\ ~Placeholder(q.tree, q.other).iterated
      BY <2>2 DEF Placeholder
    <3>4. QED
      BY <3>1, <3>2, <3>3 DEF JobsInv
  <2>5. QED
    BY <2>1, <2>3, <2>4 DEF AddDep, SkipDuplicate, Refuse
<1>3. CASE SelectGroups \/ ReadDir \/ Validate \/ UNCHANGED vars
  BY <1>3 DEF SelectGroups, ReadDir, Validate, vars, JobsInv
<1>4. QED
  BY <1>1, <1>2, <1>3 DEF Next

\* The subtrees of the root are trees that validate, if the root does.
LEMMA SubtreesValidate ==
  ASSUME ReleaseAssumption, JobsInv, Validates[Root]
  PROVE  \A t \in {Root} \cup SubtreesOfRoot : t \in Trees /\ Validates[t]
<1> DEFINE subtrees == {j.name : j \in {k \in jobs : k.iterated}}
           S == {n \in subtrees : Validates[n]}
<1>1. subtrees \subseteq Trees /\ Root \in Trees
  BY DEF JobsInv, Trees
<1>2. \A j \in jobs : j.iterated => j.name \in Trees
  BY DEF JobsInv, Trees
<1>3. \A u : IteratedIn(u) \subseteq subtrees
  BY DEF IteratedIn, JobsIn
<1>4. \A u \in Trees : Validates[u] => \A n \in IteratedIn(u) : Validates[n]
  BY <1>2, ValidatesUnfolds DEF IteratedIn
<1>5. \A u \in {Root} \cup S : IteratedIn(u) \subseteq S
  <2> HIDE DEF subtrees
  <2>1. QED
    BY <1>1, <1>3, <1>4
<1>6. S \in SUBSET subtrees
  OBVIOUS
<1>7. ASSUME NEW t \in SubtreesOfRoot
      PROVE  t \in S
  BY <1>5, <1>6 DEF SubtreesOfRoot
<1>8. QED
  BY <1>1, <1>6, <1>7

\* What the last step accepts.
LEMMA ValidateSound ==
  ASSUME ReleaseAssumption, ParserInv, JobsInv, Validate, step' = "accepted"
  PROVE  \A t \in {Root} \cup SubtreesOfRoot : OneEntryDag(DepsIn(t), DefinedIn(t))
<1>1. Validates[Root] /\ \A t \in {Root} \cup SubtreesOfRoot : ~Endless(t)
  BY DEF Validate
<1>2. SUFFICES ASSUME NEW t \in {Root} \cup SubtreesOfRoot
               PROVE  OneEntryDag(DepsIn(t), DefinedIn(t))
  OBVIOUS
<1>3. t \in Trees /\ Validates[t] /\ ~Endless(t)
  BY <1>1, SubtreesValidate
<1>4. \A j \in jobs : j.iterated => j.name \in Trees
  BY DEF JobsInv, Trees
<1>5. Cardinality(Stems(t)) = 1 /\ \A stem \in Stems(t) : Connected(t, stem)
  BY <1>3, <1>4, ValidatesUnfolds
<1>6. DefinedIn(t) \subseteq Patterns /\ Stems(t) \subseteq DefinedIn(t)
  BY DEF DefinedIn, JobsIn, JobsInv, Stems
<1>7. PICK stem : stem \in Stems(t)
  <2>1. Stems(t) # {}
    BY <1>5, FS_EmptySet
  <2>2. QED
    BY <2>1
<1>8. QED
  <2>1. stem \in DefinedIn(t) \cap Patterns /\ Connected(t, stem)
    BY <1>5, <1>6, <1>7
  <2>2. IsFiniteSet(Patterns) /\ IsFiniteSet(jobs) /\ deps \in Seq(DepSet) /\ ParserTypeOK
    BY DEF ReleaseAssumption, JobsInv, ParserInv, LinkInv
  <2>3. QED
    BY <1>3, <2>1, <2>2, ConnectedIsDag

LEMMA SameTrees ==
  ASSUME jobs' = jobs, deps' = deps
  PROVE  /\ SubtreesOfRoot' = SubtreesOfRoot
         /\ \A t : DepsIn(t)' = DepsIn(t) /\ DefinedIn(t)' = DefinedIn(t)
<1>1. \A t : JobsIn(t)' = JobsIn(t)
  BY DEF JobsIn
<1>2. \A t : IteratedIn(t)' = IteratedIn(t)
  BY <1>1 DEF IteratedIn
<1>3. SubtreesOfRoot' = SubtreesOfRoot
  BY <1>2 DEF SubtreesOfRoot
<1>4. QED
  BY <1>1, <1>3 DEF DepsIn, DefinedIn

\* Every sequence that is going to run is a DAG whose scripts all descend from one
\* script, in the root and in every subtree of it, for all releases: what the
\* searches of has_defined_anscestors and validate_nocycles find makes sure of it, and
\* so does the recursion that does not end where they do not look, in a cycle of
\* placeholders.  Code: ExecTree.validate, stems, validate_nocycles.
THEOREM AcceptedTreesSound == ParserSpec => []AcceptedIsSound
<1>1. ReleaseAssumption
  BY ReleaseAssumption
<1>2. Init => JobsInv /\ AcceptedIsSound
  <2>1. IsFiniteSet({})
    BY FS_EmptySet
  <2>2. QED
    BY <2>1 DEF Init, JobsInv, AcceptedIsSound
<1>3. ParserInv /\ JobsInv /\ [Next]_vars => JobsInv'
  BY <1>1, JobsStep
<1>4. ParserInv /\ JobsInv /\ AcceptedIsSound /\ [Next]_vars => AcceptedIsSound'
  <2> SUFFICES ASSUME ParserInv, JobsInv, AcceptedIsSound, [Next]_vars, step' = "accepted"
               PROVE  AcceptedIsSound'
    BY DEF AcceptedIsSound
  <2>1. CASE Validate
    <3>1. \A t \in {Root} \cup SubtreesOfRoot : OneEntryDag(DepsIn(t), DefinedIn(t))
      BY <1>1, <2>1, ValidateSound
    <3>2. jobs' = jobs /\ deps' = deps
      BY <2>1 DEF Validate
    <3>3. QED
      BY <3>1, <3>2, SameTrees DEF AcceptedIsSound
  <2>2. CASE UNCHANGED vars
    <3>1. jobs' = jobs /\ deps' = deps /\ step = "accepted"
      BY <2>2 DEF vars
    <3>2. QED
      BY <3>1, SameTrees DEF AcceptedIsSound
  <2>3. ~SelectGroups /\ ~ReadDir /\ ~MakeJobs /\ ~Link
    BY DEF SelectGroups, ReadDir, MakeJobs, Link, AddDep, AddPlaceholder, SkipDuplicate, Refuse
  <2>4. QED
    BY <2>1, <2>2, <2>3 DEF Next
<1>5. QED
  BY <1>2, <1>3, <1>4, ParserInvariant, PTL DEF ParserSpec

-----------------------------------------------------------------------------
(* What sequences have.                                                    *)

\* Reading the first of a sequence leaves the others.
LEMMA HeadAndTail ==
  ASSUME NEW S, NEW seq \in Seq(S), seq # <<>>
  PROVE  /\ Head(seq) \in S /\ Tail(seq) \in Seq(S)
         /\ ToSet(seq) = {Head(seq)} \cup ToSet(Tail(seq))
<1>1. /\ Len(seq) \in Nat /\ Len(seq) # 0 /\ DOMAIN seq = 1..Len(seq)
      /\ Head(seq) = seq[1] /\ Head(seq) \in S /\ Tail(seq) \in Seq(S)
      /\ DOMAIN Tail(seq) = 1..(Len(seq) - 1)
      /\ \A i \in 1..(Len(seq) - 1) : Tail(seq)[i] = seq[i + 1]
  OBVIOUS
<1> DEFINE h == Head(seq)
           tl == Tail(seq)
<1> HIDE DEF h, tl
<1>2. ToSet(seq) \subseteq {h} \cup ToSet(tl)
  <2>1. SUFFICES ASSUME NEW i \in DOMAIN seq
                 PROVE  seq[i] \in {h} \cup ToSet(tl)
    BY DEF ToSet
  <2>2. i = 1 \/ (i - 1 \in 1..(Len(seq) - 1) /\ (i - 1) + 1 = i)
    BY <1>1
  <2>3. CASE i = 1
    BY <1>1, <2>3 DEF h
  <2>4. CASE i - 1 \in 1..(Len(seq) - 1) /\ (i - 1) + 1 = i
    <3>1. i - 1 \in DOMAIN tl /\ tl[i - 1] = seq[i]
      BY <1>1, <2>4 DEF tl
    <3>2. QED
      BY <3>1 DEF ToSet
  <2>5. QED
    BY <2>2, <2>3, <2>4
<1>3. ToSet(tl) \subseteq ToSet(seq)
  <2>1. SUFFICES ASSUME NEW i \in DOMAIN tl
                 PROVE  tl[i] \in ToSet(seq)
    BY DEF ToSet
  <2>2. tl[i] = seq[i + 1] /\ i + 1 \in DOMAIN seq
    BY <1>1 DEF tl
  <2>3. QED
    BY <2>2 DEF ToSet
<1>4. h \in ToSet(seq)
  <2>1. 1 \in DOMAIN seq /\ h = seq[1]
    BY <1>1 DEF h
  <2>2. QED
    BY <2>1 DEF ToSet
<1>5. QED
  BY <1>1, <1>2, <1>3, <1>4 DEF h, tl

\* Among picks all members of the sequence that are in the set.
LEMMA AmongMembers ==
  ASSUME NEW S, NEW seq \in Seq(S), NEW set
  PROVE  ToSet(Among(seq, set)) = ToSet(seq) \cap set
<1> DEFINE parts == [i \in DOMAIN seq |-> IF seq[i] \in set THEN <<seq[i]>> ELSE <<>>]
<1>1. DOMAIN seq = 1..Len(seq) /\ Len(seq) \in Nat /\ \A i \in DOMAIN seq : seq[i] \in S
  OBVIOUS
<1>2. \A i \in DOMAIN seq : parts[i] = IF seq[i] \in set THEN <<seq[i]>> ELSE <<>>
  OBVIOUS
<1>3. DOMAIN parts = DOMAIN seq /\ parts = [i \in DOMAIN parts |-> parts[i]]
  OBVIOUS
<1> HIDE DEF parts
<1>4. \A x : ToSet(<<x>>) = {x}
  BY DEF ToSet
<1>5. ToSet(<<>>) = {}
  BY DEF ToSet
<1>6. \A i \in DOMAIN seq : ToSet(parts[i]) = IF seq[i] \in set THEN {seq[i]} ELSE {}
  BY <1>2, <1>4, <1>5
<1>7. \A i \in DOMAIN seq : parts[i] \in Seq(S)
  <2>1. ASSUME NEW i \in DOMAIN seq
        PROVE  parts[i] \in Seq(S)
    <3>1. seq[i] \in S
      BY <1>1
    <3>2. <<seq[i]>> \in Seq(S) /\ <<>> \in Seq(S)
      BY <3>1
    <3>3. QED
      BY <1>2, <3>2
  <2>2. QED
    BY <2>1
<1>8. parts \in Seq(Seq(S))
  BY <1>3, <1>7, MapType
<1>9. ToSet(FlattenSeq(parts)) = UNION {ToSet(parts[i]) : i \in DOMAIN parts}
  BY <1>8, FlattenMembers
<1>10. UNION {ToSet(parts[i]) : i \in DOMAIN parts} = ToSet(seq) \cap set
  <2>1. \A x : x \in ToSet(seq) <=> \E i \in DOMAIN seq : seq[i] = x
    BY DEF ToSet
  <2> DEFINE B(i) == ToSet(parts[i])
  <2>2. \A i \in DOMAIN parts : \A x : x \in B(i) <=> x = seq[i] /\ seq[i] \in set
    BY <1>3, <1>6
  <2> HIDE DEF B
  <2>3. UNION {B(i) : i \in DOMAIN parts} = ToSet(seq) \cap set
    BY <1>3, <2>1, <2>2
  <2>4. QED
    BY <2>3 DEF B
<1>11. QED
  BY <1>9, <1>10 DEF Among, parts

\* A listing of a finite set has its members.
LEMMA ListingMembers ==
  ASSUME NEW D, IsFiniteSet(D), NEW listing \in SetToSeqs(D)
  PROVE  listing \in Seq(D) /\ ToSet(listing) = D /\ IsInjective(listing)
<1>1. Cardinality(D) \in Nat
  BY FS_CardinalityType
<1>2. listing \in [1..Cardinality(D) -> D] /\ IsInjective(listing)
  <2> DEFINE I == 1..Cardinality(D)
  <2>1. listing \in {f \in [I -> D] : \A i, j \in I : i # j => f[i] # f[j]}
    BY DEF SetToSeqs
  <2> HIDE DEF I
  <2>2. listing \in [I -> D] /\ \A i, j \in I : i # j => listing[i] # listing[j]
    BY <2>1
  <2>3. QED
    BY <2>2 DEF IsInjective, I
<1>3. listing \in Seq(D) /\ DOMAIN listing = 1..Cardinality(D)
  BY <1>1, <1>2
<1> DEFINE I == 1..Cardinality(D)
<1>4. IsFiniteSet(I) /\ Cardinality(I) = Cardinality(D)
  BY <1>1, FS_Interval
<1>5. listing \in Injection(I, D)
  BY <1>2, <1>3 DEF Injection, IsInjective
<1>6. D \subseteq Range(listing)
  <2> HIDE DEF I
  <2>1. listing \in Surjection(I, D)
    BY <1>4, <1>5, FS_Injection
  <2>2. DOMAIN listing = I
    BY <1>3 DEF I
  <2>3. QED
    BY <2>1, <2>2 DEF Surjection, Range
<1>7. Range(listing) = ToSet(listing)
  BY DEF Range, ToSet
<1>8. ToSet(listing) \subseteq D
  BY <1>2, <1>3 DEF ToSet
<1>9. QED
  BY <1>2, <1>3, <1>6, <1>7, <1>8

-----------------------------------------------------------------------------
(* What has been read.                                                     *)

Dir(g, o) == [group |-> g, override |-> o]

Entry(n, o, h) == [name |-> n, override |-> o, header |-> h]

\* The scripts of a directory.
Entries(d) == {Entry(n, d.override, Files(d)[n]) : n \in DOMAIN Files(d)}

\* The scripts of a group whose first and second directory has been read, or not.
Content(g, b, o) ==
  {s \in Entries(Dir(g, FALSE)) : b /\ (o => s.name \notin DOMAIN Files(Dir(g, TRUE)))}
    \cup {s \in Entries(Dir(g, TRUE)) : o}

Read(g, b, o) ==
  /\ Dir(g, FALSE) \notin ToSet(unread) => b
  /\ Dir(g, TRUE) \notin ToSet(unread) => o
  /\ o => \A d \in ToSet(unread) : d.override
  /\ ToSet(scripts[g]) = Content(g, b, o)

OverridesLast(seq) ==
  \A i, k \in DOMAIN seq : i <= k /\ seq[i].override => seq[k].override

ContentInv ==
  /\ step = "select" => scripts = [g \in Groups |-> <<>>]
  /\ step = "read" => /\ OverridesLast(unread)
                      /\ \A g \in ToSet(groups) : \E b, o \in BOOLEAN : Read(g, b, o)

LEMMA EntryIs ==
  \A n, o, h : Entry(n, o, h).name = n /\ Entry(n, o, h).override = o /\ Entry(n, o, h).header = h
BY DEF Entry

LEMMA EntriesNames ==
  ASSUME NEW d
  PROVE  {s.name : s \in Entries(d)} = DOMAIN Files(d)
<1> DEFINE D == DOMAIN Files(d)
           E(n) == Entry(n, d.override, Files(d)[n])
<1>1. \A n : E(n).name = n
  BY EntryIs
<1>2. Entries(d) = {E(n) : n \in D}
  BY DEF Entries
<1> HIDE DEF E, D
<1>3. \A x : x \in {s.name : s \in Entries(d)} <=> x \in D
  BY <1>1, <1>2
<1>4. QED
  BY <1>3 DEF D

LEMMA DirectoriesMembers ==
  ASSUME NEW selected \in Seq(Groups), NEW o
  PROVE  /\ DOMAIN Directories(selected, o) = 1..Len(selected)
         /\ \A i \in 1..Len(selected) : Directories(selected, o)[i] = Dir(selected[i], o)
         /\ ToSet(Directories(selected, o)) = {Dir(g, o) : g \in ToSet(selected)}
BY DEF Directories, Dir, ToSet

LEMMA SelectContent ==
  ASSUME ReleaseAssumption, ReadInv, ContentInv, SelectGroups
  PROVE  ContentInv'
<1>1. PICK chosen \in {Chosen(release.install, release.named)} :
        IF SelectRaises(chosen, release.named)
          THEN step' = "raised" /\ UNCHANGED <<groups, unread>>
          ELSE /\ groups' = [i \in DOMAIN chosen |-> chosen[i].name]
               /\ unread' = Directories(groups', FALSE) \o Directories(groups', TRUE)
               /\ step' = "read"
  BY DEF SelectGroups
<1>2. release \in Releases
  BY DEF ReadInv
<1>3. CASE SelectRaises(chosen, release.named)
  BY <1>1, <1>3 DEF ContentInv
<1>4. CASE ~SelectRaises(chosen, release.named)
  <2> DEFINE x == Directories(groups', FALSE)
             y == Directories(groups', TRUE)
             D == [group : Groups, override : BOOLEAN]
             n == Len(groups')
  <2>1. groups' \in Seq(Groups)
    BY <1>1, <1>2, <1>4, NamesType
  <2>2. x \in Seq(D) /\ y \in Seq(D)
    BY <2>1, DirectoriesType
  <2>3. /\ DOMAIN x = 1..n /\ DOMAIN y = 1..n /\ n \in Nat
        /\ \A i \in 1..n : x[i] = Dir(groups'[i], FALSE) /\ y[i] = Dir(groups'[i], TRUE)
        /\ ToSet(x) = {Dir(g, FALSE) : g \in ToSet(groups')}
        /\ ToSet(y) = {Dir(g, TRUE) : g \in ToSet(groups')}
    <3>1. n \in Nat
      BY <2>1
    <3> HIDE DEF n
    <3>2. \A o : /\ DOMAIN Directories(groups', o) = 1..n
                 /\ \A i \in 1..n : Directories(groups', o)[i] = Dir(groups'[i], o)
                 /\ ToSet(Directories(groups', o)) = {Dir(g, o) : g \in ToSet(groups')}
      BY <2>1, DirectoriesMembers DEF n
    <3>3. QED
      BY <3>1, <3>2
  <2>4. unread' = x \o y /\ step' = "read"
    BY <1>1, <1>4
  <2>5. scripts' = [g \in Groups |-> <<>>]
    BY DEF SelectGroups, ContentInv
  <2>6. \A g \in ToSet(groups') : g \in Groups
    BY <2>1 DEF ToSet
  <2>7. \A g : Dir(g, FALSE).override = FALSE /\ Dir(g, TRUE).override = TRUE
    BY DEF Dir
  <2> HIDE DEF x, y, D, n
  <2>8. ToSet(unread') = ToSet(x) \cup ToSet(y)
    BY <2>2, <2>4, ConcatMembers
  <2>9. OverridesLast(unread')
    <3>1. Len(x) = n /\ Len(y) = n
      <4>1. \A s \in Seq(D) : DOMAIN s = 1..Len(s) /\ Len(s) \in Nat
        OBVIOUS
      <4>2. \A k \in Nat : 1..k = 1..n => k = n
        BY <2>3
      <4>3. QED
        BY <2>2, <2>3, <4>1, <4>2
    <3> DEFINE z == x \o y
    <3>2. DOMAIN z = 1..(n + n) /\ \A i \in 1..(n + n) : z[i] = IF i <= n THEN x[i] ELSE y[i - n]
      BY <2>2, <2>3, <3>1
    <3> HIDE DEF z
    <3>3. \A i \in 1..(n + n) : z[i].override <=> ~(i <= n)
      <4>1. ASSUME NEW i \in 1..(n + n)
            PROVE  z[i].override <=> ~(i <= n)
        <5>1. CASE i <= n
          <6>1. i \in 1..n /\ z[i] = x[i]
            BY <2>3, <3>2, <5>1
          <6>2. z[i] = Dir(groups'[i], FALSE)
            BY <2>3, <6>1
          <6>3. z[i].override = FALSE
            BY <2>7, <6>2
          <6>4. QED
            BY <5>1, <6>3
        <5>2. CASE ~(i <= n)
          <6>1. i - n \in 1..n /\ z[i] = y[i - n]
            BY <2>3, <3>2, <5>2
          <6>2. z[i] = Dir(groups'[i - n], TRUE)
            BY <2>3, <6>1
          <6>3. z[i].override = TRUE
            BY <2>7, <6>2
          <6>4. QED
            BY <5>2, <6>3
        <5>3. QED
          BY <5>1, <5>2
      <4>2. QED
        BY <4>1
    <3>4. \A i, k \in 1..(n + n) : i <= k /\ ~(i <= n) => ~(k <= n)
      BY <2>3
    <3>5. QED
      BY <2>4, <3>2, <3>3, <3>4 DEF OverridesLast, z
  <2>10. ASSUME NEW g \in ToSet(groups')
         PROVE  Read(g, FALSE, FALSE)'
    <3>1. Dir(g, FALSE) \in ToSet(unread') /\ Dir(g, TRUE) \in ToSet(unread')
      BY <2>3, <2>8
    <3>2. ToSet(scripts'[g]) = {}
      BY <2>5, <2>6 DEF ToSet
    <3>3. Content(g, FALSE, FALSE)' = {}
      BY DEF Content
    <3>4. QED
      BY <3>1, <3>2, <3>3 DEF Read
  <2>11. QED
    BY <2>4, <2>9, <2>10 DEF ContentInv
<1>5. QED
  BY <1>3, <1>4

\* add_script of each script of a directory.
LEMMA AddScriptsMembers ==
  ASSUME NEW S, NEW list \in Seq(S), NEW added \in Seq(S), NEW o
  PROVE  ToSet(AddScripts(list, added, o)) =
           {s \in ToSet(list) : o => s.name \notin {a.name : a \in ToSet(added)}}
             \cup ToSet(added)
<1> DEFINE kept == {s \in ToSet(list) : s.name \notin {t.name : t \in ToSet(added)}}
           first == IF o THEN Among(list, kept) ELSE list
<1>1. AddScripts(list, added, o) = first \o added
  BY DEF AddScripts
<1>2. Among(list, kept) \in Seq(S) /\ ToSet(Among(list, kept)) = ToSet(list) \cap kept
  <2> HIDE DEF kept
  <2>1. Among(list, kept) \in Seq(S \cap kept)
    BY AmongType
  <2>2. QED
    BY <2>1, AmongMembers
<1>3. first \in Seq(S) /\ ToSet(first) = {s \in ToSet(list) : o => s \in kept}
  <2> HIDE DEF kept
  <2>1. CASE o
    BY <1>2, <2>1
  <2>2. CASE ~o
    BY <1>2, <2>2
  <2>3. QED
    BY <2>1, <2>2
<1> HIDE DEF first
<1>4. ToSet(first \o added) = ToSet(first) \cup ToSet(added)
  BY <1>3, ConcatMembers
<1>5. QED
  BY <1>1, <1>3, <1>4

LEMMA ReadDirContent ==
  ASSUME ReleaseAssumption, ReadInv, ContentInv, ReadDir
  PROVE  ContentInv'
<1> DEFINE d == Head(unread)
           files == Files(d)
           Added(listing) ==
             [i \in DOMAIN listing |-> [name |-> listing[i], override |-> d.override,
                                        header |-> files[listing[i]]]]
           D == [group : Groups, override : BOOLEAN]
<1>1. /\ d \in D /\ unread' = Tail(unread) /\ Tail(unread) \in Seq(D) /\ unread \in Seq(D)
      /\ ToSet(unread) = {d} \cup ToSet(unread')
  <2>1. unread \in Seq(D) /\ unread # <<>> /\ unread' = Tail(unread)
    BY DEF ReadDir, ReadInv
  <2> HIDE DEF D
  <2>2. QED
    BY <2>1, HeadAndTail
<1>2. step = "read" /\ step' = "read" /\ groups' = groups /\ release' = release
  BY DEF ReadDir
<1>3. OverridesLast(unread) /\ \A g \in ToSet(groups) : \E b, o \in BOOLEAN : Read(g, b, o)
  BY <1>2 DEF ContentInv
<1>4. PICK listing \in SetToSeqs(DOMAIN files) :
        scripts' = [scripts EXCEPT ![d.group] = AddScripts(@, Added(listing), d.override)]
  BY Zenon DEF ReadDir
<1>5. listing \in Seq(DOMAIN files) /\ ToSet(listing) = DOMAIN files
  <2>1. IsFiniteSet(DOMAIN files)
    BY FilesType, FS_Subset DEF ReadInv, ReleaseAssumption
  <2> HIDE DEF files
  <2>2. QED
    BY <1>4, <2>1, ListingMembers
<1>6. \A n \in DOMAIN files : n \in Names /\ files[n] \in Headers
  BY FilesType DEF ReadInv
<1> DEFINE added == Added(listing)
<1>7. ToSet(added) = Entries(d)
  <2>1. ToSet(added) = {Entry(n, d.override, files[n]) : n \in ToSet(listing)}
    <3> HIDE DEF files, d
    <3>1. QED
      BY DEF ToSet, Entry
  <2>2. QED
    BY <1>5, <2>1 DEF Entries
<1>8. added \in Seq(ScriptSet)
  <2> HIDE DEF d, files
  <2>1. \A i \in DOMAIN listing : listing[i] \in DOMAIN files
    BY <1>5
  <2>2. \A i \in DOMAIN listing : added[i] \in ScriptSet
    BY <1>1, <1>6, <2>1 DEF ScriptSet
  <2>3. DOMAIN added = DOMAIN listing /\ added = [i \in DOMAIN added |-> added[i]]
    OBVIOUS
  <2> HIDE DEF added
  <2>4. QED
    BY <1>5, <2>2, <2>3, MapType
<1>9. {a.name : a \in ToSet(added)} = DOMAIN files
  <2> HIDE DEF added, files
  <2>1. {a.name : a \in Entries(d)} = DOMAIN Files(d)
    BY EntriesNames
  <2>2. QED
    BY <1>7, <2>1 DEF files
<1>10. ASSUME NEW g \in Groups
       PROVE  ToSet(scripts'[g]) =
                IF g = d.group
                THEN {s \in ToSet(scripts[g]) : d.override => s.name \notin DOMAIN Files(d)}
                       \cup Entries(d)
                ELSE ToSet(scripts[g])
  <2>1. scripts \in [Groups -> Seq(ScriptSet)]
    BY DEF ReadInv
  <2> HIDE DEF d, added
  <2>2. CASE g = d.group
    <3>1. scripts'[g] = AddScripts(scripts[g], added, d.override)
      BY <1>4, <2>1, <2>2 DEF added
    <3>2. scripts[g] \in Seq(ScriptSet)
      BY <2>1
    <3>3. ToSet(AddScripts(scripts[g], added, d.override)) =
            {s \in ToSet(scripts[g]) :
               d.override => s.name \notin {a.name : a \in ToSet(added)}} \cup ToSet(added)
      BY <1>8, <3>2, AddScriptsMembers
    <3>4. QED
      BY <1>7, <1>9, <2>2, <3>1, <3>3
  <2>3. CASE g # d.group
    BY <1>4, <2>1, <2>3
  <2>4. QED
    BY <2>2, <2>3
<1>11. \A g, b, o : Content(g, b, o)' = Content(g, b, o)
  BY <1>2 DEF Content, Entries, Files
<1>12. d = Dir(d.group, d.override) /\ d.override \in BOOLEAN
  BY <1>1 DEF Dir
<1>13. \A g : \A o \in BOOLEAN : d = Dir(g, o) => d.group = g /\ d.override = o
  BY DEF Dir
<1> HIDE DEF d, files, added, D
<1>14. OverridesLast(unread')
  <2>1. \A i \in DOMAIN unread' : i + 1 \in DOMAIN unread /\ unread'[i] = unread[i + 1]
    <3>1. \A s \in Seq(D) : s # <<>> => \A i \in DOMAIN Tail(s) : i + 1 \in DOMAIN s /\ Tail(s)[i] = s[i + 1]
      OBVIOUS
    <3>2. unread # <<>>
      BY DEF ReadDir
    <3>3. QED
      BY <1>1, <3>1, <3>2
  <2>2. \A i \in DOMAIN unread' : i \in Nat
    <3>1. \A s \in Seq(D) : \A i \in DOMAIN s : i \in Nat
      OBVIOUS
    <3>2. QED
      BY <1>1, <3>1
  <2>3. ASSUME NEW i \in DOMAIN unread', NEW k \in DOMAIN unread', i <= k, unread'[i].override
        PROVE  unread'[k].override
    <3>1. i + 1 <= k + 1
      BY <2>2, <2>3
    <3>2. QED
      BY <1>3, <2>1, <2>3, <3>1 DEF OverridesLast
  <2>4. QED
    BY <2>3 DEF OverridesLast
<1>15. d.override => \A e \in ToSet(unread) : e.override
  <2>1. unread # <<>>
    BY DEF ReadDir
  <2>2. 1 \in DOMAIN unread /\ d = unread[1] /\ \A i \in DOMAIN unread : 1 <= i
    <3>1. \A s \in Seq(D) : s # <<>> => 1 \in DOMAIN s /\ Head(s) = s[1] /\ \A i \in DOMAIN s : 1 <= i
      OBVIOUS
    <3>2. QED
      BY <1>1, <2>1, <3>1 DEF d
  <2>3. QED
    BY <1>3, <2>2 DEF OverridesLast, ToSet
<1>16. ASSUME NEW g \in ToSet(groups)
       PROVE  \E b, o \in BOOLEAN : Read(g, b, o)'
  <2>1. PICK b \in BOOLEAN, o \in BOOLEAN : Read(g, b, o)
    BY <1>3
  <2>2. /\ Dir(g, FALSE) \notin ToSet(unread) => b
        /\ Dir(g, TRUE) \notin ToSet(unread) => o
        /\ o => \A e \in ToSet(unread) : e.override
        /\ ToSet(scripts[g]) = Content(g, b, o)
    BY <2>1 DEF Read
  <2>3. g \in Groups
    BY DEF ReadInv, ToSet
  <2>4. CASE g # d.group
    <3>1. Dir(g, FALSE) # d /\ Dir(g, TRUE) # d
      BY <1>13, <2>4
    <3>2. Read(g, b, o)'
      BY <1>1, <1>10, <1>11, <2>2, <2>3, <2>4, <3>1 DEF Read
    <3>3. QED
      BY <3>2
  <2>5. CASE g = d.group /\ ~d.override
    <3>1. d = Dir(g, FALSE) /\ d # Dir(g, TRUE)
      BY <1>12, <1>13, <2>5
    <3>2. ~o /\ Dir(g, TRUE) \in ToSet(unread')
      BY <1>1, <2>2, <2>5, <3>1
    <3>3. ToSet(scripts'[g]) = ToSet(scripts[g]) \cup Entries(Dir(g, FALSE))
      BY <1>10, <2>3, <2>5, <3>1
    <3>4. Content(g, b, o) \cup Entries(Dir(g, FALSE)) = Content(g, TRUE, FALSE)
      BY <3>2 DEF Content
    <3>5. Read(g, TRUE, FALSE)'
      BY <1>11, <2>2, <3>2, <3>3, <3>4 DEF Read
    <3>6. QED
      BY <3>5
  <2>6. CASE g = d.group /\ d.override
    <3>1. d = Dir(g, TRUE)
      BY <1>12, <2>6
    <3>2. \A e \in ToSet(unread) : e.override
      BY <1>15, <2>6
    <3>3. b
      <4>1. ~Dir(g, FALSE).override
        BY DEF Dir
      <4>2. QED
        BY <2>2, <3>2, <4>1
    <3>4. ToSet(scripts'[g]) =
            {s \in Content(g, b, o) : s.name \notin DOMAIN Files(Dir(g, TRUE))}
              \cup Entries(Dir(g, TRUE))
      BY <1>10, <2>2, <2>3, <2>6, <3>1
    <3>5. ToSet(scripts'[g]) = Content(g, TRUE, TRUE)
      <4>1. \A s \in Entries(Dir(g, TRUE)) : s.name \in DOMAIN Files(Dir(g, TRUE))
        BY EntriesNames
      <4>2. QED
        BY <3>3, <3>4, <4>1 DEF Content
    <3>6. \A e \in ToSet(unread') : e.override
      BY <1>1, <3>2
    <3>7. Read(g, TRUE, TRUE)'
      BY <1>11, <3>5, <3>6 DEF Read
    <3>8. QED
      BY <3>7
  <2>7. QED
    BY <2>4, <2>5, <2>6
<1>17. QED
  BY <1>2, <1>14, <1>16 DEF ContentInv

-----------------------------------------------------------------------------
(* What the headers declare.                                               *)

\* all are the scripts in force, with the headers in force.
Complete(all) ==
  /\ \A s \in ToSet(all) : s.name \in DOMAIN InForce /\ s.header = InForce[s.name]
  /\ \A n \in DOMAIN InForce : \E s \in ToSet(all) : s.name = n

LEMMA EntriesMembers ==
  ASSUME NEW d, NEW s
  PROVE  s \in Entries(d) => /\ s.name \in DOMAIN Files(d)
                             /\ s.header = Files(d)[s.name]
<1> DEFINE E(n) == Entry(n, d.override, Files(d)[n])
<1>1. \A n : E(n).name = n /\ E(n).header = Files(d)[n]
  BY EntryIs
<1>2. Entries(d) = {E(n) : n \in DOMAIN Files(d)}
  BY DEF Entries
<1> HIDE DEF E
<1>3. QED
  BY <1>1, <1>2

LEMMA FilesMembers ==
  ASSUME NEW g
  PROVE  /\ \A n : n \in DOMAIN Files(Dir(g, FALSE)) <=>
                     n \in DOMAIN release.base /\ GroupOf[n] = g /\ g \notin release.whole
         /\ \A n \in DOMAIN Files(Dir(g, FALSE)) : Files(Dir(g, FALSE))[n] = release.base[n]
         /\ \A n : n \in DOMAIN Files(Dir(g, TRUE)) <=>
                     n \in DOMAIN release.override /\ GroupOf[n] = g
         /\ \A n \in DOMAIN Files(Dir(g, TRUE)) : Files(Dir(g, TRUE))[n] = release.override[n]
BY DEF Files, Dir

LEMMA InForceMembers ==
  /\ \A n : n \in DOMAIN InForce <=>
       /\ GroupOf[n] \in ToSet(groups)
       /\ \/ n \in DOMAIN release.override
          \/ n \in DOMAIN release.base /\ GroupOf[n] \notin release.whole
  /\ \A n \in DOMAIN InForce :
       InForce[n] = IF n \in DOMAIN release.override THEN release.override[n] ELSE release.base[n]
BY DEF InForce

\* All scripts are those of the groups.
LEMMA AllMembers ==
  ASSUME ReadInv
  PROVE  \A s : s \in ToSet(AllScripts) <=> \E g \in ToSet(groups) : s \in ToSet(scripts[g])
<1> DEFINE lists == [i \in DOMAIN groups |-> scripts[groups[i]]]
<1>1. groups \in Seq(Groups) /\ \A i \in DOMAIN groups : groups[i] \in Groups
  BY DEF ReadInv
<1>2. ToSet(AllScripts) = UNION {ToSet(lists[i]) : i \in DOMAIN lists}
  <2>1. \A i \in DOMAIN groups : lists[i] \in Seq(ScriptSet)
    BY <1>1 DEF ReadInv
  <2>2. DOMAIN lists = DOMAIN groups /\ lists = [i \in DOMAIN lists |-> lists[i]]
    OBVIOUS
  <2> HIDE DEF lists
  <2>3. lists \in Seq(Seq(ScriptSet))
    BY <1>1, <2>1, <2>2, MapType
  <2>4. ToSet(FlattenSeq(lists)) = UNION {ToSet(lists[i]) : i \in DOMAIN lists}
    BY <2>3, FlattenMembers
  <2>5. QED
    BY <2>4 DEF AllScripts, lists
<1>3. \A s : s \in ToSet(AllScripts) <=> \E g \in ToSet(groups) : s \in ToSet(scripts[g])
  <2>1. \A i \in DOMAIN groups : lists[i] = scripts[groups[i]]
    OBVIOUS
  <2>2. DOMAIN lists = DOMAIN groups
    OBVIOUS
  <2> HIDE DEF lists
  <2>3. \A s : s \in ToSet(AllScripts) <=> \E i \in DOMAIN groups : s \in ToSet(scripts[groups[i]])
    BY <1>2, <2>1, <2>2
  <2>4. \A g : g \in ToSet(groups) <=> \E i \in DOMAIN groups : g = groups[i]
    BY DEF ToSet
  <2>5. QED
    BY <2>3, <2>4
<1>4. QED
  BY <1>3

\* The scripts of a group, when all directories have been read.
LEMMA AllContent ==
  ASSUME ContentInv, step = "read", unread = <<>>
  PROVE  \A g \in ToSet(groups) :
           /\ ToSet(scripts[g]) = Content(g, TRUE, TRUE)
           /\ \A s \in ToSet(scripts[g]) : GroupOf[s.name] = g
<1>1. \A g \in ToSet(groups) : ToSet(scripts[g]) = Content(g, TRUE, TRUE)
  <2>1. ASSUME NEW g \in ToSet(groups)
        PROVE  ToSet(scripts[g]) = Content(g, TRUE, TRUE)
    <3>1. PICK b \in BOOLEAN, o \in BOOLEAN : Read(g, b, o)
      BY DEF ContentInv
    <3>2. ToSet(unread) = {}
      BY DEF ToSet
    <3>3. b = TRUE /\ o = TRUE /\ ToSet(scripts[g]) = Content(g, b, o)
      BY <3>1, <3>2 DEF Read
    <3>4. QED
      BY <3>3
  <2>2. QED
    BY <2>1
<1>2. \A g : \A s : s \in Content(g, TRUE, TRUE) <=>
               \/ s \in Entries(Dir(g, FALSE)) /\ s.name \notin DOMAIN Files(Dir(g, TRUE))
               \/ s \in Entries(Dir(g, TRUE))
  BY DEF Content
<1>3. ASSUME NEW g \in ToSet(groups), NEW s \in ToSet(scripts[g])
      PROVE  GroupOf[s.name] = g
  <2>1. s.name \in DOMAIN Files(Dir(g, FALSE)) \/ s.name \in DOMAIN Files(Dir(g, TRUE))
    BY <1>1, <1>2, EntriesMembers
  <2>2. QED
    BY <2>1, FilesMembers
<1>4. QED
  BY <1>1, <1>3

\* The scripts of all groups are those in force, when all directories have been read.
LEMMA AllComplete ==
  ASSUME ReadInv, ContentInv, step = "read", unread = <<>>
  PROVE  Complete(AllScripts)
<1>3. \A s : s \in ToSet(AllScripts) <=> \E g \in ToSet(groups) : s \in ToSet(scripts[g])
  BY AllMembers
<1>4. \A g \in ToSet(groups) : ToSet(scripts[g]) = Content(g, TRUE, TRUE)
  BY AllContent
<1>5. \A g : \A s : s \in Content(g, TRUE, TRUE) <=>
               \/ s \in Entries(Dir(g, FALSE)) /\ s.name \notin DOMAIN Files(Dir(g, TRUE))
               \/ s \in Entries(Dir(g, TRUE))
  BY DEF Content
<1>6. ASSUME NEW s \in ToSet(AllScripts)
      PROVE  s.name \in DOMAIN InForce /\ s.header = InForce[s.name]
  <2>1. PICK g \in ToSet(groups) : s \in ToSet(scripts[g])
    BY <1>3
  <2>2. \/ s \in Entries(Dir(g, FALSE)) /\ s.name \notin DOMAIN Files(Dir(g, TRUE))
        \/ s \in Entries(Dir(g, TRUE))
    BY <1>4, <1>5, <2>1
  <2>3. CASE s \in Entries(Dir(g, FALSE)) /\ s.name \notin DOMAIN Files(Dir(g, TRUE))
    <3>1. s.name \in DOMAIN Files(Dir(g, FALSE)) /\ s.header = Files(Dir(g, FALSE))[s.name]
      BY <2>3, EntriesMembers
    <3>2. /\ s.name \in DOMAIN release.base /\ GroupOf[s.name] = g /\ g \notin release.whole
          /\ s.header = release.base[s.name] /\ s.name \notin DOMAIN release.override
      BY <2>3, <3>1, FilesMembers
    <3>3. QED
      BY <3>2, InForceMembers
  <2>4. CASE s \in Entries(Dir(g, TRUE))
    <3>1. s.name \in DOMAIN Files(Dir(g, TRUE)) /\ s.header = Files(Dir(g, TRUE))[s.name]
      BY <2>4, EntriesMembers
    <3>2. s.name \in DOMAIN release.override /\ GroupOf[s.name] = g
      BY <3>1, FilesMembers
    <3>3. \A n \in DOMAIN Files(Dir(g, TRUE)) : Files(Dir(g, TRUE))[n] = release.override[n]
      BY FilesMembers
    <3>4. s.header = release.override[s.name]
      BY <3>1, <3>3
    <3>5. QED
      BY <3>2, <3>4, InForceMembers
  <2>5. QED
    BY <2>2, <2>3, <2>4
<1>7. ASSUME NEW n \in DOMAIN InForce
      PROVE  \E s \in ToSet(AllScripts) : s.name = n
  <2> DEFINE g == GroupOf[n]
  <2>1. /\ g \in ToSet(groups)
        /\ \/ n \in DOMAIN release.override
           \/ n \in DOMAIN release.base /\ g \notin release.whole
    BY InForceMembers
  <2> HIDE DEF g
  <2>2. CASE n \in DOMAIN release.override
    <3>1. n \in DOMAIN Files(Dir(g, TRUE))
      BY <2>2, FilesMembers DEF g
    <3>2. PICK s \in Entries(Dir(g, TRUE)) : s.name = n
      <4>1. n \in {s.name : s \in Entries(Dir(g, TRUE))}
        BY <3>1, EntriesNames
      <4>2. QED
        BY <4>1
    <3>3. s \in ToSet(AllScripts)
      BY <1>3, <1>4, <1>5, <2>1, <3>2
    <3>4. QED
      BY <3>2, <3>3
  <2>3. CASE n \notin DOMAIN release.override
    <3>1. n \in DOMAIN Files(Dir(g, FALSE)) /\ n \notin DOMAIN Files(Dir(g, TRUE))
      BY <2>1, <2>3, FilesMembers DEF g
    <3>2. PICK s \in Entries(Dir(g, FALSE)) : s.name = n
      <4>1. n \in {s.name : s \in Entries(Dir(g, FALSE))}
        BY <3>1, EntriesNames
      <4>2. QED
        BY <4>1
    <3>3. s \in ToSet(AllScripts)
      BY <1>3, <1>4, <1>5, <2>1, <3>1, <3>2
    <3>4. QED
      BY <3>2, <3>3
  <2>4. QED
    BY <2>2, <2>3
<1>8. QED
  BY <1>6, <1>7 DEF Complete

\* The names a pattern matches.
LEMMA MatchingMembers ==
  ASSUME NEW all \in Seq(ScriptSet), Complete(all), NEW p
  PROVE  /\ ToSet(Matching(all, p)) = Matches[p] \cap DOMAIN InForce
         /\ Matching(all, p) = <<>> <=> Matches[p] \cap DOMAIN InForce = {}
         /\ Matching(all, p) \in Seq(Names)
<1> DEFINE names == [i \in DOMAIN all |-> all[i].name]
<1>1. names \in Seq(Names)
  <2>1. \A i \in DOMAIN all : all[i] \in ScriptSet
    OBVIOUS
  <2>2. \A i \in DOMAIN all : names[i] \in Names
    BY <2>1 DEF ScriptSet
  <2>3. DOMAIN names = DOMAIN all /\ names = [i \in DOMAIN names |-> names[i]]
    OBVIOUS
  <2> HIDE DEF names
  <2>4. QED
    BY <2>2, <2>3, MapType
<1>2. ToSet(names) = DOMAIN InForce
  <2>1. \A n : n \in ToSet(names) <=> \E s \in ToSet(all) : s.name = n
    BY DEF ToSet
  <2>2. QED
    BY <2>1 DEF Complete
<1> HIDE DEF names
<1>3. ToSet(Among(names, Matches[p])) = ToSet(names) \cap Matches[p]
  BY <1>1, AmongMembers
<1>4. Among(names, Matches[p]) \in Seq(Names \cap Matches[p])
  BY <1>1, AmongType
<1>5. Matching(all, p) = Among(names, Matches[p])
  BY DEF Matching, names
<1>6. \A s \in Seq(Names) : s = <<>> <=> ToSet(s) = {}
  <2>1. ASSUME NEW s \in Seq(Names), s # <<>>
        PROVE  ToSet(s) # {}
    BY <2>1, HeadAndTail
  <2>2. ToSet(<<>>) = {}
    BY DEF ToSet
  <2>3. QED
    BY <2>1, <2>2
<1>7. Matching(all, p) \in Seq(Names)
  <2>1. \A S, T : Seq(S \cap T) \subseteq Seq(S)
    OBVIOUS
  <2>2. QED
    BY <1>4, <1>5, <2>1
<1>8. QED
  BY <1>2, <1>3, <1>5, <1>6, <1>7

\* What one pattern is expanded to.
Expansion(all, p) == IF Matching(all, p) = <<>> THEN <<p>> ELSE Matching(all, p)

LEMMA ExpansionMembers ==
  ASSUME ReleaseAssumption, NEW all \in Seq(ScriptSet), Complete(all), NEW p \in Patterns
  PROVE  Expansion(all, p) \in Seq(Patterns) /\ ToSet(Expansion(all, p)) = Meant(p)
<1>1. Matching(all, p) \in Seq(Patterns)
  <2>1. Matching(all, p) \in Seq(Names)
    BY MatchingMembers
  <2>2. \A A, B : A \subseteq B => Seq(A) \subseteq Seq(B)
    OBVIOUS
  <2>3. QED
    BY <2>1, <2>2 DEF ReleaseAssumption
<1>2. <<p>> \in Seq(Patterns) /\ ToSet(<<p>>) = {p}
  BY DEF ToSet
<1>3. ToSet(Matching(all, p)) = Matches[p] \cap DOMAIN InForce
      /\ (Matching(all, p) = <<>> <=> Matches[p] \cap DOMAIN InForce = {})
  BY MatchingMembers
<1>4. Meant(p) = IF Matches[p] \cap DOMAIN InForce = {} THEN {p} ELSE Matches[p] \cap DOMAIN InForce
  BY DEF Meant
<1>5. QED
  BY <1>1, <1>2, <1>3, <1>4 DEF Expansion

\* A header field is expanded to what its patterns mean.
LEMMA GlobExpandMembers ==
  ASSUME ReleaseAssumption, NEW all \in Seq(ScriptSet), Complete(all),
         NEW patterns \in Seq(Patterns)
  PROVE  ToSet(GlobExpand(all, patterns)) = UNION {Meant(patterns[i]) : i \in DOMAIN patterns}
<1> DEFINE lists == [i \in DOMAIN patterns |-> Expansion(all, patterns[i])]
<1>1. \A i \in DOMAIN patterns : patterns[i] \in Patterns
  OBVIOUS
<1>2. \A i \in DOMAIN patterns : lists[i] \in Seq(Patterns) /\ ToSet(lists[i]) = Meant(patterns[i])
  BY <1>1, ExpansionMembers
<1>3. DOMAIN lists = DOMAIN patterns /\ lists = [i \in DOMAIN lists |-> lists[i]]
  OBVIOUS
<1>4. GlobExpand(all, patterns) = FlattenSeq(lists)
  BY DEF GlobExpand, Expansion
<1> HIDE DEF lists
<1>5. lists \in Seq(Seq(Patterns))
  BY <1>2, <1>3, MapType
<1>6. ToSet(FlattenSeq(lists)) = UNION {ToSet(lists[i]) : i \in DOMAIN lists}
  BY <1>5, FlattenMembers
<1>7. UNION {ToSet(lists[i]) : i \in DOMAIN lists} = UNION {Meant(patterns[i]) : i \in DOMAIN patterns}
  BY <1>2, <1>3
<1>8. QED
  BY <1>4, <1>6, <1>7

\* The scripts of earlier phases.
LEMMA EarlierMembers ==
  ASSUME NEW all \in Seq(ScriptSet), Complete(all), NEW s
  PROVE  \A n : n \in ToSet(Earlier(all, s)) <=>
           /\ n \in Within(Root) /\ s.header.within = Root
           /\ InForce[n].phase < s.header.phase
<1> DEFINE which == {p \in ToSet(all) :
                      /\ p.header.phase < s.header.phase
                      /\ p.header.within = Root /\ s.header.within = Root}
           before == Among(all, which)
           names == [i \in DOMAIN before |-> before[i].name]
<1>1. \A p : p \in which <=> /\ p \in ToSet(all) /\ p.header.phase < s.header.phase
                            /\ p.header.within = Root /\ s.header.within = Root
  OBVIOUS
<1> HIDE DEF which
<1>2. ToSet(before) = ToSet(all) \cap which
  BY AmongMembers
<1> HIDE DEF before
<1>3. \A n : n \in ToSet(names) <=> \E p \in ToSet(before) : p.name = n
  BY DEF ToSet
<1>4. Earlier(all, s) = names
  BY DEF Earlier, names, before, which
<1>5. \A n : n \in Within(Root) <=> n \in DOMAIN InForce /\ InForce[n].within = Root
  BY DEF Within
<1> HIDE DEF names
<1>6. ASSUME NEW n
      PROVE  n \in ToSet(names) <=> /\ n \in Within(Root) /\ s.header.within = Root
                                    /\ InForce[n].phase < s.header.phase
  <2>1. ASSUME n \in ToSet(names)
        PROVE  /\ n \in Within(Root) /\ s.header.within = Root
               /\ InForce[n].phase < s.header.phase
    <3>1. PICK p \in ToSet(all) : p.name = n /\ p \in which
      BY <1>2, <1>3, <2>1
    <3>2. p.header = InForce[n] /\ n \in DOMAIN InForce
      BY <3>1 DEF Complete
    <3>3. QED
      BY <1>1, <1>5, <3>1, <3>2
  <2>2. ASSUME n \in Within(Root), s.header.within = Root, InForce[n].phase < s.header.phase
        PROVE  n \in ToSet(names)
    <3>1. n \in DOMAIN InForce /\ InForce[n].within = Root
      BY <1>5, <2>2
    <3>2. PICK p \in ToSet(all) : p.name = n
      BY <3>1 DEF Complete
    <3>3. p.header = InForce[n]
      BY <3>2 DEF Complete
    <3>4. p \in which
      BY <1>1, <2>2, <3>1, <3>2, <3>3
    <3>5. QED
      BY <1>2, <1>3, <3>2, <3>4
  <2>3. QED
    BY <2>1, <2>2
<1>7. QED
  BY <1>4, <1>6

\* The dependency that the script n asks for in the field f, when o is the other job.
Pair(n, f, o) ==
  [tree |-> InForce[n].within, parent |-> IF f = "child" THEN n ELSE o,
   child |-> IF f = "child" THEN o ELSE n]

\* The dependencies of a field.
Fielded(n, f) ==
  UNION {{Pair(n, f, o) : o \in Meant(InForce[n][f][i])} : i \in DOMAIN InForce[n][f]}

\* Those of the phases.
Phased(n) ==
  {Pair(n, "phase", o) : o \in {m \in Within(Root) :
                                  n \in Within(Root) /\ InForce[m].phase < InForce[n].phase}}

Edges(asks) == {Edge(q) : q \in ToSet(asks)}

LEMMA AsksEdges ==
  ASSUME NEW s, s.header = InForce[s.name], NEW kind, NEW names
  PROVE  Edges(Asks(s, kind, names)) = {Pair(s.name, kind, o) : o \in ToSet(names)}
<1> DEFINE A(o) == [kind |-> kind, tree |-> s.header.within, script |-> s.name,
                    defined |-> ~s.header.leftOut, other |-> o]
<1>1. \A o : Edge(A(o)) = Pair(s.name, kind, o)
  BY DEF Edge, Pair
<1>2. Asks(s, kind, names) = [i \in DOMAIN names |-> A(names[i])]
  BY DEF Asks
<1> HIDE DEF A
<1>3. \A e : e \in Edges(Asks(s, kind, names)) <=> \E i \in DOMAIN names : e = Edge(A(names[i]))
  BY <1>2 DEF Edges, ToSet
<1>4. \A e : e \in {Pair(s.name, kind, o) : o \in ToSet(names)} <=>
             \E i \in DOMAIN names : e = Pair(s.name, kind, names[i])
  BY DEF ToSet
<1>5. QED
  BY <1>1, <1>3, <1>4

LEMMA GlobEdges ==
  ASSUME ReleaseAssumption, NEW all \in Seq(ScriptSet), Complete(all), NEW s \in ToSet(all),
         NEW f \in {"hard", "soft", "child"}
  PROVE  Edges(Asks(s, f, GlobExpand(all, s.header[f]))) = Fielded(s.name, f)
<1>1. s.header = InForce[s.name] /\ s.header[f] \in Seq(Patterns)
  <2>1. s \in ScriptSet
    BY DEF ToSet
  <2>2. QED
    BY <2>1 DEF ScriptSet, Headers, Complete
<1> DEFINE ps == s.header[f]
           names == GlobExpand(all, ps)
<1>2. ToSet(names) = UNION {Meant(ps[i]) : i \in DOMAIN ps}
  BY <1>1, GlobExpandMembers
<1>3. Edges(Asks(s, f, names)) = {Pair(s.name, f, o) : o \in ToSet(names)}
  BY <1>1, AsksEdges
<1>4. Fielded(s.name, f) = UNION {{Pair(s.name, f, o) : o \in Meant(ps[i])} : i \in DOMAIN ps}
  BY <1>1 DEF Fielded
<1> HIDE DEF ps, names
<1>5. \A e : e \in {Pair(s.name, f, o) : o \in ToSet(names)} <=>
             \E i \in DOMAIN ps : \E o \in Meant(ps[i]) : e = Pair(s.name, f, o)
  BY <1>2
<1>6. \A e : e \in Fielded(s.name, f) <=>
             \E i \in DOMAIN ps : \E o \in Meant(ps[i]) : e = Pair(s.name, f, o)
  BY <1>4
<1>7. QED
  BY <1>3, <1>5, <1>6 DEF names, ps

LEMMA EdgesConcat ==
  ASSUME NEW S, NEW a \in Seq(S), NEW b \in Seq(S)
  PROVE  a \o b \in Seq(S) /\ Edges(a \o b) = Edges(a) \cup Edges(b)
<1>1. a \o b \in Seq(S)
  OBVIOUS
<1> DEFINE c == a \o b
<1>2. ToSet(c) = ToSet(a) \cup ToSet(b)
  BY ConcatMembers
<1> HIDE DEF c
<1>3. Edges(c) = Edges(a) \cup Edges(b)
  BY <1>2 DEF Edges
<1>4. QED
  BY <1>1, <1>3 DEF c

LEMMA PhaseEdges ==
  ASSUME NEW all \in Seq(ScriptSet), Complete(all), NEW s \in ToSet(all)
  PROVE  Edges(Asks(s, "phase", Earlier(all, s))) = Phased(s.name)
<1> DEFINE n == s.name
<1>0. s.header = InForce[n] /\ n \in DOMAIN InForce
  BY DEF Complete
<1>1. Edges(Asks(s, "phase", Earlier(all, s))) = {Pair(n, "phase", m) : m \in ToSet(Earlier(all, s))}
  BY <1>0, AsksEdges
<1>2. \A m : m \in ToSet(Earlier(all, s)) <=>
        /\ m \in Within(Root) /\ s.header.within = Root
        /\ InForce[m].phase < s.header.phase
  BY EarlierMembers
<1>3. n \in Within(Root) <=> s.header.within = Root
  BY <1>0 DEF Within
<1>4. ToSet(Earlier(all, s)) =
        {m \in Within(Root) : n \in Within(Root) /\ InForce[m].phase < InForce[n].phase}
  <2> HIDE DEF n
  <2>1. \A m : m \in ToSet(Earlier(all, s)) <=>
          m \in Within(Root) /\ n \in Within(Root) /\ InForce[m].phase < InForce[n].phase
    BY <1>0, <1>2, <1>3
  <2>2. QED
    BY <2>1
<1>5. QED
  BY <1>1, <1>4 DEF Phased

LEMMA DependenciesEdges ==
  ASSUME ReleaseAssumption, NEW all \in Seq(ScriptSet), Complete(all), NEW s \in ToSet(all)
  PROVE  Edges(Dependencies(all, s)) =
           (UNION {Fielded(s.name, f) : f \in {"hard", "soft", "child"}}) \cup Phased(s.name)
<1> DEFINE h == Asks(s, "hard", GlobExpand(all, s.header.hard))
           o == Asks(s, "soft", GlobExpand(all, s.header.soft))
           c == Asks(s, "child", GlobExpand(all, s.header.child))
           p == Asks(s, "phase", Earlier(all, s))
           n == s.name
<1>1. s \in ScriptSet /\ s.header = InForce[n] /\ n \in DOMAIN InForce
  BY DEF ToSet, Complete
<1>2. h \in Seq(AskSet) /\ o \in Seq(AskSet) /\ c \in Seq(AskSet) /\ p \in Seq(AskSet)
  <2> DEFINE T == {q \in AskSet : q.tree = s.header.within /\ q.script = s.name}
  <2>1. s.header \in Headers
    BY <1>1 DEF ScriptSet
  <2>2. /\ s.header.hard \in Seq(Patterns)
        /\ s.header.soft \in Seq(Patterns)
        /\ s.header.child \in Seq(Patterns)
    BY <2>1 DEF Headers
  <2>3. h \in Seq(T) /\ o \in Seq(T) /\ c \in Seq(T) /\ p \in Seq(T)
    BY <1>1, <2>2, GlobExpandType, EarlierType, AsksType
  <2>4. \A A, B : A \subseteq B => Seq(A) \subseteq Seq(B)
    OBVIOUS
  <2>5. T \subseteq AskSet
    OBVIOUS
  <2> HIDE DEF T, h, o, c, p
  <2>6. QED
    BY <2>3, <2>4, <2>5
<1>3. /\ Edges(h) = Fielded(n, "hard")
      /\ Edges(o) = Fielded(n, "soft")
      /\ Edges(c) = Fielded(n, "child")
  <2>1. \A f \in {"hard", "soft", "child"} :
          Edges(Asks(s, f, GlobExpand(all, s.header[f]))) = Fielded(n, f)
    BY GlobEdges
  <2>2. /\ h = Asks(s, "hard", GlobExpand(all, s.header["hard"]))
        /\ o = Asks(s, "soft", GlobExpand(all, s.header["soft"]))
        /\ c = Asks(s, "child", GlobExpand(all, s.header["child"]))
    OBVIOUS
  <2> HIDE DEF h, o, c
  <2>3. QED
    BY <2>1, <2>2
<1>4. Edges(p) = Phased(n)
  BY PhaseEdges
<1>5. Dependencies(all, s) = ((h \o o) \o c) \o p
  BY DEF Dependencies
<1> HIDE DEF h, o, c, p
<1>6. Edges(Dependencies(all, s)) = ((Edges(h) \cup Edges(o)) \cup Edges(c)) \cup Edges(p)
  <2> DEFINE ho == h \o o
             hoc == ho \o c
  <2>1. ho \in Seq(AskSet) /\ Edges(ho) = Edges(h) \cup Edges(o)
    BY <1>2, EdgesConcat
  <2> HIDE DEF ho
  <2>2. hoc \in Seq(AskSet) /\ Edges(hoc) = Edges(ho) \cup Edges(c)
    BY <1>2, <2>1, EdgesConcat
  <2> HIDE DEF hoc
  <2>3. Edges(hoc \o p) = Edges(hoc) \cup Edges(p)
    BY <1>2, <2>2, EdgesConcat
  <2>4. QED
    BY <1>5, <2>1, <2>2, <2>3 DEF ho, hoc
<1>7. UNION {Fielded(n, f) : f \in {"hard", "soft", "child"}} =
        (Fielded(n, "hard") \cup Fielded(n, "soft")) \cup Fielded(n, "child")
  OBVIOUS
<1>8. Edges(Dependencies(all, s)) =
        ((Fielded(n, "hard") \cup Fielded(n, "soft")) \cup Fielded(n, "child")) \cup Phased(n)
  <2> HIDE DEF n
  <2>1. QED
    BY <1>3, <1>4, <1>6
<1>9. QED
  <2> DEFINE F == UNION {Fielded(n, f) : f \in {"hard", "soft", "child"}}
  <2>1. F = (Fielded(n, "hard") \cup Fielded(n, "soft")) \cup Fielded(n, "child")
    BY <1>7
  <2> HIDE DEF F
  <2>2. Edges(Dependencies(all, s)) = F \cup Phased(n)
    BY <1>8, <2>1
  <2>3. QED
    BY <2>2 DEF F

\* Who demands what.
LEMMA DemandMembers ==
  \A d : d \in Demands <=>
    \E n \in DOMAIN InForce, f \in {"hard", "soft", "child"} :
      \E i \in DOMAIN InForce[n][f] : \E o \in Meant(InForce[n][f][i]) : d = Demand(n, f, i, o)
<1> DEFINE N == DOMAIN InForce
           K == {"hard", "soft", "child"}
<1> DEFINE Of(n, f) ==
      UNION {{Demand(n, f, i, o) : o \in Meant(InForce[n][f][i])} : i \in DOMAIN InForce[n][f]}
<1>1. Demands = UNION {Of(n, f) : n \in N, f \in K}
  BY DEF Demands
<1>2. \A n, f : \A d : d \in Of(n, f) <=>
        \E i \in DOMAIN InForce[n][f] :
          \E o \in Meant(InForce[n][f][i]) : d = Demand(n, f, i, o)
  OBVIOUS
<1> HIDE DEF Of, N, K
<1>3. \A d : d \in Demands <=> \E n \in N, f \in K : d \in Of(n, f)
  BY <1>1
<1>4. QED
  BY <1>2, <1>3 DEF N, K

LEMMA PhaseMembers ==
  \A e : e \in PhaseDeps <=> \E n \in DOMAIN InForce : e \in Phased(n)
<1> DEFINE N == DOMAIN InForce
<1>1. \A n \in Within(Root) : n \in N /\ InForce[n].within = Root
  BY DEF Within
<1>2. \A n \in Within(Root) : \A m :
        Pair(n, "phase", m) = [tree |-> Root, parent |-> m, child |-> n]
  BY <1>1 DEF Pair
<1>3. \A e : e \in PhaseDeps <=>
        \E m \in Within(Root), n \in Within(Root) :
          InForce[m].phase < InForce[n].phase /\ e = [tree |-> Root, parent |-> m, child |-> n]
  <2> DEFINE W == Within(Root)
             P == {q \in W \X W : InForce[q[1]].phase < InForce[q[2]].phase}
             E(q) == [tree |-> Root, parent |-> q[1], child |-> q[2]]
  <2>1. PhaseDeps = {E(q) : q \in P}
    BY DEF PhaseDeps
  <2>2. \A m \in W, n \in W : /\ <<m, n>> \in P <=> InForce[m].phase < InForce[n].phase
                              /\ E(<<m, n>>) = [tree |-> Root, parent |-> m, child |-> n]
    <3> HIDE DEF W
    <3>1. QED
      OBVIOUS
  <2>3. \A q \in P : \E m \in W, n \in W : q = <<m, n>>
    <3> HIDE DEF W
    <3>1. QED
      OBVIOUS
  <2>4. \A e : e \in PhaseDeps <=> \E q \in P : e = E(q)
    <3> HIDE DEF P, E
    <3>1. QED
      BY <2>1
  <2> HIDE DEF W, P, E
  <2>5. \A e : e \in PhaseDeps <=> \E m \in W, n \in W : <<m, n>> \in P /\ e = E(<<m, n>>)
    <3>1. ASSUME NEW e \in PhaseDeps
          PROVE  \E m \in W, n \in W : <<m, n>> \in P /\ e = E(<<m, n>>)
      <4>1. PICK q \in P : e = E(q)
        BY <2>4
      <4>2. PICK m \in W, n \in W : q = <<m, n>>
        BY <2>3
      <4>3. QED
        BY <4>1, <4>2
    <3>2. \A m \in W, n \in W : <<m, n>> \in P => E(<<m, n>>) \in PhaseDeps
      BY <2>4
    <3>3. QED
      BY <3>1, <3>2
  <2>6. \A e : e \in PhaseDeps <=>
          \E m \in W, n \in W : /\ InForce[m].phase < InForce[n].phase
                                /\ e = [tree |-> Root, parent |-> m, child |-> n]
    <3>1. ASSUME NEW e \in PhaseDeps
          PROVE  \E m \in W, n \in W : /\ InForce[m].phase < InForce[n].phase
                                        /\ e = [tree |-> Root, parent |-> m, child |-> n]
      <4>1. PICK m \in W, n \in W : <<m, n>> \in P /\ e = E(<<m, n>>)
        BY <2>5
      <4>2. QED
        BY <2>2, <4>1
    <3>2. ASSUME NEW m \in W, NEW n \in W, InForce[m].phase < InForce[n].phase
          PROVE  [tree |-> Root, parent |-> m, child |-> n] \in PhaseDeps
      <4>1. <<m, n>> \in P /\ E(<<m, n>>) = [tree |-> Root, parent |-> m, child |-> n]
        BY <2>2, <3>2
      <4>2. QED
        BY <2>5, <4>1
    <3>3. QED
      BY <3>1, <3>2
  <2>7. QED
    BY <2>6 DEF W
<1>4. \A n, e : e \in Phased(n) <=>
        \E m \in Within(Root) : /\ n \in Within(Root) /\ InForce[m].phase < InForce[n].phase
                                /\ e = Pair(n, "phase", m)
  BY DEF Phased
<1> HIDE DEF N
<1>5. QED
  BY <1>1, <1>2, <1>3, <1>4 DEF N

\* The dependencies declared, by who declares them.
LEMMA DeclaredByScripts ==
  DeclaredDeps = UNION {(UNION {Fielded(n, f) : f \in {"hard", "soft", "child"}}) \cup Phased(n)
                        : n \in DOMAIN InForce}
<1> DEFINE N == DOMAIN InForce
           K == {"hard", "soft", "child"}
<1>1. \A n, f, i, o : Demand(n, f, i, o).dep = Pair(n, f, o)
  BY DEF Demand, Pair
<1>2. \A d : d \in Demands <=>
        \E n \in N, f \in K : \E i \in DOMAIN InForce[n][f] :
          \E o \in Meant(InForce[n][f][i]) : d = Demand(n, f, i, o)
  BY DemandMembers
<1>3. \A e : e \in {d.dep : d \in Demands} <=>
        \E n \in N, f \in K : \E i \in DOMAIN InForce[n][f] :
          \E o \in Meant(InForce[n][f][i]) : e = Pair(n, f, o)
  <2> HIDE DEF N, K
  <2>1. \A e : e \in {d.dep : d \in Demands} <=> \E d \in Demands : e = d.dep
    OBVIOUS
  <2>2. ASSUME NEW e, e \in {d.dep : d \in Demands}
        PROVE  \E n \in N, f \in K : \E i \in DOMAIN InForce[n][f] :
                 \E o \in Meant(InForce[n][f][i]) : e = Pair(n, f, o)
    <3>1. PICK d \in Demands : e = d.dep
      BY <2>1, <2>2
    <3>2. PICK n \in N, f \in K : \E i \in DOMAIN InForce[n][f] :
            \E o \in Meant(InForce[n][f][i]) : d = Demand(n, f, i, o)
      BY <1>2
    <3>3. PICK i \in DOMAIN InForce[n][f] :
            \E o \in Meant(InForce[n][f][i]) : d = Demand(n, f, i, o)
      BY <3>2
    <3>4. PICK o \in Meant(InForce[n][f][i]) : d = Demand(n, f, i, o)
      BY <3>3
    <3>5. e = Pair(n, f, o)
      BY <1>1, <3>1, <3>4
    <3>6. QED
      BY <3>5
  <2>3. ASSUME NEW n \in N, NEW f \in K, NEW i \in DOMAIN InForce[n][f],
               NEW o \in Meant(InForce[n][f][i])
        PROVE  Pair(n, f, o) \in {d.dep : d \in Demands}
    <3>1. Demand(n, f, i, o) \in Demands
      BY <1>2
    <3>2. QED
      BY <1>1, <2>1, <3>1
  <2>4. QED
    BY <2>2, <2>3
<1>4. \A n, f : \A e : e \in Fielded(n, f) <=>
        \E i \in DOMAIN InForce[n][f] : \E o \in Meant(InForce[n][f][i]) : e = Pair(n, f, o)
  BY DEF Fielded
<1>5. \A e : e \in PhaseDeps <=> \E n \in N : e \in Phased(n)
  BY PhaseMembers
<1> DEFINE D == {d.dep : d \in Demands}
           F(n) == UNION {Fielded(n, f) : f \in K}
<1>6. \A e : e \in DeclaredDeps <=> e \in D \/ e \in PhaseDeps
  BY DEF DeclaredDeps
<1>7. \A n, e : e \in F(n) <=> \E f \in K : e \in Fielded(n, f)
  <2> HIDE DEF K
  <2>1. QED
    OBVIOUS
<1>8. \A e : e \in D <=> \E n \in N, f \in K : e \in Fielded(n, f)
  <2>1. \A e : e \in D <=> \E n \in N, f \in K : \E i \in DOMAIN InForce[n][f] :
                             \E o \in Meant(InForce[n][f][i]) : e = Pair(n, f, o)
    BY <1>3
  <2> HIDE DEF N, K, D
  <2>2. QED
    BY <1>4, <2>1
<1>9. DeclaredDeps = UNION {F(n) \cup Phased(n) : n \in N}
  <2> HIDE DEF N, K, D, F
  <2>1. \A e : e \in DeclaredDeps <=> \E n \in N : e \in F(n) \/ e \in Phased(n)
    BY <1>5, <1>6, <1>7, <1>8
  <2>2. QED
    BY <2>1
<1>10. QED
  BY <1>9

\* Nothing declared is lost on the way: it has been added or is still to be.
DeclaredInv ==
  /\ step = "link" => ToSet(deps) \cup Edges(todo) = DeclaredDeps
  /\ GraphAsDeclared

LEMMA SameDeclared ==
  ASSUME release' = release, groups' = groups
  PROVE  /\ InForce' = InForce
         /\ Demands' = Demands /\ PhaseDeps' = PhaseDeps /\ DeclaredDeps' = DeclaredDeps
         /\ \A t : Within(t)' = Within(t)
<1>1. InForce' = InForce
  BY DEF InForce
<1>2. \A t : Within(t)' = Within(t)
  BY <1>1 DEF Within
<1>3. \A p : Meant(p)' = Meant(p)
  BY <1>1 DEF Meant
<1>4. \A n, f, i, o : Demand(n, f, i, o)' = Demand(n, f, i, o)
  BY <1>1 DEF Demand
<1>5. Demands' = Demands
  BY <1>1, <1>3, <1>4 DEF Demands
<1>6. PhaseDeps' = PhaseDeps
  BY <1>1, <1>2 DEF PhaseDeps
<1>7. QED
  BY <1>1, <1>2, <1>5, <1>6 DEF DeclaredDeps

\* The dependencies that complete scripts ask for are those declared.
LEMMA AllDeclared ==
  ASSUME ReleaseAssumption, NEW all \in Seq(ScriptSet), Complete(all)
  PROVE  Edges(FlattenSeq([i \in DOMAIN all |-> Dependencies(all, all[i])])) = DeclaredDeps
<1> DEFINE lists == [i \in DOMAIN all |-> Dependencies(all, all[i])]
           Of(n) == (UNION {Fielded(n, f) : f \in {"hard", "soft", "child"}}) \cup Phased(n)
<1>1. \A i \in DOMAIN all : all[i] \in ScriptSet /\ all[i] \in ToSet(all)
  BY DEF ToSet
<1>2. \A i \in DOMAIN all : lists[i] = Dependencies(all, all[i])
  OBVIOUS
<1>3. DOMAIN lists = DOMAIN all /\ lists = [i \in DOMAIN lists |-> lists[i]]
  OBVIOUS
<1>4. \A s \in ScriptSet : Dependencies(all, s) \in Seq(AskSet)
  <2> SUFFICES ASSUME NEW s \in ScriptSet
               PROVE  Dependencies(all, s) \in Seq(AskSet)
    OBVIOUS
  <2> DEFINE T == {q \in AskSet : q.tree = s.header.within /\ q.script = s.name}
  <2>1. Dependencies(all, s) \in Seq(T)
    BY DependenciesType
  <2>2. T \subseteq AskSet
    OBVIOUS
  <2>3. \A A, B : A \subseteq B => Seq(A) \subseteq Seq(B)
    OBVIOUS
  <2> HIDE DEF T
  <2>4. QED
    BY <2>1, <2>2, <2>3
<1> HIDE DEF lists
<1>5. lists \in Seq(Seq(AskSet))
  BY <1>1, <1>2, <1>3, <1>4, MapType
<1>6. ToSet(FlattenSeq(lists)) = UNION {ToSet(lists[i]) : i \in DOMAIN lists}
  BY <1>5, FlattenMembers
<1>7. \A e : e \in Edges(FlattenSeq(lists)) <=> \E i \in DOMAIN all : e \in Edges(lists[i])
  <2>1. \A e : e \in Edges(FlattenSeq(lists)) <=>
               \E q \in ToSet(FlattenSeq(lists)) : e = Edge(q)
    BY DEF Edges
  <2>2. \A q : q \in ToSet(FlattenSeq(lists)) <=> \E i \in DOMAIN all : q \in ToSet(lists[i])
    BY <1>3, <1>6
  <2>3. \A i : \A e : e \in Edges(lists[i]) <=> \E q \in ToSet(lists[i]) : e = Edge(q)
    BY DEF Edges
  <2>4. QED
    BY <2>1, <2>2, <2>3
<1>8. \A i \in DOMAIN all : Edges(lists[i]) = Of(all[i].name)
  BY <1>1, <1>2, DependenciesEdges
<1>9. DeclaredDeps = UNION {Of(n) : n \in DOMAIN InForce}
  BY DeclaredByScripts
<1> HIDE DEF Of
<1>10. \A e : e \in DeclaredDeps <=> \E n \in DOMAIN InForce : e \in Of(n)
  BY <1>9
<1>11. \A n : n \in DOMAIN InForce <=> \E i \in DOMAIN all : n = all[i].name
  BY <1>1 DEF Complete, ToSet
<1>12. \A e : e \in Edges(FlattenSeq(lists)) <=> e \in DeclaredDeps
  BY <1>7, <1>8, <1>10, <1>11
<1>13. Edges(FlattenSeq(lists)) = DeclaredDeps
  BY <1>12
<1>14. QED
  BY <1>13 DEF lists

LEMMA MakeJobsDeclared ==
  ASSUME ReleaseAssumption, ReadInv, LinkInv, ContentInv, MakeJobs
  PROVE  DeclaredInv'
<1>1. PICK all \in {AllScripts} :
        IF NoSuchTree(all) \/ JobDefinedTwice(all)
          THEN step' = "raised" /\ UNCHANGED <<jobs, todo>>
          ELSE /\ jobs' = {Job(s) : s \in ToSet(all)}
               /\ todo' = FlattenSeq([i \in DOMAIN all |-> Dependencies(all, all[i])])
               /\ step' = "link"
  BY DEF MakeJobs
<1>2. all \in Seq(ScriptSet) /\ Complete(all)
  BY <1>1, AllScriptsType, AllComplete DEF MakeJobs
<1>3. deps' = <<>> /\ release' = release /\ groups' = groups
  BY DEF LinkInv, MakeJobs
<1>4. CASE step' = "raised"
  BY <1>4 DEF DeclaredInv, GraphAsDeclared
<1>5. CASE /\ todo' = FlattenSeq([i \in DOMAIN all |-> Dependencies(all, all[i])])
           /\ step' = "link"
  <2> DEFINE asked == FlattenSeq([i \in DOMAIN all |-> Dependencies(all, all[i])])
  <2>1. Edges(asked) = DeclaredDeps
    BY <1>2, AllDeclared
  <2>2. todo' = asked
    BY <1>5
  <2> HIDE DEF asked
  <2>3. Edges(todo)' = Edges(asked)
    BY <2>2 DEF Edges, Edge
  <2>4. ToSet(deps)' = {}
    BY <1>3 DEF ToSet
  <2>5. DeclaredDeps' = DeclaredDeps
    BY <1>3, SameDeclared
  <2>6. ToSet(deps)' \cup Edges(todo)' = DeclaredDeps'
    BY <2>1, <2>3, <2>4, <2>5
  <2>7. QED
    BY <1>5, <2>6 DEF DeclaredInv, GraphAsDeclared
<1>6. QED
  BY <1>1, <1>4, <1>5

LEMMA LinkDeclared ==
  ASSUME ReleaseAssumption, LinkInv, DeclaredInv, Link
  PROVE  DeclaredInv'
<1> DEFINE q == Head(todo)
<1>1. /\ step = "link" /\ todo # <<>> /\ release' = release /\ groups' = groups
      /\ AddDep(q) \/ AddPlaceholder(q) \/ SkipDuplicate(q) \/ Refuse(q)
  BY DEF Link
<1>2. ToSet(todo) = {q} \cup ToSet(Tail(todo))
  BY <1>1, HeadAndTail DEF LinkInv
<1> HIDE DEF q
<1>3. Edges(todo) = {Edge(q)} \cup Edges(Tail(todo))
  BY <1>2 DEF Edges
<1>4. ToSet(deps) \cup Edges(todo) = DeclaredDeps
  BY <1>1 DEF DeclaredInv
<1>5. DeclaredDeps' = DeclaredDeps
  BY <1>1, SameDeclared
<1>6. ASSUME todo' = Tail(todo), step' = step, ToSet(deps)' = ToSet(deps) \cup {Edge(q)}
      PROVE  DeclaredInv'
  <2>1. Edges(todo)' = Edges(Tail(todo))
    BY <1>6 DEF Edges, Edge
  <2>2. ToSet(deps)' \cup Edges(todo)' = DeclaredDeps'
    BY <1>3, <1>4, <1>5, <1>6, <2>1
  <2>3. QED
    BY <1>1, <1>6, <2>2 DEF DeclaredInv, GraphAsDeclared
<1>7. ASSUME deps' = Append(deps, Edge(q))
      PROVE  ToSet(deps)' = ToSet(deps) \cup {Edge(q)}
  <2> DEFINE e == Edge(q)
  <2>1. deps \in Seq(DepSet)
    BY DEF LinkInv
  <2> HIDE DEF e
  <2>2. /\ Len(deps) \in Nat /\ DOMAIN deps = 1..Len(deps)
        /\ DOMAIN Append(deps, e) = 1..(Len(deps) + 1)
        /\ Append(deps, e)[Len(deps) + 1] = e
        /\ \A i \in 1..Len(deps) : Append(deps, e)[i] = deps[i]
    BY <2>1
  <2>3. ToSet(Append(deps, e)) = ToSet(deps) \cup {e}
    BY <2>2 DEF ToSet
  <2>4. QED
    BY <1>7, <2>3 DEF e, ToSet
<1>8. CASE AddDep(q)
  <2>1. deps' = Append(deps, Edge(q)) /\ todo' = Tail(todo) /\ step' = step
    BY <1>8 DEF AddDep
  <2>2. QED
    BY <1>6, <1>7, <2>1
<1>9. CASE AddPlaceholder(q)
  <2>1. deps' = Append(deps, Edge(q)) /\ todo' = Tail(todo) /\ step' = step
    BY <1>9 DEF AddPlaceholder
  <2>2. QED
    BY <1>6, <1>7, <2>1
<1>10. CASE SkipDuplicate(q)
  <2>1. todo' = Tail(todo) /\ step' = step /\ deps' = deps /\ Edge(q) \in ToSet(deps)
    BY <1>10 DEF SkipDuplicate, Duplicate
  <2>2. ToSet(deps)' = ToSet(deps) \cup {Edge(q)}
    BY <2>1 DEF ToSet
  <2>3. QED
    BY <1>6, <2>1, <2>2
<1>11. CASE Refuse(q)
  BY <1>11 DEF Refuse, DeclaredInv, GraphAsDeclared
<1>12. QED
  BY <1>1, <1>8, <1>9, <1>10, <1>11

LEMMA ValidateDeclared ==
  ASSUME DeclaredInv, Validate
  PROVE  DeclaredInv'
<1>1. /\ step = "link" /\ todo = <<>> /\ step' # "link"
      /\ release' = release /\ groups' = groups /\ deps' = deps
  BY DEF Validate
<1>2. Edges(todo) = {}
  BY <1>1 DEF Edges, ToSet
<1>3. ToSet(deps) = DeclaredDeps
  BY <1>1, <1>2 DEF DeclaredInv
<1>4. ToSet(deps)' = ToSet(deps)
  BY <1>1 DEF ToSet
<1>5. DeclaredDeps' = DeclaredDeps
  BY <1>1, SameDeclared
<1>6. QED
  BY <1>1, <1>3, <1>4, <1>5 DEF DeclaredInv, GraphAsDeclared

\* What has been read and what is declared do not change otherwise.
LEMMA StillDeclared ==
  ASSUME UNCHANGED vars, ContentInv, DeclaredInv
  PROVE  ContentInv' /\ DeclaredInv'
<1>1. /\ release' = release /\ groups' = groups /\ unread' = unread /\ scripts' = scripts
      /\ deps' = deps /\ todo' = todo /\ step' = step
  BY DEF vars
<1>2. ContentInv'
  <2>1. \A d : Files(d)' = Files(d)
    BY <1>1 DEF Files
  <2>2. \A d : Entries(d)' = Entries(d)
    BY <2>1 DEF Entries, Entry
  <2>3. \A g, b, o : Content(g, b, o)' = Content(g, b, o)
    BY <2>1, <2>2 DEF Content, Dir
  <2>4. \A g, b, o : Read(g, b, o)' = Read(g, b, o)
    BY <1>1, <2>3 DEF Read, Dir, ToSet
  <2>5. OverridesLast(unread)' = OverridesLast(unread)
    BY <1>1 DEF OverridesLast
  <2>6. QED
    BY <1>1, <2>4, <2>5 DEF ContentInv, ToSet
<1>3. ToSet(deps)' = ToSet(deps) /\ Edges(todo)' = Edges(todo)
  BY <1>1 DEF ToSet, Edges, Edge
<1>4. DeclaredDeps' = DeclaredDeps
  BY <1>1, SameDeclared
<1>5. DeclaredInv'
  BY <1>1, <1>3, <1>4 DEF DeclaredInv, GraphAsDeclared
<1>6. QED
  BY <1>2, <1>5

LEMMA DeclaredStep ==
  ASSUME ReleaseAssumption, ParserInv, ContentInv, DeclaredInv, [Next]_vars
  PROVE  ContentInv' /\ DeclaredInv'
<1>1. ReadInv /\ LinkInv
  BY DEF ParserInv
<1>2. CASE SelectGroups
  <2>1. step' \in {"raised", "read"}
    BY <1>2 DEF SelectGroups
  <2>2. QED
    BY <1>1, <1>2, <2>1, SelectContent DEF DeclaredInv, GraphAsDeclared
<1>3. CASE ReadDir
  <2>1. step' = "read"
    BY <1>3 DEF ReadDir
  <2>2. QED
    BY <1>1, <1>3, <2>1, ReadDirContent DEF DeclaredInv, GraphAsDeclared
<1>4. CASE MakeJobs
  <2>1. step' \in {"raised", "link"}
    BY <1>4 DEF MakeJobs
  <2>2. QED
    BY <1>1, <1>4, <2>1, MakeJobsDeclared DEF ContentInv
<1>5. CASE Link
  <2>1. step' \in {"raised", "link"}
    BY <1>5 DEF Link, AddDep, AddPlaceholder, SkipDuplicate, Refuse
  <2>2. QED
    BY <1>1, <1>5, <2>1, LinkDeclared DEF ContentInv
<1>6. CASE Validate
  <2>1. step' \in {"accepted", "rejected", "raised"}
    BY <1>6 DEF Validate
  <2>2. QED
    BY <1>6, <2>1, ValidateDeclared DEF ContentInv
<1>7. CASE UNCHANGED vars
  BY <1>7, StillDeclared
<1>8. QED
  BY <1>2, <1>3, <1>4, <1>5, <1>6, <1>7 DEF Next

\* When all dependencies have been added they are those the headers declare and the
\* phases imply, for every release and in whatever order its directories are listed.
\* Code: read_dirs, add_script, init_tree and add_dep.
THEOREM GraphDeclared == ParserSpec => []GraphAsDeclared
<1>1. ReleaseAssumption
  BY ReleaseAssumption
<1>2. Init => ContentInv /\ DeclaredInv
  BY DEF Init, ContentInv, DeclaredInv, GraphAsDeclared
<1>3. ParserInv /\ ContentInv /\ DeclaredInv /\ [Next]_vars => ContentInv' /\ DeclaredInv'
  BY <1>1, DeclaredStep
<1>4. DeclaredInv => GraphAsDeclared
  BY DEF DeclaredInv
<1>5. QED
  BY <1>2, <1>3, <1>4, ParserInvariant, PTL DEF ParserSpec

-----------------------------------------------------------------------------
(* What the searches find in a DAG.                                        *)

\* Nowhere does a walk down the children go on for ever.
Acyclic(t) == \A S \in SUBSET Patterns : S # {} => ~Walks(t, S)

\* Sets that become smaller until one of them is empty.
Descent(E, U) ==
  /\ E \in [Nat -> SUBSET U]
  /\ \A k \in Nat : E[k + 1] \subseteq E[k] /\ (E[k + 1] = E[k] => E[k] = {})

LEMMA DescentEnds ==
  ASSUME NEW U, IsFiniteSet(U), NEW E, Descent(E, U), NEW m \in Nat, Cardinality(U) <= m
  PROVE  E[m] = {}
<1>1. \A k \in Nat : E[k] \in SUBSET U
  BY DEF Descent
<1>2. \A k \in Nat : IsFiniteSet(E[k]) /\ Cardinality(E[k]) \in Nat
  BY <1>1, FS_Subset, FS_CardinalityType
<1>3. Cardinality(U) \in Nat
  BY FS_CardinalityType
<1> DEFINE Fine == {k \in Nat : E[k] # {} => Cardinality(E[k]) + k <= Cardinality(U)}
<1>4. 0 \in Fine
  <2>1. E[0] \in SUBSET U /\ Cardinality(E[0]) <= Cardinality(U)
    BY <1>1, FS_Subset
  <2>2. QED
    BY <1>2, <1>3, <2>1
<1>5. ASSUME NEW k \in Nat, k \in Fine
      PROVE  k + 1 \in Fine
  <2> SUFFICES ASSUME E[k + 1] # {}
               PROVE  Cardinality(E[k + 1]) + (k + 1) <= Cardinality(U)
    OBVIOUS
  <2>1. E[k + 1] \subseteq E[k] /\ E[k + 1] # E[k] /\ E[k] # {}
    BY DEF Descent
  <2>2. /\ Cardinality(E[k + 1]) <= Cardinality(E[k])
        /\ Cardinality(E[k]) # Cardinality(E[k + 1])
    BY <1>2, <2>1, FS_Subset
  <2>3. Cardinality(E[k]) + k <= Cardinality(U)
    BY <1>5, <2>1
  <2>4. Cardinality(E[k]) \in Nat /\ Cardinality(E[k + 1]) \in Nat
    BY <1>2
  <2>5. QED
    BY <1>3, <2>2, <2>3, <2>4
<1>6. Nat \subseteq Fine
  <2> HIDE DEF Fine
  <2>1. QED
    BY <1>4, <1>5, Induction
<1>7. ASSUME E[m] # {}
      PROVE  FALSE
  <2>1. Cardinality(E[m]) + m <= Cardinality(U)
    BY <1>6, <1>7
  <2>2. Cardinality(E[m]) = 0
    BY <1>2, <1>3, <2>1
  <2>3. QED
    BY <1>2, <1>7, <2>2, FS_EmptySet
<1>8. QED
  BY <1>7

\* In a DAG no walk up the parents goes on for ever either.
LEMMA DagClimbers ==
  ASSUME deps \in Seq(DepSet), IsFiniteSet(Patterns), NEW t, Acyclic(t),
         NEW S \in SUBSET Patterns, S # {}, Climbs(t, S)
  PROVE  FALSE
<1> DEFINE F == {T \in SUBSET Patterns : T # {} /\ Climbs(t, T)}
<1>1. F \subseteq SUBSET Patterns /\ F # {}
  OBVIOUS
<1>2. PICK T \in F : \A B \in F : B \subseteq T => B = T
  <2> HIDE DEF F
  <2>1. QED
    BY <1>1, SmallestSet
<1>3. T \in SUBSET Patterns /\ T # {} /\ Climbs(t, T)
  OBVIOUS
<1>4. PICK n \in T : Children(t, n) \cap T = {}
  BY <1>3 DEF Acyclic, Walks
<1>5. \A m \in T : n \notin ParentSet(t, m)
  BY <1>4, Relatives
<1>6. Climbs(t, T \ {n})
  BY <1>3, <1>5 DEF Climbs
<1>7. T \ {n} # {}
  <2>1. PICK p \in ParentSet(t, n) : p \in T
    BY <1>3 DEF Climbs
  <2>2. p # n
    BY <1>5, <2>1
  <2>3. QED
    BY <2>1, <2>2
<1>8. T \ {n} \in F
  BY <1>3, <1>6, <1>7
<1>9. QED
  BY <1>2, <1>8

\* The jobs from which a walk up the parents makes k steps.
Climbing(t, C) ==
  /\ C \in [Nat -> SUBSET Patterns]
  /\ C[0] = Patterns
  /\ \A k \in Nat : C[k + 1] = {n \in Patterns : \E p \in ParentSet(t, n) : p \in C[k]}

LEMMA ClimbsUnfold ==
  ASSUME NEW t, IsFiniteSet(jobs)
  PROVE  \E C : Climbing(t, C) /\ ClimbForever(t) = C[Cardinality(jobs) + 1]
<1> DEFINE X == SUBSET Patterns
           Up(A) == {n \in Patterns : \E p \in ParentSet(t, n) : p \in A}
           s == [k \in Nat |-> [A \in X |-> Up(A)]]
<1>1. Patterns \in X
  OBVIOUS
<1>2. s \in Steps(X)
  <2>1. \A A : Up(A) \in X
    OBVIOUS
  <2> HIDE DEF X, Up
  <2>2. QED
    BY <2>1 DEF Steps
<1>3. PICK C : Iteration(C, X, Patterns, s)
  <2> HIDE DEF s, X
  <2>1. QED
    BY <1>1, <1>2, Iterates
<1>4. C \in [Nat -> X] /\ C[0] = Patterns /\ \A k \in Nat : C[k + 1] = Up(C[k])
  <2>1. C \in [Nat -> X] /\ C[0] = Patterns /\ \A k \in Nat : C[k + 1] = s[k][C[k]]
    BY <1>3 DEF Iteration
  <2>2. \A k \in Nat : \A A \in X : s[k][A] = Up(A)
    <3> HIDE DEF X, Up
    <3>1. QED
      OBVIOUS
  <2>3. \A k \in Nat : C[k] \in X
    <3> HIDE DEF X, Up, s
    <3>1. QED
      BY <2>1
  <2> HIDE DEF X, Up, s
  <2>4. QED
    BY <2>1, <2>2, <2>3
<1> DEFINE Value(g, d) == IF d = 0 THEN Patterns ELSE Up(g[d - 1])
           Climb == CHOOSE g : g = [d \in Nat |-> Value(g, d)]
<1>5. ClimbForever(t) = Climb[Cardinality(jobs) + 1]
  BY DEF ClimbForever
<1> HIDE DEF Up
<1>6. ASSUME NEW d \in Nat
      PROVE  C[d] = Value(C, d)
  <2>1. d # 0 => d - 1 \in Nat /\ (d - 1) + 1 = d
    OBVIOUS
  <2>2. QED
    BY <1>4, <2>1
<1>7. C = [d \in Nat |-> Value(C, d)]
  <2> HIDE DEF Value
  <2>1. C = [d \in Nat |-> C[d]]
    BY <1>4
  <2>2. QED
    BY <1>6, <2>1
<1>8. Climb = [d \in Nat |-> Value(Climb, d)]
  <2> HIDE DEF Value
  <2>1. QED
    BY <1>7
<1> HIDE DEF Climb
<1> DEFINE Same == {d \in Nat : Climb[d] = C[d]}
<1>9. 0 \in Same
  BY <1>4, <1>8
<1>10. ASSUME NEW d \in Nat, d \in Same
       PROVE  d + 1 \in Same
  <2>1. d + 1 \in Nat /\ d + 1 # 0 /\ (d + 1) - 1 = d
    OBVIOUS
  <2>2. Climb[d + 1] = Up(Climb[d])
    BY <1>8, <2>1
  <2>3. QED
    BY <1>4, <1>10, <2>1, <2>2
<1>11. Nat \subseteq Same
  <2> HIDE DEF Same
  <2>1. QED
    BY <1>9, <1>10, Induction
<1>12. Cardinality(jobs) + 1 \in Nat
  BY FS_CardinalityType
<1>13. ClimbForever(t) = C[Cardinality(jobs) + 1]
  BY <1>5, <1>11, <1>12
<1>14. Climbing(t, C)
  BY <1>4 DEF Climbing, Up
<1>15. QED
  BY <1>13, <1>14

\* In a DAG a walk up the parents makes fewer steps than there are jobs.
LEMMA ClimbsEnd ==
  ASSUME deps \in Seq(DepSet), IsFiniteSet(Patterns), IsFiniteSet(jobs), ParserTypeOK,
         NEW t, Acyclic(t), NEW C, Climbing(t, C)
  PROVE  C[Cardinality(jobs) + 1] = {}
<1> DEFINE U == {j.name : j \in JobsIn(t)}
           E == [k \in Nat |-> C[k + 1]]
           Up(A) == {n \in Patterns : \E p \in ParentSet(t, n) : p \in A}
<1>1. /\ \A k \in Nat : C[k] \in SUBSET Patterns /\ C[k + 1] = Up(C[k])
      /\ C[0] = Patterns
  BY DEF Climbing
<1>2. \A n : ParentSet(t, n) # {} => n \in U
  BY DEF ParentSet, DepsIn, ParserTypeOK
<1>3. \A A : Up(A) \subseteq U
  BY <1>2
<1>4. \A A, B : A \subseteq B => Up(A) \subseteq Up(B)
  OBVIOUS
<1>5. \A A \in SUBSET Patterns : A # {} => Up(A) # A
  <2> SUFFICES ASSUME NEW A \in SUBSET Patterns, A # {}, Up(A) = A
               PROVE  FALSE
    OBVIOUS
  <2>1. Climbs(t, A)
    BY DEF Climbs
  <2>2. QED
    BY <2>1, DagClimbers
<1>6. Up(Patterns) \subseteq Patterns
  OBVIOUS
<1> HIDE DEF Up
<1> DEFINE Falls == {k \in Nat : C[k + 1] \subseteq C[k]}
<1>7. Nat \subseteq Falls
  <2>1. 0 \in Falls
    BY <1>1, <1>6
  <2>2. ASSUME NEW k \in Nat, k \in Falls
        PROVE  k + 1 \in Falls
    <3>1. k + 1 \in Nat /\ C[k + 1] \subseteq C[k]
      BY <2>2
    <3>2. C[(k + 1) + 1] = Up(C[k + 1]) /\ C[k + 1] = Up(C[k])
      BY <1>1, <3>1
    <3>3. QED
      BY <1>4, <3>1, <3>2
  <2> HIDE DEF Falls
  <2>3. QED
    BY <2>1, <2>2, Induction
<1>8. Descent(E, U)
  <2>1. \A k \in Nat : E[k] = C[k + 1] /\ E[k] \in SUBSET U
    <3> HIDE DEF U
    <3>1. QED
      BY <1>1, <1>3
  <2>2. E \in [Nat -> SUBSET U]
    <3>1. \A k \in Nat : C[k + 1] \in SUBSET U
      BY <1>1, <1>3
    <3> HIDE DEF U
    <3>2. QED
      BY <3>1
  <2>3. ASSUME NEW k \in Nat
        PROVE  E[k + 1] \subseteq E[k] /\ (E[k + 1] = E[k] => E[k] = {})
    <3>1. k + 1 \in Nat /\ C[(k + 1) + 1] \subseteq C[k + 1]
      BY <1>7
    <3>2. C[(k + 1) + 1] = Up(C[k + 1]) /\ C[k + 1] \in SUBSET Patterns
      BY <1>1, <3>1
    <3>3. E[k + 1] = C[(k + 1) + 1] /\ E[k] = C[k + 1]
      BY <2>1, <3>1
    <3> HIDE DEF E
    <3>4. QED
      BY <1>5, <3>1, <3>2, <3>3
  <2> HIDE DEF E, U
  <2>4. QED
    BY <2>2, <2>3 DEF Descent
<1>9. IsFiniteSet(U) /\ Cardinality(U) <= Cardinality(jobs)
  <2> DEFINE name == [j \in JobsIn(t) |-> j.name]
  <2>1. JobsIn(t) \in SUBSET jobs
    BY DEF JobsIn
  <2>2. IsFiniteSet(JobsIn(t)) /\ Cardinality(JobsIn(t)) <= Cardinality(jobs)
    BY <2>1, FS_Subset
  <2>3. name \in Surjection(JobsIn(t), U)
    BY DEF Surjection
  <2> HIDE DEF name, U
  <2>4. IsFiniteSet(U) /\ Cardinality(U) <= Cardinality(JobsIn(t))
    BY <2>2, <2>3, FS_Surjection
  <2>5. QED
    BY <2>2, <2>4, FS_CardinalityType
<1>10. Cardinality(jobs) \in Nat
  BY FS_CardinalityType
<1>11. E[Cardinality(jobs)] = {}
  <2> HIDE DEF E, U
  <2>1. QED
    BY <1>8, <1>9, <1>10, DescentEnds
<1>12. QED
  BY <1>10, <1>11

LEMMA DagNeverEndless ==
  ASSUME deps \in Seq(DepSet), IsFiniteSet(Patterns), IsFiniteSet(jobs), ParserTypeOK,
         \A j \in jobs : j.name \in Patterns, NEW t, Acyclic(t)
  PROVE  ClimbForever(t) = {} /\ ~Endless(t)
<1>1. PICK C : Climbing(t, C) /\ ClimbForever(t) = C[Cardinality(jobs) + 1]
  BY ClimbsUnfold
<1>2. C[Cardinality(jobs) + 1] = {}
  BY <1>1, ClimbsEnd
<1>3. PICK f \in [Nat -> Answers] :
        /\ \A m \in Patterns : f[0][m] = "endless"
        /\ \A k \in Nat : f[k + 1] = AskParents(t, f[k])
        /\ Cardinality(jobs) + 1 \in Nat
        /\ HasDefinedAncestors(t) = f[Cardinality(jobs) + 1]
  BY AnswersUnfold
<1> DEFINE Fine == {k \in Nat : \A n \in Patterns : f[k][n] = "endless" => n \in C[k]}
<1>4. 0 \in Fine
  BY <1>1 DEF Climbing
<1>5. ASSUME NEW k \in Nat, k \in Fine
      PROVE  k + 1 \in Fine
  <2> SUFFICES ASSUME NEW n \in Patterns, f[k + 1][n] = "endless"
               PROVE  n \in C[k + 1]
    OBVIOUS
  <2> DEFINE a == f[k]
             b == f[k + 1]
  <2>1. a \in Answers /\ b = AskParents(t, a) /\ b[n] = "endless"
    BY <1>3
  <2>2. \A p \in Patterns : a[p] = "endless" => p \in C[k]
    BY <1>5
  <2> HIDE DEF a, b
  <2>3. PICK p \in ParentSet(t, n) : Says(t, p, a) = "endless"
    BY <2>1, AskedParents
  <2>4. p \in Patterns /\ a[p] = "endless"
    BY <2>3, ParentDepsParents DEF Says
  <2>5. QED
    BY <1>1, <2>2, <2>3, <2>4 DEF Climbing
<1>6. Nat \subseteq Fine
  <2> HIDE DEF Fine
  <2>1. QED
    BY <1>4, <1>5, Induction
<1>7. \A n \in Patterns : HasDefinedAncestors(t)[n] # "endless"
  BY <1>2, <1>3, <1>6
<1>8. QED
  BY <1>1, <1>2, <1>7 DEF Endless, JobsIn

\* What is below a job: in every set that has its children and what they inherit.
Below(t, p) ==
  {n \in Patterns : \A S \in SUBSET Patterns : Inherits(t, S) /\ Children(t, p) \subseteq S => n \in S}

LEMMA BelowInherits ==
  ASSUME deps \in Seq(DepSet), NEW t, NEW p
  PROVE  /\ Children(t, p) \subseteq Below(t, p)
         /\ Inherits(t, Below(t, p))
         /\ \A n \in Below(t, p) : \/ n \in Children(t, p)
                                   \/ \E c \in Children(t, p) : n \in Below(t, c)
<1>1. \A n : Children(t, n) \subseteq Patterns
  BY Relatives
<1>2. Children(t, p) \subseteq Below(t, p)
  BY <1>1 DEF Below
<1>3. \A q : Inherits(t, Below(t, q))
  BY <1>1 DEF Below, Inherits
<1>4. ASSUME NEW n \in Below(t, p)
      PROVE  n \in Children(t, p) \/ \E c \in Children(t, p) : n \in Below(t, c)
  <2> DEFINE S == {m \in Patterns : \/ m \in Children(t, p)
                                    \/ \E c \in Children(t, p) : m \in Below(t, c)}
  <2>1. \A c : Children(t, c) \subseteq Below(t, c) /\ Below(t, c) \subseteq Patterns
    BY <1>1 DEF Below
  <2>2. ASSUME NEW m \in S, NEW c \in Children(t, m)
        PROVE  c \in S
    <3>1. CASE m \in Children(t, p)
      <4>1. c \in Below(t, m) /\ c \in Patterns
        BY <1>1, <2>1
      <4>2. QED
        BY <3>1, <4>1
    <3>2. ASSUME NEW b \in Children(t, p), m \in Below(t, b)
          PROVE  c \in S
      <4>1. c \in Below(t, b) /\ c \in Patterns
        BY <1>1, <1>3, <3>2 DEF Inherits
      <4>2. QED
        BY <4>1
    <3>3. QED
      BY <3>1, <3>2
  <2>3. Children(t, p) \subseteq S /\ S \in SUBSET Patterns
    BY <1>1
  <2> HIDE DEF S
  <2>4. Inherits(t, S)
    BY <2>2 DEF Inherits
  <2>5. n \in S
    BY <2>3, <2>4 DEF Below
  <2>6. QED
    BY <2>5 DEF S
<1>5. QED
  BY <1>2, <1>3, <1>4

\* In a DAG no job is below itself.
LEMMA NotBelowItself ==
  ASSUME deps \in Seq(DepSet), NEW t, Acyclic(t), NEW p, p \in Below(t, p)
  PROVE  FALSE
<1> DEFINE S == {m \in Below(t, p) : p \in Below(t, m)}
<1>1. S \in SUBSET Patterns /\ p \in S
  BY DEF Below
<1>2. ASSUME NEW m \in S
      PROVE  Children(t, m) \cap S # {}
  <2>1. PICK c \in Children(t, m) : c = p \/ p \in Below(t, c)
    BY BelowInherits
  <2>2. c \in Below(t, p)
    BY <2>1, BelowInherits DEF Inherits
  <2>3. c \in S
    BY <2>1, <2>2
  <2>4. QED
    BY <2>1, <2>3
<1> HIDE DEF S
<1>3. QED
  BY <1>1, <1>2 DEF Acyclic, Walks

\* In a DAG validate_nocycles meets no cycle.
LEMMA DagHasNoCycles ==
  ASSUME deps \in Seq(DepSet), NEW t, Acyclic(t), NEW stem \in Patterns
  PROVE  NoCycles(t, stem)
<1>1. \A n : Children(t, n) \subseteq Patterns
  BY Relatives
<1>2. PICK From : Search(t, From) /\ \A n : NoCycles(t, n) <=> n \in From[{}]
  BY <1>1, NoCyclesUnfolds
<1> DEFINE Bad == {n \in Patterns : \E path \in SUBSET Patterns :
                     n \notin From[path] /\ \A p \in path : n \in Below(t, p)}
<1>3. ASSUME NEW n \in Bad
      PROVE  Children(t, n) \cap Bad # {}
  <2>1. PICK path \in SUBSET Patterns : n \notin From[path] /\ \A p \in path : n \in Below(t, p)
    OBVIOUS
  <2>2. n \notin path
    BY <2>1, NotBelowItself
  <2>3. PICK c \in Children(t, n) : c \notin From[path \cup {n}]
    BY <1>2, <2>1, <2>2 DEF Search
  <2>4. \A p \in path \cup {n} : c \in Below(t, p)
    <3>1. c \in Below(t, n)
      BY <2>3, BelowInherits
    <3>2. \A p \in path : c \in Below(t, p)
      BY <2>1, <2>3, BelowInherits DEF Inherits
    <3>3. QED
      BY <3>1, <3>2
  <2>5. c \in Patterns /\ path \cup {n} \in SUBSET Patterns
    BY <1>1, <2>3
  <2>6. c \in Bad
    BY <2>3, <2>4, <2>5
  <2>7. QED
    BY <2>3, <2>6
<1>4. Bad \in SUBSET Patterns
  OBVIOUS
<1>5. stem \notin From[{}] => stem \in Bad
  OBVIOUS
<1> HIDE DEF Bad
<1>6. Bad = {}
  BY <1>3, <1>4 DEF Acyclic, Walks
<1>7. QED
  BY <1>2, <1>5, <1>6

\* In a DAG it visits all that is reached.
LEMMA DagVisited ==
  ASSUME deps \in Seq(DepSet), NEW t, Acyclic(t), NEW stem \in Patterns
  PROVE  stem \in Visited(t)[stem] /\ Inherits(t, Visited(t)[stem])
<1>1. \A n : Children(t, n) \subseteq Patterns
  BY Relatives
<1> DEFINE V(n) == Visited(t)[n]
<1>2. \A n \in Patterns : V(n) = {n} \cup UNION {V(c) : c \in Children(t, n)}
  BY <1>1, VisitedUnfolds
<1> HIDE DEF V
<1>3. \A n \in Patterns : n \in V(n) /\ \A c \in Children(t, n) : V(c) \subseteq V(n)
  BY <1>2
<1>4. \A n \in Patterns : \A m \in V(n) : m = n \/ \E c \in Children(t, n) : m \in V(c)
  BY <1>2
<1> DEFINE Bad == {n \in Patterns : \E m \in V(n) : ~(Children(t, m) \subseteq V(n))}
<1>5. ASSUME NEW n \in Bad
      PROVE  Children(t, n) \cap Bad # {}
  <2>1. PICK m \in V(n) : ~(Children(t, m) \subseteq V(n))
    OBVIOUS
  <2>2. PICK d \in Children(t, m) : d \notin V(n)
    BY <2>1
  <2>3. m # n
    BY <1>1, <1>3, <2>2
  <2>4. PICK c \in Children(t, n) : m \in V(c)
    BY <1>4, <2>3
  <2>5. d \notin V(c) /\ c \in Patterns
    BY <1>1, <1>3, <2>2
  <2>6. c \in Bad
    BY <2>2, <2>4, <2>5
  <2>7. QED
    BY <2>4, <2>6
<1>6. Bad \in SUBSET Patterns
  OBVIOUS
<1>7. stem \notin Bad => \A m \in V(stem) : Children(t, m) \subseteq V(stem)
  OBVIOUS
<1> HIDE DEF Bad
<1>8. Bad = {}
  BY <1>5, <1>6 DEF Acyclic, Walks
<1>9. QED
  BY <1>3, <1>7, <1>8 DEF Inherits, V

\* entry is an entry of a tree: all that is defined descends from it.
Entrance(t, entry) ==
  /\ entry \in DefinedIn(t)
  /\ \A S \in SUBSET Patterns : Inherits(t, S) /\ entry \in S => DefinedIn(t) \subseteq S

\* What has_defined_anscestors answers: a yes is below a defined job, and neither the
\* parents of a no nor theirs are defined.
LEMMA AnswersRight ==
  ASSUME deps \in Seq(DepSet), IsFiniteSet(jobs), NEW t
  PROVE  /\ \A V \in SUBSET Patterns :
              Inherits(t, V) /\ (\A d \in DefinedIn(t) : Children(t, d) \subseteq V) =>
                \A n \in Patterns : HasDefinedAncestors(t)[n] = "yes" => n \in V
         /\ \E N \in SUBSET Patterns :
              /\ \A n \in N : ParentSet(t, n) \subseteq N \ DefinedIn(t)
              /\ \A n \in Patterns : HasDefinedAncestors(t)[n] = "no" => n \in N
         /\ \A n \in Patterns : HasDefinedAncestors(t)[n] \in {"yes", "no", "endless"}
<1>1. PICK f \in [Nat -> Answers] :
        /\ \A m \in Patterns : f[0][m] = "endless"
        /\ \A k \in Nat : f[k + 1] = AskParents(t, f[k])
        /\ Cardinality(jobs) + 1 \in Nat
        /\ HasDefinedAncestors(t) = f[Cardinality(jobs) + 1]
  BY AnswersUnfold
<1>2. ASSUME NEW k \in Nat, NEW n \in Patterns
      PROVE  /\ f[k + 1][n] = "no" => \A p \in ParentSet(t, n) : Says(t, p, f[k]) = "no"
             /\ f[k + 1][n] = "yes" => \E p \in ParentSet(t, n) : Says(t, p, f[k]) = "yes"
  <2> DEFINE a == f[k]
             b == f[k + 1]
  <2>1. a \in Answers /\ b = AskParents(t, a)
    BY <1>1
  <2> HIDE DEF a, b
  <2>2. IF \A p \in ParentSet(t, n) : Says(t, p, a) = "no" THEN b[n] = "no"
        ELSE \E p \in ParentSet(t, n) : b[n] = Says(t, p, a) /\ Says(t, p, a) # "no"
    BY <2>1, AskedParents
  <2>3. QED
    BY <2>2 DEF a, b
<1>3. \A n : ParentSet(t, n) \subseteq Patterns
  BY ParentDepsParents
<1>4. ASSUME NEW V \in SUBSET Patterns, Inherits(t, V),
             \A d \in DefinedIn(t) : Children(t, d) \subseteq V
      PROVE  \A n \in Patterns : HasDefinedAncestors(t)[n] = "yes" => n \in V
  <2> DEFINE Fine == {k \in Nat : \A n \in Patterns : f[k][n] = "yes" => n \in V}
  <2>1. 0 \in Fine
    BY <1>1
  <2>2. ASSUME NEW k \in Nat, k \in Fine
        PROVE  k + 1 \in Fine
    <3> SUFFICES ASSUME NEW n \in Patterns, f[k + 1][n] = "yes"
                 PROVE  n \in V
      OBVIOUS
    <3>1. PICK p \in ParentSet(t, n) : Says(t, p, f[k]) = "yes"
      BY <1>2
    <3>2. p \in Patterns /\ n \in Children(t, p)
      BY <1>3, <3>1, Relatives
    <3>3. CASE p \in DefinedIn(t)
      BY <1>4, <3>2, <3>3
    <3>4. CASE p \notin DefinedIn(t)
      <4>1. f[k][p] = "yes"
        BY <3>1, <3>4 DEF Says
      <4>2. p \in V
        BY <2>2, <3>2, <4>1
      <4>3. QED
        BY <1>4, <3>2, <4>2 DEF Inherits
    <3>5. QED
      BY <3>3, <3>4
  <2>3. Nat \subseteq Fine
    <3> HIDE DEF Fine
    <3>1. QED
      BY <2>1, <2>2, Induction
  <2>4. QED
    BY <1>1, <2>3
<1>5. \E N \in SUBSET Patterns :
        /\ \A n \in N : ParentSet(t, n) \subseteq N \ DefinedIn(t)
        /\ \A n \in Patterns : HasDefinedAncestors(t)[n] = "no" => n \in N
  <2> DEFINE N == {n \in Patterns : \E k \in Nat : f[k][n] = "no"}
  <2>1. ASSUME NEW n \in N, NEW p \in ParentSet(t, n)
        PROVE  p \in N \ DefinedIn(t)
    <3>1. PICK k \in Nat : f[k][n] = "no"
      OBVIOUS
    <3>2. k # 0
      BY <1>1, <3>1
    <3>3. k - 1 \in Nat /\ (k - 1) + 1 = k
      BY <3>2
    <3>4. Says(t, p, f[k - 1]) = "no"
      BY <1>2, <3>1, <3>3
    <3>5. p \notin DefinedIn(t) /\ f[k - 1][p] = "no"
      BY <3>4 DEF Says
    <3>6. QED
      BY <1>3, <3>3, <3>5
  <2>2. \A n \in Patterns : HasDefinedAncestors(t)[n] = "no" => n \in N
    BY <1>1
  <2>3. N \in SUBSET Patterns
    OBVIOUS
  <2> HIDE DEF N
  <2>4. QED
    BY <2>1, <2>2, <2>3
<1>6. \A n \in Patterns : HasDefinedAncestors(t)[n] \in {"yes", "no", "endless"}
  <2>1. f[Cardinality(jobs) + 1] \in Answers
    BY <1>1
  <2>2. QED
    BY <1>1, <2>1 DEF Answers
<1>7. QED
  BY <1>4, <1>5, <1>6

\* A DAG with one entry has it as its only stem.
LEMMA DagStem ==
  ASSUME deps \in Seq(DepSet), IsFiniteSet(Patterns), IsFiniteSet(jobs), ParserTypeOK,
         \A j \in jobs : j.name \in Patterns,
         NEW t, Acyclic(t), NEW entry, Entrance(t, entry)
  PROVE  Stems(t) = {entry}
<1>1. DefinedIn(t) \subseteq {j.name : j \in JobsIn(t)} /\ DefinedIn(t) \subseteq Patterns
  BY DEF DefinedIn, JobsIn
<1>2. entry \in DefinedIn(t) /\ entry \in Patterns
  BY <1>1 DEF Entrance
<1>3. \A n : /\ Children(t, n) \subseteq Patterns
             /\ \A c : c \in Children(t, n) <=> n \in ParentSet(t, c)
  BY Relatives
<1>4. HasDefinedAncestors(t)[entry] # "yes"
  <2> DEFINE W == {S \in SUBSET Patterns :
                     Inherits(t, S) /\ \A d \in DefinedIn(t) : Children(t, d) \subseteq S}
             V == {n \in Patterns : \A S \in W : n \in S}
  <2>1. \A d \in DefinedIn(t) : Children(t, d) \subseteq V
    BY <1>3
  <2>2. ASSUME NEW n \in V, NEW c \in Children(t, n)
        PROVE  c \in V
    BY <1>3 DEF Inherits
  <2>3. V \in SUBSET Patterns
    OBVIOUS
  <2>4. \A S \in SUBSET Patterns :
          Inherits(t, S) /\ (\A d \in DefinedIn(t) : Children(t, d) \subseteq S) => V \subseteq S
    OBVIOUS
  <2> HIDE DEF V
  <2>5. Inherits(t, V)
    BY <2>2 DEF Inherits
  <2> SUFFICES ASSUME HasDefinedAncestors(t)[entry] = "yes"
               PROVE  FALSE
    OBVIOUS
  <2>6. entry \in V
    BY <1>2, <2>1, <2>3, <2>5, AnswersRight
  <2>7. DefinedIn(t) \subseteq V
    BY <2>3, <2>5, <2>6 DEF Entrance
  <2>8. ASSUME NEW n \in V, ParentSet(t, n) \cap V = {}
        PROVE  FALSE
    <3>1. \A m \in V : n \notin Children(t, m)
      BY <1>3, <2>8
    <3>2. Inherits(t, V \ {n})
      BY <2>5, <3>1 DEF Inherits
    <3>3. \A d \in DefinedIn(t) : Children(t, d) \subseteq V \ {n}
      BY <2>1, <2>7, <3>1
    <3>4. V \ {n} \in SUBSET Patterns
      BY <2>3
    <3>5. V \subseteq V \ {n}
      BY <2>4, <3>2, <3>3, <3>4
    <3>6. QED
      BY <3>5
  <2>9. Climbs(t, V)
    BY <2>8 DEF Climbs
  <2>10. QED
    BY <2>3, <2>6, <2>9, DagClimbers
<1>5. HasDefinedAncestors(t)[entry] # "endless"
  <2>1. PICK j \in JobsIn(t) : j.name = entry
    BY <1>1, <1>2
  <2>2. QED
    BY <2>1, DagNeverEndless DEF Endless
<1>6. entry \in Stems(t)
  BY <1>2, <1>4, <1>5, AnswersRight DEF Stems
<1>7. ASSUME NEW n \in Stems(t)
      PROVE  n = entry
  <2>1. PICK N \in SUBSET Patterns :
          /\ \A m \in N : ParentSet(t, m) \subseteq N \ DefinedIn(t)
          /\ \A m \in Patterns : HasDefinedAncestors(t)[m] = "no" => m \in N
    BY AnswersRight
  <2>2. n \in DefinedIn(t) /\ n \in N
    BY <1>1, <2>1 DEF Stems
  <2> DEFINE S == (Patterns \ N) \cup {entry}
  <2>3. ASSUME NEW m \in S, NEW c \in Children(t, m)
        PROVE  c \in S
    <3>1. c \in Patterns /\ m \in ParentSet(t, c)
      BY <1>3
    <3>2. c \notin N
      BY <1>2, <2>1, <3>1
    <3>3. QED
      BY <3>1, <3>2
  <2>4. S \in SUBSET Patterns /\ entry \in S
    BY <1>2
  <2>5. n \in S => n = entry
    BY <2>2
  <2> HIDE DEF S
  <2>6. Inherits(t, S)
    BY <2>3 DEF Inherits
  <2>7. n \in S
    BY <2>2, <2>4, <2>6 DEF Entrance
  <2>8. QED
    BY <2>5, <2>7
<1>8. QED
  BY <1>6, <1>7

\* What validate wants of a tree's dependencies, a DAG with one entry has.
LEMMA DagConnected ==
  ASSUME deps \in Seq(DepSet), IsFiniteSet(Patterns), IsFiniteSet(jobs), ParserTypeOK,
         \A j \in jobs : j.name \in Patterns,
         NEW t, Acyclic(t), NEW entry, Entrance(t, entry)
  PROVE  Cardinality(Stems(t)) = 1 /\ \A stem \in Stems(t) : Connected(t, stem)
<1>1. Stems(t) = {entry}
  BY DagStem
<1>2. entry \in Patterns
  BY DEF Entrance, DefinedIn, JobsIn
<1>3. NoCycles(t, entry)
  BY <1>2, DagHasNoCycles
<1> DEFINE V == Visited(t)[entry]
<1>4. entry \in V /\ Inherits(t, V)
  BY <1>2, DagVisited
<1> HIDE DEF V
<1>5. \A n : Children(t, n) \subseteq Patterns
  BY Relatives
<1>6. Inherits(t, V \cap Patterns) /\ V \cap Patterns \in SUBSET Patterns
  BY <1>4, <1>5 DEF Inherits
<1>7. DefinedIn(t) \subseteq V
  BY <1>2, <1>4, <1>6 DEF Entrance
<1>8. Connected(t, entry)
  BY <1>3, <1>7 DEF Connected, V
<1>9. QED
  BY <1>1, <1>8, FS_Singleton

-----------------------------------------------------------------------------
(* Sequences whose members are related to those before them.               *)

Apart(seq, R) == \A i, k \in DOMAIN seq : i < k => <<seq[i], seq[k]>> \in R

LEMMA ApartConcat ==
  ASSUME NEW S, NEW a \in Seq(S), NEW b \in Seq(S), NEW R, Apart(a, R), Apart(b, R),
         \A x \in ToSet(a), y \in ToSet(b) : <<x, y>> \in R
  PROVE  Apart(a \o b, R)
<1> DEFINE c == a \o b
           m == Len(a)
<1>1. /\ m \in Nat /\ Len(b) \in Nat
      /\ DOMAIN a = 1..m /\ DOMAIN b = 1..Len(b) /\ DOMAIN c = 1..(m + Len(b))
      /\ \A i \in 1..m : c[i] = a[i]
      /\ \A i \in (m + 1)..(m + Len(b)) : c[i] = b[i - m]
  OBVIOUS
<1> HIDE DEF c, m
<1>2. ASSUME NEW i \in DOMAIN c, NEW k \in DOMAIN c, i < k
      PROVE  <<c[i], c[k]>> \in R
  <2>1. CASE k <= m
    <3>1. i \in DOMAIN a /\ k \in DOMAIN a /\ c[i] = a[i] /\ c[k] = a[k]
      BY <1>1, <1>2, <2>1
    <3>2. QED
      BY <1>2, <3>1 DEF Apart
  <2>2. CASE i > m
    <3>1. /\ i - m \in DOMAIN b /\ k - m \in DOMAIN b /\ i - m < k - m
          /\ c[i] = b[i - m] /\ c[k] = b[k - m]
      BY <1>1, <1>2, <2>2
    <3>2. QED
      BY <3>1 DEF Apart
  <2>3. CASE i <= m /\ k > m
    <3>1. /\ i \in DOMAIN a /\ c[i] = a[i] /\ k - m \in DOMAIN b /\ c[k] = b[k - m]
      BY <1>1, <1>2, <2>3
    <3>2. c[i] \in ToSet(a) /\ c[k] \in ToSet(b)
      BY <3>1 DEF ToSet
    <3>3. QED
      BY <3>2
  <2>4. QED
    BY <1>1, <1>2, <2>1, <2>2, <2>3
<1>3. QED
  BY <1>2 DEF Apart, c

LEMMA ApartFlatten ==
  ASSUME NEW S, NEW seqs \in Seq(Seq(S)), NEW R,
         \A i \in DOMAIN seqs : Apart(seqs[i], R),
         \A i, k \in DOMAIN seqs : i < k =>
           \A x \in ToSet(seqs[i]), y \in ToSet(seqs[k]) : <<x, y>> \in R
  PROVE  Apart(FlattenSeq(seqs), R)
<1> DEFINE n == Len(seqs)
<1>1. PICK f \in [Nat -> Seq(S)] :
        /\ f[0] = <<>>
        /\ \A i \in 1..n : f[i] = f[i - 1] \o seqs[i]
        /\ FlattenSeq(seqs) = f[n]
  BY FlattenUnfolds
<1>2. n \in Nat /\ DOMAIN seqs = 1..n /\ \A i \in 1..n : seqs[i] \in Seq(S)
  OBVIOUS
<1> HIDE DEF n
<1> DEFINE Fine == {i \in Nat : i <= n =>
                      /\ Apart(f[i], R)
                      /\ \A x \in ToSet(f[i]) : \E k \in 1..i : x \in ToSet(seqs[k])}
<1>3. 0 \in Fine
  BY <1>1 DEF Apart, ToSet
<1>4. ASSUME NEW i \in Nat, i \in Fine
      PROVE  i + 1 \in Fine
  <2> SUFFICES ASSUME i + 1 <= n
               PROVE  /\ Apart(f[i + 1], R)
                      /\ \A x \in ToSet(f[i + 1]) : \E k \in 1..(i + 1) : x \in ToSet(seqs[k])
    OBVIOUS
  <2> DEFINE a == f[i]
             b == seqs[i + 1]
  <2>1. i <= n /\ i + 1 \in 1..n /\ (i + 1) - 1 = i /\ \A k \in 1..i : k \in 1..n /\ k < i + 1
    BY <1>2
  <2>2. f[i + 1] = a \o b /\ a \in Seq(S) /\ b \in Seq(S)
    BY <1>1, <1>2, <2>1
  <2>3. Apart(a, R) /\ \A x \in ToSet(a) : \E k \in 1..i : x \in ToSet(seqs[k])
    BY <1>4, <2>1
  <2>4. Apart(b, R)
    BY <1>2, <2>1
  <2>5. \A x \in ToSet(a), y \in ToSet(b) : <<x, y>> \in R
    BY <1>2, <2>1, <2>3
  <2>6. \A x \in ToSet(b) : \E k \in 1..(i + 1) : x \in ToSet(seqs[k])
    BY <2>1
  <2> HIDE DEF a, b
  <2>7. Apart(a \o b, R) /\ ToSet(a \o b) = ToSet(a) \cup ToSet(b)
    BY <2>2, <2>3, <2>4, <2>5, ApartConcat, ConcatMembers
  <2>8. \A k \in 1..i : k \in 1..(i + 1)
    OBVIOUS
  <2>9. QED
    BY <2>2, <2>3, <2>6, <2>7, <2>8
<1>5. Nat \subseteq Fine
  <2> HIDE DEF Fine
  <2>1. QED
    BY <1>3, <1>4, Induction
<1>6. QED
  BY <1>1, <1>2, <1>5

LEMMA ApartAmong ==
  ASSUME NEW S, NEW seq \in Seq(S), NEW set, NEW R, Apart(seq, R)
  PROVE  Apart(Among(seq, set), R)
<1> DEFINE parts == [i \in DOMAIN seq |-> IF seq[i] \in set THEN <<seq[i]>> ELSE <<>>]
<1>1. \A i \in DOMAIN seq : seq[i] \in S
  OBVIOUS
<1>2. \A i \in DOMAIN seq : parts[i] = IF seq[i] \in set THEN <<seq[i]>> ELSE <<>>
  OBVIOUS
<1>3. DOMAIN parts = DOMAIN seq /\ parts = [i \in DOMAIN parts |-> parts[i]]
  OBVIOUS
<1> HIDE DEF parts
<1>4. \A x : ToSet(<<x>>) = {x} /\ Apart(<<x>>, R)
  BY DEF ToSet, Apart
<1>5. ToSet(<<>>) = {} /\ Apart(<<>>, R)
  BY DEF ToSet, Apart
<1>6. ASSUME NEW i \in DOMAIN seq
      PROVE  parts[i] \in Seq(S) /\ Apart(parts[i], R) /\ ToSet(parts[i]) \subseteq {seq[i]}
  <2>1. <<seq[i]>> \in Seq(S) /\ <<>> \in Seq(S)
    BY <1>1
  <2>2. QED
    BY <1>2, <1>4, <1>5, <2>1
<1>7. parts \in Seq(Seq(S))
  BY <1>3, <1>6, MapType
<1>8. ASSUME NEW i \in DOMAIN parts, NEW k \in DOMAIN parts, i < k,
             NEW x \in ToSet(parts[i]), NEW y \in ToSet(parts[k])
      PROVE  <<x, y>> \in R
  <2>1. i \in DOMAIN seq /\ k \in DOMAIN seq /\ x = seq[i] /\ y = seq[k]
    BY <1>3, <1>6
  <2>2. QED
    BY <1>8, <2>1 DEF Apart
<1>9. Apart(FlattenSeq(parts), R)
  BY <1>3, <1>6, <1>7, <1>8, ApartFlatten
<1>10. QED
  BY <1>9 DEF Among, parts

\* The members of a sequence after its first.
LEMMA ApartTail ==
  ASSUME NEW S, NEW seq \in Seq(S), seq # <<>>, NEW R, Apart(seq, R)
  PROVE  /\ Apart(Tail(seq), R)
         /\ \A x \in ToSet(Tail(seq)) : <<Head(seq), x>> \in R
<1> DEFINE tl == Tail(seq)
           n == Len(seq)
<1>1. /\ n \in Nat /\ n # 0 /\ DOMAIN seq = 1..n /\ Head(seq) = seq[1]
      /\ DOMAIN tl = 1..(n - 1) /\ \A i \in 1..(n - 1) : tl[i] = seq[i + 1]
  OBVIOUS
<1> HIDE DEF tl, n
<1>2. \A i \in DOMAIN tl : i + 1 \in DOMAIN seq /\ 1 \in DOMAIN seq /\ 1 < i + 1 /\ i \in Nat
  BY <1>1
<1>3. Apart(tl, R)
  BY <1>1, <1>2 DEF Apart
<1>4. \A i \in DOMAIN tl : <<Head(seq), tl[i]>> \in R
  BY <1>1, <1>2 DEF Apart
<1>5. QED
  BY <1>3, <1>4 DEF tl, ToSet

-----------------------------------------------------------------------------
(* Nothing is read twice.                                                  *)

Different(D) == {p \in D \X D : p[1] # p[2]}
DirSet == [group : Groups, override : BOOLEAN]
OtherNames == {p \in ScriptSet \X ScriptSet : p[1].name # p[2].name}

ReadOnce ==
  /\ step = "select" => groups = <<>>
  /\ step = "read" =>
       /\ Apart(groups, Different(Groups))
       /\ Apart(unread, Different(DirSet))
       /\ \A d \in ToSet(unread) : ~d.override => scripts[d.group] = <<>>
       /\ \A g \in Groups : Apart(scripts[g], OtherNames)

\* The chosen groups have different names, as the configuration's have.
LEMMA ChosenApart ==
  ASSUME ReleaseAssumption, NEW r \in Releases,
         NEW chosen, chosen = Chosen(r.install, r.named),
         NEW names, names = [i \in DOMAIN chosen |-> chosen[i].name]
  PROVE  Apart(names, Different(Groups))
<1> DEFINE S == GroupElements(Groups)
           R == {p \in S \X S : p[1].name # p[2].name}
           wanted == {g \in ToSet(r.install) : ToInstall(g, r.named)}
<1>1. r.install \in Seq(S) /\ \A i, k \in DOMAIN r.install : r.install[i].name = r.install[k].name => i = k
  BY DEF ReleaseAssumption
<1>2. \A i \in DOMAIN r.install : i \in Nat /\ r.install[i] \in S
  BY <1>1
<1>3. \A g \in S : g.name \in Groups
  BY DEF GroupElements
<1> HIDE DEF S
<1>4. Apart(r.install, R)
  BY <1>1, <1>2 DEF Apart
<1> HIDE DEF R, wanted
<1>5. Apart(Among(r.install, wanted), R)
  BY <1>1, <1>4, ApartAmong
<1>6. chosen = Among(r.install, wanted)
  BY DEF Chosen, wanted
<1>7. DOMAIN names = DOMAIN chosen /\ \A i \in DOMAIN chosen : names[i] = chosen[i].name
  OBVIOUS
<1>8. ASSUME NEW i \in DOMAIN names, NEW k \in DOMAIN names, i < k
      PROVE  <<names[i], names[k]>> \in Different(Groups)
  <2>1. <<chosen[i], chosen[k]>> \in R
    BY <1>5, <1>6, <1>7, <1>8 DEF Apart
  <2>2. chosen[i] \in S /\ chosen[k] \in S /\ chosen[i].name # chosen[k].name
    BY <2>1 DEF R
  <2>3. QED
    BY <1>3, <1>7, <2>2 DEF Different
<1>9. QED
  BY <1>8 DEF Apart

LEMMA DirectoriesApart ==
  ASSUME NEW selected \in Seq(Groups), Apart(selected, Different(Groups))
  PROVE  Apart(Directories(selected, FALSE) \o Directories(selected, TRUE), Different(DirSet))
<1> DEFINE D(o) == Directories(selected, o)
<1>1. \A o \in BOOLEAN : D(o) \in Seq(DirSet)
  BY DirectoriesType DEF DirSet
<1>2. \A o : /\ DOMAIN D(o) = 1..Len(selected)
             /\ \A i \in 1..Len(selected) : D(o)[i] = Dir(selected[i], o)
             /\ ToSet(D(o)) = {Dir(g, o) : g \in ToSet(selected)}
  BY DirectoriesMembers
<1>3. DOMAIN selected = 1..Len(selected)
  OBVIOUS
<1>4. \A g, h, o, p : Dir(g, o) = Dir(h, p) => g = h /\ o = p
  BY DEF Dir
<1> HIDE DEF D
<1>5. ASSUME NEW o \in BOOLEAN
      PROVE  Apart(D(o), Different(DirSet))
  <2>1. ASSUME NEW i \in DOMAIN D(o), NEW k \in DOMAIN D(o), i < k
        PROVE  <<D(o)[i], D(o)[k]>> \in Different(DirSet)
    <3>1. i \in DOMAIN selected /\ k \in DOMAIN selected
      BY <1>2, <1>3
    <3>2. selected[i] # selected[k]
      BY <2>1, <3>1 DEF Apart, Different
    <3>3. D(o)[i] = Dir(selected[i], o) /\ D(o)[k] = Dir(selected[k], o)
      BY <1>2, <1>3, <3>1
    <3>4. D(o)[i] # D(o)[k]
      BY <1>4, <3>2, <3>3
    <3>5. D(o)[i] \in DirSet /\ D(o)[k] \in DirSet
      BY <1>1
    <3>6. QED
      BY <3>4, <3>5 DEF Different
  <2>2. QED
    BY <2>1 DEF Apart
<1>6. ASSUME NEW x \in ToSet(D(FALSE)), NEW y \in ToSet(D(TRUE))
      PROVE  <<x, y>> \in Different(DirSet)
  <2>1. x \in DirSet /\ y \in DirSet
    <3>1. \A s \in Seq(DirSet) : \A e \in ToSet(s) : e \in DirSet
      BY DEF ToSet
    <3>2. FALSE \in BOOLEAN /\ TRUE \in BOOLEAN
      OBVIOUS
    <3>3. D(FALSE) \in Seq(DirSet) /\ D(TRUE) \in Seq(DirSet)
      BY <1>1, <3>2
    <3>4. QED
      BY <3>1, <3>3
  <2>2. PICK g, h : x = Dir(g, FALSE) /\ y = Dir(h, TRUE)
    <3>1. \A o : \A e \in ToSet(D(o)) : \E g \in ToSet(selected) : e = Dir(g, o)
      BY <1>2
    <3>2. \E g \in ToSet(selected) : x = Dir(g, FALSE)
      BY <3>1
    <3>3. \E h \in ToSet(selected) : y = Dir(h, TRUE)
      BY <3>1
    <3>4. QED
      BY <3>2, <3>3
  <2>3. x # y
    BY <1>4, <2>2
  <2>4. QED
    BY <2>1, <2>3 DEF Different
<1>7. Apart(D(FALSE) \o D(TRUE), Different(DirSet))
  BY <1>1, <1>5, <1>6, ApartConcat
<1>8. QED
  BY <1>7 DEF D

LEMMA SelectOnce ==
  ASSUME ReleaseAssumption, ReadInv, ContentInv, ReadOnce, SelectGroups
  PROVE  ReadOnce'
<1>1. PICK chosen \in {Chosen(release.install, release.named)} :
        IF SelectRaises(chosen, release.named)
          THEN step' = "raised" /\ UNCHANGED <<groups, unread>>
          ELSE /\ groups' = [i \in DOMAIN chosen |-> chosen[i].name]
               /\ unread' = Directories(groups', FALSE) \o Directories(groups', TRUE)
               /\ step' = "read"
  BY DEF SelectGroups
<1>2. CASE step' = "raised"
  BY <1>2 DEF ReadOnce
<1>3. CASE /\ groups' = [i \in DOMAIN chosen |-> chosen[i].name]
           /\ unread' = Directories(groups', FALSE) \o Directories(groups', TRUE)
           /\ step' = "read"
  <2>1. groups' \in Seq(Groups)
    BY <1>1, <1>3, NamesType DEF ReadInv
  <2>2. Apart(groups', Different(Groups))
    BY <1>1, <1>3, ChosenApart DEF ReadInv
  <2>3. Apart(unread', Different(DirSet))
    BY <1>3, <2>1, <2>2, DirectoriesApart
  <2>4. scripts' = [g \in Groups |-> <<>>]
    BY DEF SelectGroups, ContentInv
  <2>5. \A R : Apart(<<>>, R)
    BY DEF Apart
  <2>6. ASSUME NEW d \in ToSet(unread')
        PROVE  d.group \in Groups
    <3>1. unread' \in Seq(DirSet)
      BY SelectRead DEF ReadInv, DirSet
    <3>2. \A s \in Seq(DirSet) : \A e \in ToSet(s) : e \in DirSet
      BY DEF ToSet
    <3>3. d \in DirSet
      BY <3>1, <3>2
    <3>4. QED
      BY <3>3 DEF DirSet
  <2>7. Apart(groups, Different(Groups))' /\ Apart(unread, Different(DirSet))'
    BY <2>2, <2>3 DEF Apart, Different
  <2>8. \A g \in Groups : Apart(scripts[g], OtherNames)'
    BY <2>4, <2>5 DEF Apart
  <2>9. QED
    BY <1>3, <2>4, <2>6, <2>7, <2>8 DEF ReadOnce, ToSet
<1>4. QED
  BY <1>1, <1>2, <1>3

\* The scripts of a directory, whatever the order of the listing, have different names.
LEMMA AddedApart ==
  ASSUME NEW files, \A n \in DOMAIN files : n \in Names /\ files[n] \in Headers,
         NEW o \in BOOLEAN, NEW listing \in Seq(DOMAIN files), IsInjective(listing),
         NEW added,
         added = [i \in DOMAIN listing |->
                    [name |-> listing[i], override |-> o, header |-> files[listing[i]]]]
  PROVE  added \in Seq(ScriptSet) /\ Apart(added, OtherNames)
<1> DEFINE A(i) == [name |-> listing[i], override |-> o, header |-> files[listing[i]]]
<1>1. \A i \in DOMAIN listing : i \in Nat /\ listing[i] \in DOMAIN files
  OBVIOUS
<1>2. \A i \in DOMAIN listing : A(i) \in ScriptSet /\ A(i).name = listing[i]
  BY <1>1 DEF ScriptSet
<1>3. DOMAIN added = DOMAIN listing /\ added = [i \in DOMAIN added |-> added[i]]
      /\ \A i \in DOMAIN listing : added[i] = A(i)
  OBVIOUS
<1> HIDE DEF A
<1>4. \A i \in DOMAIN listing : added[i] \in ScriptSet /\ added[i].name = listing[i]
  BY <1>2, <1>3
<1>5. added \in Seq(ScriptSet)
  BY <1>3, <1>4, MapType
<1>6. \A i, k \in DOMAIN listing : i < k => listing[i] # listing[k]
  BY <1>1 DEF IsInjective
<1>7. QED
  BY <1>3, <1>4, <1>5, <1>6 DEF Apart, OtherNames

LEMMA AddScriptsApart ==
  ASSUME NEW list \in Seq(ScriptSet), NEW added \in Seq(ScriptSet), NEW o \in BOOLEAN,
         Apart(list, OtherNames), Apart(added, OtherNames), ~o => list = <<>>
  PROVE  Apart(AddScripts(list, added, o), OtherNames)
<1> DEFINE names == {s.name : s \in ToSet(added)}
           kept == {s \in ToSet(list) : s.name \notin names}
           first == IF o THEN Among(list, kept) ELSE list
<1>1. AddScripts(list, added, o) = first \o added
  BY DEF AddScripts
<1>2. first \in Seq(ScriptSet) /\ Apart(first, OtherNames)
  <2>1. CASE o
    <3>1. Among(list, kept) \in Seq(ScriptSet)
      <4>1. Among(list, kept) \in Seq(ScriptSet \cap kept)
        BY AmongType
      <4> HIDE DEF kept
      <4>2. QED
        BY <4>1
    <3>2. Apart(Among(list, kept), OtherNames)
      BY ApartAmong
    <3>3. QED
      BY <2>1, <3>1, <3>2
  <2>2. CASE ~o
    BY <2>2
  <2>3. QED
    BY <2>1, <2>2
<1>3. \A x \in ToSet(first) : x \in ScriptSet /\ x.name \notin names
  <2>1. CASE o
    <3>1. ToSet(Among(list, kept)) = ToSet(list) \cap kept
      BY AmongMembers
    <3>2. first = Among(list, kept)
      BY <2>1
    <3>3. \A x \in ToSet(list) : x \in ScriptSet
      BY DEF ToSet
    <3> HIDE DEF first
    <3>4. QED
      BY <3>1, <3>2, <3>3
  <2>2. CASE ~o
    BY <2>2 DEF ToSet
  <2>3. QED
    BY <2>1, <2>2
<1> HIDE DEF first
<1>4. \A x \in ToSet(first), y \in ToSet(added) : <<x, y>> \in OtherNames
  <2>1. \A y \in ToSet(added) : y \in ScriptSet /\ y.name \in names
    BY DEF ToSet
  <2> HIDE DEF names
  <2>2. QED
    BY <1>3, <2>1 DEF OtherNames
<1>5. Apart(first \o added, OtherNames)
  BY <1>2, <1>4, ApartConcat
<1>6. QED
  BY <1>1, <1>5

LEMMA ReadDirOnce ==
  ASSUME ReleaseAssumption, ReadInv, ContentInv, ReadOnce, ReadDir
  PROVE  ReadOnce'
<1> DEFINE d == Head(unread)
           files == Files(d)
           Added(listing) ==
             [i \in DOMAIN listing |-> [name |-> listing[i], override |-> d.override,
                                        header |-> files[listing[i]]]]
<1>1. /\ step = "read" /\ step' = "read" /\ groups' = groups
      /\ unread \in Seq(DirSet) /\ unread # <<>> /\ unread' = Tail(unread)
  BY DEF ReadDir, ReadInv, DirSet
<1>2. d \in DirSet /\ d \in ToSet(unread) /\ ToSet(unread') \subseteq ToSet(unread)
  BY <1>1, HeadAndTail
<1>3. /\ Apart(groups, Different(Groups))
      /\ Apart(unread, Different(DirSet))
      /\ \A e \in ToSet(unread) : ~e.override => scripts[e.group] = <<>>
      /\ \A g \in Groups : Apart(scripts[g], OtherNames)
  BY <1>1 DEF ReadOnce
<1>4. PICK listing \in SetToSeqs(DOMAIN files) :
        scripts' = [scripts EXCEPT ![d.group] = AddScripts(@, Added(listing), d.override)]
  BY Zenon DEF ReadDir
<1>5. listing \in Seq(DOMAIN files) /\ IsInjective(listing)
  <2>1. IsFiniteSet(DOMAIN files)
    BY FilesType, FS_Subset DEF ReadInv, ReleaseAssumption
  <2> HIDE DEF files
  <2>2. QED
    BY <1>4, <2>1, ListingMembers
<1>6. \A n \in DOMAIN files : n \in Names /\ files[n] \in Headers
  BY FilesType DEF ReadInv
<1> DEFINE added == Added(listing)
<1>7. added \in Seq(ScriptSet) /\ Apart(added, OtherNames)
  <2>1. d.override \in BOOLEAN
    BY <1>2 DEF DirSet
  <2> HIDE DEF d, files
  <2>2. QED
    BY <1>5, <1>6, <2>1, AddedApart
<1>8. /\ d.group \in Groups /\ d.override \in BOOLEAN
      /\ \A e \in DirSet : e.group \in Groups /\ e.override \in BOOLEAN
  BY <1>2 DEF DirSet
<1> HIDE DEF Added, added
<1> DEFINE new == AddScripts(scripts[d.group], added, d.override)
<1>9. Apart(new, OtherNames)
  <2>1. scripts[d.group] \in Seq(ScriptSet) /\ Apart(scripts[d.group], OtherNames)
    BY <1>3, <1>8 DEF ReadInv
  <2>2. ~d.override => scripts[d.group] = <<>>
    BY <1>2, <1>3
  <2> HIDE DEF d
  <2>3. QED
    BY <1>7, <1>8, <2>1, <2>2, AddScriptsApart
<1>10. \A g \in Groups : scripts'[g] = IF g = d.group THEN new ELSE scripts[g]
  BY <1>4 DEF added, ReadInv
<1>11. Apart(unread', Different(DirSet)) /\ \A e \in ToSet(unread') : e # d
  <2>1. /\ Apart(Tail(unread), Different(DirSet))
        /\ \A e \in ToSet(Tail(unread)) : <<d, e>> \in Different(DirSet)
    BY <1>1, <1>3, ApartTail
  <2>2. QED
    BY <1>1, <2>1 DEF Different
<1>12. ASSUME NEW e \in ToSet(unread'), ~e.override
       PROVE  scripts'[e.group] = <<>>
  <2>1. e \in ToSet(unread) /\ e \in DirSet /\ e # d
    BY <1>1, <1>2, <1>11 DEF ToSet
  <2>2. ~d.override
    <3>1. PICK i \in DOMAIN unread : unread[i] = e
      BY <2>1 DEF ToSet
    <3>2. 1 \in DOMAIN unread /\ 1 <= i /\ d = unread[1]
      BY <1>1, <3>1
    <3>3. OverridesLast(unread)
      BY <1>1 DEF ContentInv
    <3> HIDE DEF d
    <3>4. QED
      BY <1>12, <3>1, <3>2, <3>3 DEF OverridesLast
  <2>3. e.group # d.group
    <3>1. \A x, y \in DirSet : x.group = y.group /\ x.override = y.override => x = y
      BY DEF DirSet
    <3> HIDE DEF d
    <3>2. e.override = FALSE /\ d.override = FALSE
      BY <1>8, <1>12, <2>1, <2>2
    <3>3. QED
      BY <1>2, <2>1, <3>1, <3>2
  <2>4. scripts'[e.group] = scripts[e.group]
    BY <1>8, <1>10, <2>1, <2>3
  <2>5. QED
    BY <1>3, <1>12, <2>1, <2>4
<1> HIDE DEF d, new
<1>13. Apart(groups, Different(Groups))' /\ Apart(unread, Different(DirSet))'
  BY <1>1, <1>3, <1>11 DEF Apart, Different
<1>14. ASSUME NEW g \in Groups
       PROVE  Apart(scripts'[g], OtherNames)
  BY <1>3, <1>9, <1>10
<1>15. QED
  BY <1>1, <1>12, <1>13, <1>14 DEF ReadOnce, ToSet, Apart

\* All scripts that have been read have different names.
LEMMA AllApart ==
  ASSUME ReadInv, ContentInv, ReadOnce, step = "read", unread = <<>>
  PROVE  Apart(AllScripts, OtherNames)
<1> DEFINE lists == [i \in DOMAIN groups |-> scripts[groups[i]]]
<1>1. groups \in Seq(Groups) /\ \A i \in DOMAIN groups : groups[i] \in Groups
  BY DEF ReadInv
<1>2. /\ Apart(groups, Different(Groups))
      /\ \A g \in Groups : Apart(scripts[g], OtherNames)
  BY DEF ReadOnce
<1>3. DOMAIN lists = DOMAIN groups /\ lists = [i \in DOMAIN lists |-> lists[i]]
      /\ \A i \in DOMAIN groups : lists[i] = scripts[groups[i]] /\ lists[i] \in Seq(ScriptSet)
  BY <1>1 DEF ReadInv
<1> HIDE DEF lists
<1>4. lists \in Seq(Seq(ScriptSet))
  BY <1>1, <1>3, MapType
<1>5. \A i \in DOMAIN lists : Apart(lists[i], OtherNames)
  BY <1>1, <1>2, <1>3
<1>6. ASSUME NEW i \in DOMAIN lists, NEW k \in DOMAIN lists, i < k,
             NEW x \in ToSet(lists[i]), NEW y \in ToSet(lists[k])
      PROVE  <<x, y>> \in OtherNames
  <2>1. i \in DOMAIN groups /\ k \in DOMAIN groups
    BY <1>3
  <2>2. x \in ScriptSet /\ y \in ScriptSet
    BY <1>3, <2>1 DEF ToSet
  <2>3. groups[i] # groups[k]
    BY <1>2, <1>6, <2>1 DEF Apart, Different
  <2>4. groups[i] \in ToSet(groups) /\ groups[k] \in ToSet(groups)
    BY <2>1 DEF ToSet
  <2>5. GroupOf[x.name] = groups[i] /\ GroupOf[y.name] = groups[k]
    BY <1>3, <2>1, <2>4, AllContent
  <2>6. QED
    BY <2>2, <2>3, <2>5 DEF OtherNames
<1>7. Apart(FlattenSeq(lists), OtherNames)
  BY <1>4, <1>5, <1>6, ApartFlatten
<1>8. QED
  BY <1>7 DEF AllScripts, lists

\* A group with a script in force has a script.
LEMMA AllNonEmpty ==
  ASSUME ReadInv, ContentInv, step = "read", unread = <<>>, NEW n \in DOMAIN InForce
  PROVE  scripts[GroupOf[n]] # <<>>
<1>1. PICK s \in ToSet(AllScripts) : s.name = n
  BY AllComplete DEF Complete
<1>2. PICK g \in ToSet(groups) : s \in ToSet(scripts[g])
  BY AllMembers
<1>3. GroupOf[n] = g
  BY <1>1, <1>2, AllContent
<1>4. QED
  BY <1>2, <1>3 DEF ToSet

-----------------------------------------------------------------------------
(* What the scripts of a well-formed release ask for.                      *)

\* The iterated scripts, and the trees there are to be.
Loops == {n \in DOMAIN InForce : InForce[n].iterated}
DueTrees == {Root} \cup Loops

LEMMA WellFormedParts ==
  ASSUME WellFormed
  PROVE  /\ \E g \in ToSet(release.install) : g.name \in ToSet(groups) /\ ~g.special
         /\ \A g \in ToSet(groups) : \E n \in DOMAIN InForce : GroupOf[n] = g
         /\ \A n \in DOMAIN InForce :
              /\ InForce[n].within \in DueTrees
              /\ IF InForce[n].iterated THEN InForce[n].arguments >= 1
                 ELSE InForce[n].leftOut \/ InForce[n].executable
         /\ \A d, e \in Demands : d.dep = e.dep => d = e
         /\ \A d \in Demands :
              /\ d.field = "child" => d.dep \notin PhaseDeps
              /\ d.field = "hard" /\ d.by \in Selected => d.other \in Within(d.dep.tree)
         /\ \A d \in DeclaredDeps :
              ~ \A n \in {d.parent, d.child} : n \in Within(d.tree) /\ n \in Loops
         /\ \A t \in DueTrees :
              OneEntryDag({d \in DeclaredDeps : d.tree = t}, Within(t) \cap Selected)
<1>1. \A n : n \in Loops <=> n \in DOMAIN InForce /\ InForce[n].iterated
  BY DEF Loops
<1>2. \E g \in ToSet(release.install) : g.name \in ToSet(groups) /\ ~g.special
  BY DEF WellFormed
<1>3. \A g \in ToSet(groups) : \E n \in DOMAIN InForce : GroupOf[n] = g
  BY DEF WellFormed
<1>4. \A n \in DOMAIN InForce :
        /\ \/ InForce[n].within = Root
           \/ InForce[n].within \in DOMAIN InForce /\ InForce[InForce[n].within].iterated
        /\ IF InForce[n].iterated THEN InForce[n].arguments >= 1
           ELSE InForce[n].leftOut \/ InForce[n].executable
  BY DEF WellFormed
<1>5. \A d \in Demands : \A e \in Demands \ {d} : d.dep # e.dep
  BY DEF WellFormed
<1>6. \A d \in Demands :
        /\ d.field = "child" => d.dep \notin PhaseDeps
        /\ d.field = "hard" /\ d.by \in Selected => d.other \in Within(d.dep.tree)
  BY DEF WellFormed
<1>7. \A d \in DeclaredDeps :
        ~ \A n \in {d.parent, d.child} :
            n \in Within(d.tree) /\ n \in DOMAIN InForce /\ InForce[n].iterated
  BY DEF WellFormed
<1>8. \A t \in {Root} \cup {n \in DOMAIN InForce : n \in DOMAIN InForce /\ InForce[n].iterated} :
        OneEntryDag({d \in DeclaredDeps : d.tree = t}, Within(t) \cap Selected)
  BY DEF WellFormed
<1>9. \A t \in DueTrees :
        OneEntryDag({d \in DeclaredDeps : d.tree = t}, Within(t) \cap Selected)
  <2>1. DueTrees =
          {Root} \cup {n \in DOMAIN InForce : n \in DOMAIN InForce /\ InForce[n].iterated}
    BY DEF DueTrees, Loops
  <2>2. QED
    BY <1>8, <2>1
<1>10. \A n \in DOMAIN InForce : InForce[n].within \in DueTrees
  BY <1>1, <1>4 DEF DueTrees
<1>11. QED
  BY <1>1, <1>2, <1>3, <1>4, <1>5, <1>6, <1>7, <1>9, <1>10

\* What is asked for is demanded, in the field and by the script it says, or
\* follows from the phases.
Demanded(q) ==
  \/ q.kind = "phase" /\ Edge(q) \in PhaseDeps
  \/ \E d \in Demands :
       d.by = q.script /\ d.field = q.kind /\ d.other = q.other /\ d.dep = Edge(q)

\* Of two calls of add_dep, the second is not for what the first was for, unless
\* it is one for a phase.
NoRepeat == {p \in AskSet \X AskSet : p[2].kind # "phase" => Edge(p[1]) # Edge(p[2])}

LEMMA DemandIs ==
  \A n, f, i, o :
    /\ Demand(n, f, i, o).by = n /\ Demand(n, f, i, o).field = f
    /\ Demand(n, f, i, o).place = i /\ Demand(n, f, i, o).other = o
    /\ Demand(n, f, i, o).dep = Pair(n, f, o)
BY DEF Demand, Pair

LEMMA AsksMembers ==
  ASSUME NEW s, NEW kind, NEW names
  PROVE  /\ DOMAIN Asks(s, kind, names) = DOMAIN names
         /\ \A i \in DOMAIN names :
              LET q == Asks(s, kind, names)[i]
              IN /\ q.kind = kind /\ q.tree = s.header.within /\ q.script = s.name
                 /\ q.defined = ~s.header.leftOut /\ q.other = names[i]
BY DEF Asks

\* Two calls for two scripts, or for two fields of one, ask for two things.
LEMMA AskedApart ==
  ASSUME WellFormed, NEW x \in AskSet, NEW y \in AskSet, Demanded(x), Demanded(y),
         \/ y.kind = "phase"
         \/ x.script # y.script
         \/ x.kind # y.kind /\ x.kind # "phase"
  PROVE  <<x, y>> \in NoRepeat
<1>1. /\ \A d, e \in Demands : d.dep = e.dep => d = e
      /\ \A d \in Demands : d.field = "child" => d.dep \notin PhaseDeps
  BY WellFormedParts
<1>2. SUFFICES ASSUME y.kind # "phase", Edge(x) = Edge(y)
               PROVE  FALSE
  BY DEF NoRepeat
<1>3. PICK e \in Demands : e.by = y.script /\ e.field = y.kind /\ e.dep = Edge(y)
  BY <1>2 DEF Demanded
<1>4. CASE x.kind = "phase"
  <2>1. Edge(x) \in PhaseDeps \/ \E d \in Demands : d.field = "phase"
    BY <1>4 DEF Demanded
  <2>2. \A d \in Demands : d.field # "phase"
    BY DemandMembers, DemandIs
  <2>3. y.kind # "child"
    BY <1>1, <1>2, <1>3, <2>1, <2>2
  <2>4. Edge(x).child = x.script /\ Edge(y).child = y.script
    BY <1>4, <2>3 DEF Edge
  <2>5. QED
    BY <1>2, <1>4, <2>4
<1>5. CASE x.kind # "phase"
  <2>1. PICK d \in Demands : d.by = x.script /\ d.field = x.kind /\ d.dep = Edge(x)
    BY <1>5 DEF Demanded
  <2>2. d = e
    BY <1>1, <1>2, <1>3, <2>1
  <2>3. QED
    BY <1>2, <1>3, <2>1, <2>2
<1>6. QED
  BY <1>4, <1>5

\* What a script asks for in a field of its header, and for its phase.
FieldAsks(all, s, f) == Asks(s, f, GlobExpand(all, s.header[f]))
PhaseAsks(all, s) == Asks(s, "phase", Earlier(all, s))

LEMMA DependenciesParts ==
  ASSUME NEW all, NEW s
  PROVE  Dependencies(all, s) =
           ((FieldAsks(all, s, "hard") \o FieldAsks(all, s, "soft"))
              \o FieldAsks(all, s, "child")) \o PhaseAsks(all, s)
BY DEF Dependencies, FieldAsks, PhaseAsks

LEMMA EdgeIs ==
  ASSUME NEW q, q.tree = InForce[q.script].within
  PROVE  Edge(q) = Pair(q.script, q.kind, q.other)
BY DEF Edge, Pair

\* Who asks in a field demands it.
LEMMA FieldDemanded ==
  ASSUME ReleaseAssumption, NEW all \in Seq(ScriptSet), Complete(all), NEW s \in ToSet(all),
         NEW f \in {"hard", "soft", "child"}
  PROVE  /\ FieldAsks(all, s, f) \in Seq(AskSet)
         /\ \A q \in ToSet(FieldAsks(all, s, f)) :
              /\ q.kind = f /\ q.script = s.name /\ q.defined = ~s.header.leftOut
              /\ Demanded(q)
<1> DEFINE names == GlobExpand(all, s.header[f])
           asks == Asks(s, f, names)
<1>1. s \in ScriptSet /\ s.header = InForce[s.name] /\ s.name \in DOMAIN InForce
  BY DEF ToSet, Complete
<1>2. s.header[f] \in Seq(Patterns)
  BY <1>1 DEF ScriptSet, Headers
<1>3. names \in Seq(Patterns)
  BY <1>2, GlobExpandType
<1>4. ToSet(names) = UNION {Meant(s.header[f][i]) : i \in DOMAIN s.header[f]}
  BY <1>2, GlobExpandMembers
<1>5. asks \in Seq(AskSet)
  <2> DEFINE T == {q \in AskSet : q.tree = s.header.within /\ q.script = s.name}
  <2>1. asks \in Seq(T)
    BY <1>1, <1>3, AsksType
  <2>2. T \subseteq AskSet
    OBVIOUS
  <2>3. \A A, B : A \subseteq B => Seq(A) \subseteq Seq(B)
    OBVIOUS
  <2> HIDE DEF T, asks
  <2>4. QED
    BY <2>1, <2>2, <2>3
<1> HIDE DEF names
<1>6. ASSUME NEW q \in ToSet(asks)
      PROVE  /\ q.kind = f /\ q.script = s.name /\ q.defined = ~s.header.leftOut
             /\ Demanded(q)
  <2>1. PICK k \in DOMAIN names : q = asks[k]
    BY AsksMembers DEF ToSet
  <2> HIDE DEF asks
  <2>2. /\ q.kind = f /\ q.tree = s.header.within /\ q.script = s.name
        /\ q.defined = ~s.header.leftOut /\ q.other = names[k]
    BY <2>1, AsksMembers DEF asks
  <2>3. PICK i \in DOMAIN s.header[f] : names[k] \in Meant(s.header[f][i])
    <3>1. names[k] \in ToSet(names)
      BY DEF ToSet
    <3>2. QED
      BY <1>4, <3>1
  <2>4. Demand(s.name, f, i, names[k]) \in Demands
    BY <1>1, <2>3, DemandMembers
  <2>5. Edge(q) = Pair(s.name, f, names[k])
    BY <1>1, <2>2, EdgeIs
  <2>6. Demanded(q)
    BY <2>2, <2>4, <2>5, DemandIs DEF Demanded
  <2>7. QED
    BY <2>2, <2>6
<1>7. QED
  BY <1>5, <1>6 DEF FieldAsks, names

LEMMA PhaseDemanded ==
  ASSUME ReleaseAssumption, NEW all \in Seq(ScriptSet), Complete(all), NEW s \in ToSet(all)
  PROVE  /\ PhaseAsks(all, s) \in Seq(AskSet)
         /\ \A q \in ToSet(PhaseAsks(all, s)) :
              /\ q.kind = "phase" /\ q.script = s.name /\ q.defined = ~s.header.leftOut
              /\ Demanded(q)
<1> DEFINE names == Earlier(all, s)
           asks == Asks(s, "phase", names)
<1>1. s \in ScriptSet /\ s.header = InForce[s.name] /\ s.name \in DOMAIN InForce
  BY DEF ToSet, Complete
<1>2. names \in Seq(Patterns)
  BY EarlierType
<1>3. asks \in Seq(AskSet)
  <2> DEFINE T == {q \in AskSet : q.tree = s.header.within /\ q.script = s.name}
  <2>1. asks \in Seq(T)
    BY <1>1, <1>2, AsksType
  <2>2. T \subseteq AskSet
    OBVIOUS
  <2>3. \A A, B : A \subseteq B => Seq(A) \subseteq Seq(B)
    OBVIOUS
  <2> HIDE DEF T, asks
  <2>4. QED
    BY <2>1, <2>2, <2>3
<1>4. Edges(asks) = Phased(s.name)
  BY PhaseEdges
<1>5. \A q \in ToSet(asks) : Edge(q) \in PhaseDeps
  BY <1>1, <1>4, PhaseMembers DEF Edges
<1> HIDE DEF names
<1>6. ASSUME NEW q \in ToSet(asks)
      PROVE  q.kind = "phase" /\ q.script = s.name /\ q.defined = ~s.header.leftOut
  <2>1. PICK k \in DOMAIN names : q = asks[k]
    BY AsksMembers DEF ToSet
  <2> HIDE DEF asks
  <2>2. QED
    BY <2>1, AsksMembers DEF asks
<1>7. QED
  BY <1>3, <1>5, <1>6 DEF PhaseAsks, names, Demanded

\* What a pattern is expanded to has nothing twice.
LEMMA ExpansionApart ==
  ASSUME ReleaseAssumption, NEW all \in Seq(ScriptSet), Apart(all, OtherNames),
         NEW p \in Patterns
  PROVE  Apart(Expansion(all, p), Different(Patterns))
<1> DEFINE names == [i \in DOMAIN all |-> all[i].name]
<1>1. \A i \in DOMAIN all : all[i].name \in Patterns
  <2>1. \A i \in DOMAIN all : all[i] \in ScriptSet
    OBVIOUS
  <2>2. QED
    BY <2>1 DEF ScriptSet, ReleaseAssumption
<1>2. DOMAIN names = DOMAIN all /\ names = [i \in DOMAIN names |-> names[i]]
      /\ \A i \in DOMAIN all : names[i] = all[i].name
  OBVIOUS
<1> HIDE DEF names
<1>3. names \in Seq(Patterns)
  BY <1>1, <1>2, MapType
<1>4. Apart(names, Different(Patterns))
  <2>1. ASSUME NEW i \in DOMAIN names, NEW k \in DOMAIN names, i < k
        PROVE  <<names[i], names[k]>> \in Different(Patterns)
    <3>1. <<all[i], all[k]>> \in OtherNames
      BY <1>2, <2>1 DEF Apart
    <3>2. all[i].name # all[k].name
      BY <3>1 DEF OtherNames
    <3>3. QED
      BY <1>1, <1>2, <3>2 DEF Different
  <2>2. QED
    BY <2>1 DEF Apart
<1>5. Apart(Among(names, Matches[p]), Different(Patterns))
  BY <1>3, <1>4, ApartAmong
<1>6. Matching(all, p) = Among(names, Matches[p])
  BY DEF Matching, names
<1>7. Apart(<<p>>, Different(Patterns))
  BY DEF Apart
<1>8. QED
  BY <1>5, <1>6, <1>7 DEF Expansion

\* Nor has a field of a well-formed release.
LEMMA GlobExpandApart ==
  ASSUME ReleaseAssumption, WellFormed, NEW all \in Seq(ScriptSet), Complete(all),
         Apart(all, OtherNames), NEW s \in ToSet(all), NEW f \in {"hard", "soft", "child"}
  PROVE  Apart(GlobExpand(all, s.header[f]), Different(Patterns))
<1> DEFINE ps == s.header[f]
           lists == [i \in DOMAIN ps |-> Expansion(all, ps[i])]
           n == s.name
<1>1. s.header = InForce[n] /\ n \in DOMAIN InForce /\ ps \in Seq(Patterns)
  <2>1. s \in ScriptSet
    BY DEF ToSet
  <2>2. QED
    BY <2>1 DEF ScriptSet, Headers, Complete
<1> HIDE DEF n
<1>2. \A i \in DOMAIN ps : ps[i] \in Patterns /\ i \in Nat
  BY <1>1
<1>3. DOMAIN lists = DOMAIN ps /\ lists = [i \in DOMAIN lists |-> lists[i]]
  OBVIOUS
<1>4. \A i \in DOMAIN ps : lists[i] = Expansion(all, ps[i])
  OBVIOUS
<1>5. GlobExpand(all, ps) = FlattenSeq(lists)
  BY DEF GlobExpand, Expansion
<1> HIDE DEF lists
<1>6. \A i \in DOMAIN ps : /\ lists[i] \in Seq(Patterns) /\ ToSet(lists[i]) = Meant(ps[i])
                           /\ Apart(lists[i], Different(Patterns))
  BY <1>2, <1>4, ExpansionMembers, ExpansionApart
<1>7. lists \in Seq(Seq(Patterns))
  BY <1>1, <1>3, <1>6, MapType
<1>8. ASSUME NEW i \in DOMAIN lists, NEW k \in DOMAIN lists, i < k,
             NEW x \in ToSet(lists[i]), NEW y \in ToSet(lists[k])
      PROVE  <<x, y>> \in Different(Patterns)
  <2>1. x \in Patterns /\ y \in Patterns
    <3>1. \A l \in Seq(Patterns) : \A e \in ToSet(l) : e \in Patterns
      BY DEF ToSet
    <3>2. QED
      BY <1>3, <1>6, <3>1
  <2>2. x \in Meant(InForce[n][f][i]) /\ y \in Meant(InForce[n][f][k])
        /\ i \in DOMAIN InForce[n][f] /\ k \in DOMAIN InForce[n][f]
    BY <1>1, <1>3, <1>6
  <2>3. Demand(n, f, i, x) \in Demands /\ Demand(n, f, k, y) \in Demands
    BY <1>1, <2>2, DemandMembers
  <2>4. Demand(n, f, i, x).place # Demand(n, f, k, y).place
    BY <1>2, <1>3, <1>8, DemandIs
  <2>5. Pair(n, f, x) # Pair(n, f, y)
    BY <2>3, <2>4, DemandIs, WellFormedParts
  <2>6. QED
    BY <2>1, <2>5 DEF Different
<1>9. Apart(FlattenSeq(lists), Different(Patterns))
  BY <1>3, <1>6, <1>7, <1>8, ApartFlatten
<1>10. QED
  BY <1>5, <1>9

LEMMA FieldApart ==
  ASSUME ReleaseAssumption, WellFormed, NEW all \in Seq(ScriptSet), Complete(all),
         Apart(all, OtherNames), NEW s \in ToSet(all), NEW f \in {"hard", "soft", "child"}
  PROVE  Apart(FieldAsks(all, s, f), NoRepeat)
<1> DEFINE names == GlobExpand(all, s.header[f])
           asks == Asks(s, f, names)
<1>1. Apart(names, Different(Patterns))
  BY GlobExpandApart
<1>2. asks \in Seq(AskSet)
  BY FieldDemanded DEF FieldAsks
<1>3. s.header = InForce[s.name]
  BY DEF Complete
<1> HIDE DEF names
<1>4. DOMAIN asks = DOMAIN names
  BY AsksMembers
<1>5. \A i \in DOMAIN asks : asks[i] \in AskSet
  BY <1>2
<1> HIDE DEF asks
<1>6. ASSUME NEW i \in DOMAIN asks, NEW k \in DOMAIN asks, i < k
      PROVE  <<asks[i], asks[k]>> \in NoRepeat
  <2>1. names[i] # names[k]
    BY <1>1, <1>4, <1>6 DEF Apart, Different
  <2>2. \A m \in DOMAIN asks : Edge(asks[m]) = Pair(s.name, f, names[m])
    <3>1. ASSUME NEW m \in DOMAIN asks
          PROVE  Edge(asks[m]) = Pair(s.name, f, names[m])
      <4>1. /\ asks[m].kind = f /\ asks[m].tree = s.header.within
            /\ asks[m].script = s.name /\ asks[m].other = names[m]
        BY <1>4, AsksMembers DEF asks
      <4>2. QED
        BY <1>3, <4>1, EdgeIs
    <3>2. QED
      BY <3>1
  <2>3. \A a, b : Pair(s.name, f, a) = Pair(s.name, f, b) => a = b
    BY DEF Pair
  <2>4. Edge(asks[i]) # Edge(asks[k])
    BY <2>1, <2>2, <2>3
  <2>5. QED
    BY <1>5, <2>4 DEF NoRepeat
<1>7. QED
  BY <1>6 DEF Apart, FieldAsks, asks, names

LEMMA AskedOf ==
  ASSUME NEW a \in Seq(AskSet)
  PROVE  \A q \in ToSet(a) : q \in AskSet
BY DEF ToSet

\* A script of a well-formed release asks for nothing twice, but for what its phase
\* asks for again.
LEMMA DependenciesApart ==
  ASSUME ReleaseAssumption, WellFormed, NEW all \in Seq(ScriptSet), Complete(all),
         Apart(all, OtherNames), NEW s \in ToSet(all)
  PROVE  /\ Dependencies(all, s) \in Seq(AskSet)
         /\ Apart(Dependencies(all, s), NoRepeat)
         /\ \A q \in ToSet(Dependencies(all, s)) :
              q.script = s.name /\ q.defined = ~s.header.leftOut /\ Demanded(q)
<1> DEFINE F(f) == FieldAsks(all, s, f)
           p == PhaseAsks(all, s)
           ho == F("hard") \o F("soft")
           hoc == ho \o F("child")
           K == {"hard", "soft", "child"}
           Good(q) == q.script = s.name /\ q.defined = ~s.header.leftOut /\ Demanded(q)
<1>1. \A f \in K : /\ F(f) \in Seq(AskSet) /\ Apart(F(f), NoRepeat)
                   /\ \A q \in ToSet(F(f)) : q.kind = f /\ Good(q)
  BY FieldDemanded, FieldApart
<1>2. p \in Seq(AskSet) /\ \A q \in ToSet(p) : q.kind = "phase" /\ Good(q)
  BY PhaseDemanded
<1>3. "hard" \in K /\ "soft" \in K /\ "child" \in K
  OBVIOUS
<1>4. Dependencies(all, s) = hoc \o p
  BY DependenciesParts
<1> HIDE DEF F, p, ho, hoc, K
<1>5. \A f \in K : \A q \in ToSet(F(f)) : q \in AskSet
  BY <1>1, AskedOf
<1>6. \A f, g \in K : f # g => \A x \in ToSet(F(f)), y \in ToSet(F(g)) : <<x, y>> \in NoRepeat
  <2>1. ASSUME NEW f \in K, NEW g \in K, f # g, NEW x \in ToSet(F(f)), NEW y \in ToSet(F(g))
        PROVE  <<x, y>> \in NoRepeat
    <3>1. x \in AskSet /\ y \in AskSet /\ x.kind = f /\ y.kind = g /\ Demanded(x) /\ Demanded(y)
      BY <1>1, <1>5
    <3>2. f # "phase"
      BY DEF K
    <3>3. QED
      BY <2>1, <3>1, <3>2, AskedApart
  <2>2. QED
    BY <2>1
<1>7. /\ ho \in Seq(AskSet) /\ ToSet(ho) = ToSet(F("hard")) \cup ToSet(F("soft"))
      /\ Apart(ho, NoRepeat)
  <2> DEFINE h == F("hard")
             o == F("soft")
  <2>1. h \in Seq(AskSet) /\ o \in Seq(AskSet) /\ Apart(h, NoRepeat) /\ Apart(o, NoRepeat)
    BY <1>1, <1>3
  <2>2. \A x \in ToSet(h), y \in ToSet(o) : <<x, y>> \in NoRepeat
    BY <1>3, <1>6
  <2>3. ho = h \o o
    BY DEF ho
  <2> HIDE DEF h, o
  <2>4. h \o o \in Seq(AskSet) /\ ToSet(h \o o) = ToSet(h) \cup ToSet(o) /\ Apart(h \o o, NoRepeat)
    BY <2>1, <2>2, ConcatMembers, ApartConcat
  <2>5. QED
    BY <2>3, <2>4 DEF h, o
<1>8. /\ hoc \in Seq(AskSet) /\ ToSet(hoc) = ToSet(ho) \cup ToSet(F("child"))
      /\ Apart(hoc, NoRepeat)
  <2> DEFINE c == F("child")
  <2>1. c \in Seq(AskSet) /\ Apart(c, NoRepeat)
    BY <1>1, <1>3
  <2>2. \A x \in ToSet(ho), y \in ToSet(c) : <<x, y>> \in NoRepeat
    BY <1>3, <1>6, <1>7
  <2>3. hoc = ho \o c
    BY DEF hoc
  <2> HIDE DEF c
  <2>4. ho \o c \in Seq(AskSet) /\ ToSet(ho \o c) = ToSet(ho) \cup ToSet(c) /\ Apart(ho \o c, NoRepeat)
    BY <1>7, <2>1, <2>2, ConcatMembers, ApartConcat
  <2>5. QED
    BY <2>3, <2>4 DEF c
<1> HIDE DEF Good
<1>9. \A q \in ToSet(hoc) : q \in AskSet /\ Good(q)
  BY <1>1, <1>3, <1>5, <1>7, <1>8
<1>10. \A x \in AskSet, y \in AskSet : y.kind = "phase" => <<x, y>> \in NoRepeat
  BY DEF NoRepeat
<1>11. Apart(p, NoRepeat) /\ \A q \in ToSet(p) : q \in AskSet
  <2>1. \A q \in ToSet(p) : q \in AskSet
    BY <1>2, AskedOf
  <2>2. \A i \in DOMAIN p : p[i] \in ToSet(p)
    BY DEF ToSet
  <2>3. QED
    BY <1>2, <1>10, <2>1, <2>2 DEF Apart
<1>12. \A x \in ToSet(hoc), y \in ToSet(p) : <<x, y>> \in NoRepeat
  BY <1>2, <1>9, <1>10, <1>11
<1>13. /\ hoc \o p \in Seq(AskSet) /\ ToSet(hoc \o p) = ToSet(hoc) \cup ToSet(p)
       /\ Apart(hoc \o p, NoRepeat)
  BY <1>2, <1>8, <1>11, <1>12, ConcatMembers, ApartConcat
<1>14. QED
  BY <1>2, <1>4, <1>9, <1>13 DEF Good

\* Nor do all scripts of it.
LEMMA AllAsksApart ==
  ASSUME ReleaseAssumption, WellFormed, NEW all \in Seq(ScriptSet), Complete(all),
         Apart(all, OtherNames), NEW asked,
         asked = FlattenSeq([i \in DOMAIN all |-> Dependencies(all, all[i])])
  PROVE  /\ asked \in Seq(AskSet) /\ Apart(asked, NoRepeat)
         /\ \A q \in ToSet(asked) : Demanded(q) /\ (q.defined => q.script \in Selected)
<1> DEFINE lists == [i \in DOMAIN all |-> Dependencies(all, all[i])]
<1>1. \A i \in DOMAIN all : all[i] \in ToSet(all)
  BY DEF ToSet
<1>2. DOMAIN lists = DOMAIN all /\ lists = [i \in DOMAIN lists |-> lists[i]]
  OBVIOUS
<1>3. \A i \in DOMAIN all : lists[i] = Dependencies(all, all[i])
  OBVIOUS
<1> HIDE DEF lists
<1>4. \A i \in DOMAIN all :
        /\ lists[i] \in Seq(AskSet) /\ Apart(lists[i], NoRepeat)
        /\ \A q \in ToSet(lists[i]) :
             /\ q.script = all[i].name /\ q.defined = ~all[i].header.leftOut
             /\ Demanded(q)
  BY <1>1, <1>3, DependenciesApart
<1>5. lists \in Seq(Seq(AskSet))
  BY <1>2, <1>4, MapType
<1>6. ASSUME NEW i \in DOMAIN lists, NEW k \in DOMAIN lists, i < k,
             NEW x \in ToSet(lists[i]), NEW y \in ToSet(lists[k])
      PROVE  <<x, y>> \in NoRepeat
  <2>1. x \in AskSet /\ y \in AskSet
    BY <1>2, <1>4, AskedOf
  <2>2. <<all[i], all[k]>> \in OtherNames
    BY <1>2, <1>6 DEF Apart
  <2>3. x.script # y.script
    BY <1>2, <1>4, <2>2 DEF OtherNames
  <2>4. QED
    BY <1>2, <1>4, <2>1, <2>3, AskedApart
<1>7. Apart(FlattenSeq(lists), NoRepeat)
  BY <1>2, <1>4, <1>5, <1>6, ApartFlatten
<1>8. /\ FlattenSeq(lists) \in Seq(AskSet)
      /\ ToSet(FlattenSeq(lists)) = UNION {ToSet(lists[i]) : i \in DOMAIN lists}
  BY <1>5, FlattenMembers
<1>9. ASSUME NEW q \in ToSet(FlattenSeq(lists))
      PROVE  Demanded(q) /\ (q.defined => q.script \in Selected)
  <2>1. PICK i \in DOMAIN all : q \in ToSet(lists[i])
    BY <1>2, <1>8
  <2>2. /\ q.script = all[i].name /\ q.defined = ~all[i].header.leftOut /\ Demanded(q)
    BY <1>4, <2>1
  <2>3. all[i].name \in DOMAIN InForce /\ all[i].header = InForce[all[i].name]
    BY <1>1 DEF Complete
  <2>4. QED
    BY <2>2, <2>3 DEF Selected
<1>10. QED
  BY <1>7, <1>8, <1>9 DEF lists

-----------------------------------------------------------------------------
(* Linking a well-formed release.                                          *)

\* The job of a script.
HeaderJob(n) == Job([name |-> n, header |-> InForce[n]])

\* Every script has its job, and what else there is are placeholders.
JobsDue ==
  /\ \A n \in DOMAIN InForce : HeaderJob(n) \in jobs
  /\ \A j \in jobs : \/ \E n \in DOMAIN InForce : j = HeaderJob(n)
                     \/ ~j.defined /\ ~j.iterated

\* What is still to be added is demanded, and has not been added.
AsksDue ==
  /\ \A q \in ToSet(todo) :
       /\ Demanded(q) /\ (q.defined => q.script \in Selected)
       /\ q.kind # "phase" => Edge(q) \notin ToSet(deps)
  /\ Apart(todo, NoRepeat)

\* No selected group is without scripts.
Filled == \A n \in DOMAIN InForce : scripts[GroupOf[n]] # <<>>

Linkable == JobsDue /\ AsksDue /\ Filled

LEMMA HeaderJobIs ==
  \A n : /\ HeaderJob(n).tree = InForce[n].within /\ HeaderJob(n).name = n
         /\ HeaderJob(n).defined = ~InForce[n].leftOut
         /\ HeaderJob(n).iterated = InForce[n].iterated
         /\ HeaderJob(n).arguments = InForce[n].arguments
         /\ HeaderJob(n).executable = InForce[n].executable
BY DEF HeaderJob, Job

LEMMA SameRelease ==
  ASSUME release' = release, groups' = groups
  PROVE  /\ InForce' = InForce /\ Selected' = Selected /\ WellFormed' = WellFormed
         /\ \A q : Demanded(q)' = Demanded(q)
         /\ \A n : HeaderJob(n)' = HeaderJob(n)
<1>1. /\ InForce' = InForce
      /\ Demands' = Demands /\ PhaseDeps' = PhaseDeps /\ DeclaredDeps' = DeclaredDeps
      /\ \A t : Within(t)' = Within(t)
  BY SameDeclared
<1>2. Selected' = Selected
  BY <1>1 DEF Selected
<1>3. \A q : Demanded(q)' = Demanded(q)
  BY <1>1 DEF Demanded, Edge
<1>4. \A n : HeaderJob(n)' = HeaderJob(n)
  BY <1>1 DEF HeaderJob, Job
<1>5. WellFormed' = WellFormed
  <2> DEFINE Inner(n) == n \in DOMAIN InForce /\ InForce[n].iterated
             W1 == \E g \in ToSet(release.install) : g.name \in ToSet(groups) /\ ~g.special
             W2 == release.named \subseteq ToSet(groups)
             W3 == \A g \in ToSet(groups) : \E n \in DOMAIN InForce : GroupOf[n] = g
             W4 == \A n \in DOMAIN InForce :
                     /\ InForce[n].within = Root \/ Inner(InForce[n].within)
                     /\ IF InForce[n].iterated THEN InForce[n].arguments >= 1
                        ELSE InForce[n].leftOut \/ InForce[n].executable
             W5 == \A d \in Demands :
                     /\ \A e \in Demands \ {d} : d.dep # e.dep
                     /\ d.field = "child" => d.dep \notin PhaseDeps
                     /\ d.field = "hard" /\ d.by \in Selected => d.other \in Within(d.dep.tree)
             W6 == \A d \in DeclaredDeps :
                     ~ \A n \in {d.parent, d.child} : n \in Within(d.tree) /\ Inner(n)
             E(t) == {d \in DeclaredDeps : d.tree = t}
             D(t) == Within(t) \cap Selected
             L == {n \in DOMAIN InForce : Inner(n)}
             W7 == \A t \in {Root} \cup L : OneEntryDag(E(t), D(t))
  <2>1. WellFormed = (W1 /\ W2 /\ W3 /\ W4 /\ W5 /\ W6 /\ W7)
    BY DEF WellFormed
  <2>2. WellFormed' = (W1 /\ W2 /\ W3 /\ W4 /\ W5 /\ W6 /\ W7)'
    BY DEF WellFormed
  <2>3. ToSet(groups)' = ToSet(groups) /\ ToSet(release.install)' = ToSet(release.install)
    BY DEF ToSet
  <2>4. W1' = W1 /\ W2' = W2
    BY <2>3
  <2>5. W3' = W3
    BY <1>1, <2>3
  <2>6. W4' = W4
    BY <1>1
  <2>7. W5' = W5
    BY <1>1, <1>2
  <2>8. W6' = W6
    BY <1>1
  <2>9. W7' = W7
    <3>1. L' = L
      BY <1>1
    <3>2. \A t : E(t)' = E(t) /\ D(t)' = D(t)
      BY <1>1, <1>2
    <3> HIDE DEF L, E, D
    <3>3. QED
      BY <3>1, <3>2
  <2> HIDE DEF W1, W2, W3, W4, W5, W6, W7
  <2>10. QED
    BY <2>1, <2>2, <2>4, <2>5, <2>6, <2>7, <2>8, <2>9
<1>6. QED
  BY <1>1, <1>2, <1>3, <1>4, <1>5

\* Dependencies are declared in trees there are to be.
LEMMA DeclaredTrees ==
  ASSUME WellFormed
  PROVE  \A e \in DeclaredDeps : e.tree \in DueTrees
<1>1. ASSUME NEW d \in Demands
      PROVE  d.dep.tree \in DueTrees
  <2>1. PICK n \in DOMAIN InForce, f \in {"hard", "soft", "child"} :
          \E i \in DOMAIN InForce[n][f] : \E o \in Meant(InForce[n][f][i]) : d = Demand(n, f, i, o)
    BY DemandMembers
  <2>2. PICK i, o : d = Demand(n, f, i, o)
    BY <2>1
  <2>3. d.dep = Pair(n, f, o)
    BY <2>2, DemandIs
  <2>4. d.dep.tree = InForce[n].within
    BY <2>3 DEF Pair
  <2>5. QED
    BY <2>4, WellFormedParts
<1>2. \A e \in PhaseDeps : e.tree = Root
  BY DEF PhaseDeps
<1>3. QED
  BY <1>1, <1>2 DEF DeclaredDeps, DueTrees

\* None is on the script itself.
LEMMA NoneOnItself ==
  ASSUME WellFormed, NEW e \in DeclaredDeps, e.parent \in Patterns
  PROVE  e.parent # e.child
<1> DEFINE E == {d \in DeclaredDeps : d.tree = e.tree}
           C(S) == {d.child : d \in {x \in E : x.parent \in S}}
<1>1. OneEntryDag(E, Within(e.tree) \cap Selected)
  BY DeclaredTrees, WellFormedParts
<1>2. \A S \in (SUBSET Patterns) \ {{}} : \E n \in S : C({n}) \cap S = {}
  BY <1>1 DEF OneEntryDag
<1>3. {e.parent} \in (SUBSET Patterns) \ {{}}
  OBVIOUS
<1>4. C({e.parent}) \cap {e.parent} = {}
  BY <1>2, <1>3
<1>5. e.child \in C({e.parent})
  OBVIOUS
<1>6. QED
  BY <1>4, <1>5

\* init_tree makes a job of each script.
LEMMA MakeJobsLinkable ==
  ASSUME ReleaseAssumption, ReadInv, LinkInv, ContentInv, ReadOnce, WellFormed, MakeJobs
  PROVE  step' = "link" /\ Linkable'
<1>1. PICK all \in {AllScripts} :
        IF NoSuchTree(all) \/ JobDefinedTwice(all)
          THEN step' = "raised" /\ UNCHANGED <<jobs, todo>>
          ELSE /\ jobs' = {Job(s) : s \in ToSet(all)}
               /\ todo' = FlattenSeq([i \in DOMAIN all |-> Dependencies(all, all[i])])
               /\ step' = "link"
  BY DEF MakeJobs
<1>2. all \in Seq(ScriptSet) /\ Complete(all) /\ Apart(all, OtherNames)
  BY <1>1, AllScriptsType, AllComplete, AllApart DEF MakeJobs
<1>3. /\ deps' = <<>> /\ release' = release /\ groups' = groups /\ scripts' = scripts
      /\ step = "read" /\ unread = <<>>
  BY DEF LinkInv, MakeJobs
<1>4. \A s \in ToSet(all) : s.name \in DOMAIN InForce /\ s.header = InForce[s.name]
  BY <1>2 DEF Complete
<1>5. \A n \in DOMAIN InForce : \E s \in ToSet(all) : s.name = n
  BY <1>2 DEF Complete
<1>6. ~NoSuchTree(all)
  <2>1. \A n \in Loops : n \in Subtrees(all)
    <3>1. ASSUME NEW n \in Loops
          PROVE  n \in Subtrees(all)
      <4>1. PICK s \in ToSet(all) : s.name = n
        BY <1>5 DEF Loops
      <4>2. s.header.iterated
        BY <1>4, <4>1 DEF Loops
      <4>3. QED
        BY <4>1, <4>2 DEF Subtrees
    <3>2. QED
      BY <3>1
  <2>2. \A s \in ToSet(all) : s.header.within \in DueTrees
    BY <1>4, WellFormedParts
  <2>3. QED
    BY <2>1, <2>2 DEF NoSuchTree, DueTrees
<1>7. ~JobDefinedTwice(all)
  <2> DEFINE f == [i \in DOMAIN all |-> <<all[i].header.within, all[i].name>>]
  <2>1. \A i \in DOMAIN all : i \in Nat
    BY <1>2
  <2>2. \A i, k \in DOMAIN all : i < k => all[i].name # all[k].name
    BY <1>2 DEF Apart, OtherNames
  <2>3. \A i, k \in DOMAIN all : all[i].name = all[k].name => i = k
    BY <2>1, <2>2
  <2>4. IsInjective(f)
    BY <2>3 DEF IsInjective
  <2>5. QED
    BY <2>4 DEF JobDefinedTwice
<1>8. /\ jobs' = {Job(s) : s \in ToSet(all)}
      /\ todo' = FlattenSeq([i \in DOMAIN all |-> Dependencies(all, all[i])])
      /\ step' = "link"
  BY <1>1, <1>6, <1>7
<1>9. /\ InForce' = InForce /\ Selected' = Selected
      /\ \A q : Demanded(q)' = Demanded(q)
      /\ \A n : HeaderJob(n)' = HeaderJob(n)
  BY <1>3, SameRelease
<1>10. JobsDue'
  <2>1. \A s \in ToSet(all) : Job(s) = HeaderJob(s.name)
    BY <1>4 DEF Job, HeaderJob
  <2>2. \A j \in jobs' : \E n \in DOMAIN InForce : j = HeaderJob(n)
    BY <1>4, <1>8, <2>1
  <2>3. \A n \in DOMAIN InForce : HeaderJob(n) \in jobs'
    BY <1>5, <1>8, <2>1
  <2>4. QED
    BY <1>9, <2>2, <2>3 DEF JobsDue
<1>11. AsksDue'
  <2>1. /\ Apart(todo', NoRepeat)
        /\ \A q \in ToSet(todo') : Demanded(q) /\ (q.defined => q.script \in Selected)
    BY <1>2, <1>8, AllAsksApart
  <2>2. ToSet(deps') = {}
    BY <1>3 DEF ToSet
  <2>3. Apart(todo, NoRepeat)' /\ ToSet(todo)' = ToSet(todo') /\ ToSet(deps)' = ToSet(deps')
    BY <2>1 DEF Apart, NoRepeat, Edge, ToSet
  <2>4. \A q : Edge(q)' = Edge(q)
    BY DEF Edge
  <2>5. QED
    BY <1>9, <2>1, <2>2, <2>3, <2>4 DEF AsksDue
<1>12. Filled'
  BY <1>3, <1>9, AllNonEmpty DEF Filled
<1>13. QED
  BY <1>8, <1>10, <1>11, <1>12 DEF Linkable

\* add_dep does what it is asked for.
LEMMA NothingRefused ==
  ASSUME ReleaseAssumption, LinkInv, DeclaredInv, WellFormed, Linkable,
         step = "link", todo # <<>>, NEW q, q = Head(todo)
  PROVE  ~Refuse(q) /\ q \in AskSet /\ q \in ToSet(todo)
<1>1. q \in AskSet /\ q \in ToSet(todo)
  <2> DEFINE Q == {a \in AskSet : ByJob(a, jobs)}
  <2>1. todo \in Seq(Q)
    BY DEF LinkInv
  <2> HIDE DEF Q
  <2>2. q \in Q /\ q \in ToSet(todo)
    BY <2>1, HeadAndTail
  <2>3. QED
    BY <2>2 DEF Q
<1>2. /\ Demanded(q) /\ (q.defined => q.script \in Selected)
      /\ q.kind # "phase" => Edge(q) \notin ToSet(deps)
  BY <1>1 DEF Linkable, AsksDue
<1>3. ~(q.kind # "phase" /\ Duplicate(q))
  BY <1>2 DEF Duplicate
<1>4. q.other # q.script
  <2>1. Edge(q) \in DeclaredDeps
    BY <1>1 DEF DeclaredInv, Edges
  <2>2. Edge(q).parent \in Patterns
    BY <1>1 DEF Edge, AskSet, ReleaseAssumption
  <2>3. Edge(q).parent # Edge(q).child
    BY <2>1, <2>2, NoneOnItself
  <2>4. QED
    BY <2>3 DEF Edge
<1>5. Known(q) \/ Excused(q)
  <2> SUFFICES ASSUME q.kind = "hard", q.defined
               PROVE  Known(q)
    BY DEF Excused
  <2>1. PICK d \in Demands :
          d.by = q.script /\ d.field = q.kind /\ d.other = q.other /\ d.dep = Edge(q)
    BY <1>2 DEF Demanded
  <2>2. q.other \in Within(d.dep.tree)
    BY <1>2, <2>1, WellFormedParts
  <2>3. d.dep.tree = q.tree
    BY <2>1 DEF Edge
  <2>4. q.other \in DOMAIN InForce /\ InForce[q.other].within = q.tree
    BY <2>2, <2>3 DEF Within
  <2>5. HeaderJob(q.other) \in jobs
    BY <2>4 DEF Linkable, JobsDue
  <2>6. QED
    BY <2>4, <2>5, HeaderJobIs DEF Known, JobsIn
<1>6. QED
  BY <1>1, <1>3, <1>4, <1>5 DEF Refuse

LEMMA LinkLinkable ==
  ASSUME ReleaseAssumption, LinkInv, DeclaredInv, WellFormed, Linkable, Link
  PROVE  step' = "link" /\ Linkable'
<1> DEFINE q == Head(todo)
<1>1. /\ step = "link" /\ todo # <<>>
      /\ release' = release /\ groups' = groups /\ scripts' = scripts
      /\ AddDep(q) \/ AddPlaceholder(q) \/ SkipDuplicate(q) \/ Refuse(q)
  BY DEF Link
<1>2. ~Refuse(q) /\ q \in AskSet /\ q \in ToSet(todo)
  BY <1>1, NothingRefused
<1>3. todo \in Seq(AskSet)
  <2>1. todo \in Seq({a \in AskSet : ByJob(a, jobs)})
    BY DEF LinkInv
  <2>2. {a \in AskSet : ByJob(a, jobs)} \subseteq AskSet
    OBVIOUS
  <2>3. \A A, B : A \subseteq B => Seq(A) \subseteq Seq(B)
    OBVIOUS
  <2> DEFINE Q == {a \in AskSet : ByJob(a, jobs)}
  <2>4. todo \in Seq(Q) /\ Q \subseteq AskSet
    BY <2>1, <2>2
  <2> HIDE DEF Q
  <2>5. QED
    BY <2>3, <2>4
<1>4. Apart(todo, NoRepeat)
  BY DEF Linkable, AsksDue
<1>5. /\ Apart(Tail(todo), NoRepeat)
      /\ \A x \in ToSet(Tail(todo)) : <<q, x>> \in NoRepeat
      /\ ToSet(Tail(todo)) \subseteq ToSet(todo)
  BY <1>1, <1>3, <1>4, ApartTail, HeadAndTail
<1> HIDE DEF q
<1>6. /\ todo' = Tail(todo) /\ step' = step
      /\ jobs' = jobs \/ jobs' = jobs \cup {Placeholder(q.tree, q.other)}
      /\ deps' = deps \/ deps' = Append(deps, Edge(q))
  BY <1>1, <1>2 DEF AddDep, AddPlaceholder, SkipDuplicate
<1>7. ToSet(deps') \subseteq ToSet(deps) \cup {Edge(q)}
  <2> DEFINE e == Edge(q)
  <2>1. deps \in Seq(DepSet)
    BY DEF LinkInv
  <2> HIDE DEF e
  <2>2. /\ Len(deps) \in Nat /\ DOMAIN deps = 1..Len(deps)
        /\ DOMAIN Append(deps, e) = 1..(Len(deps) + 1)
        /\ Append(deps, e)[Len(deps) + 1] = e
        /\ \A i \in 1..Len(deps) : Append(deps, e)[i] = deps[i]
    BY <2>1
  <2>3. ToSet(Append(deps, e)) = ToSet(deps) \cup {e}
    BY <2>2 DEF ToSet
  <2>4. QED
    BY <1>6, <2>3 DEF e
<1>8. /\ InForce' = InForce /\ Selected' = Selected
      /\ \A x : Demanded(x)' = Demanded(x)
      /\ \A n : HeaderJob(n)' = HeaderJob(n)
  BY <1>1, SameRelease
<1>9. JobsDue'
  <2>1. ~Placeholder(q.tree, q.other).defined /\ ~Placeholder(q.tree, q.other).iterated
    BY DEF Placeholder
  <2>2. JobsDue
    BY DEF Linkable
  <2>3. jobs \subseteq jobs' /\ \A j \in jobs' : j \in jobs \/ (~j.defined /\ ~j.iterated)
    BY <1>6, <2>1
  <2>4. QED
    BY <1>8, <2>2, <2>3 DEF JobsDue
<1>10. AsksDue'
  <2>1. \A x \in ToSet(Tail(todo)) :
          /\ Demanded(x) /\ (x.defined => x.script \in Selected)
          /\ x.kind # "phase" => Edge(x) \notin ToSet(deps)
    BY <1>5 DEF Linkable, AsksDue
  <2>2. \A x \in ToSet(Tail(todo)) : x.kind # "phase" => Edge(q) # Edge(x)
    BY <1>5 DEF NoRepeat
  <2>3. \A x \in ToSet(Tail(todo)) : x.kind # "phase" => Edge(x) \notin ToSet(deps')
    BY <1>7, <2>1, <2>2
  <2>4. /\ Apart(todo, NoRepeat)' /\ ToSet(todo)' = ToSet(Tail(todo))
        /\ ToSet(deps)' = ToSet(deps')
    <3>1. \A i, k \in DOMAIN todo' : i < k => <<todo'[i], todo'[k]>> \in NoRepeat
      BY <1>5, <1>6 DEF Apart
    <3>2. NoRepeat' = NoRepeat
      BY DEF NoRepeat, Edge
    <3>3. Apart(todo, NoRepeat)'
      <4> HIDE DEF NoRepeat
      <4>1. QED
        BY <3>1, <3>2 DEF Apart
    <3>4. ToSet(todo)' = ToSet(Tail(todo)) /\ ToSet(deps)' = ToSet(deps')
      BY <1>6 DEF ToSet
    <3>5. QED
      BY <3>3, <3>4
  <2>5. \A x : Edge(x)' = Edge(x)
    BY DEF Edge
  <2>6. QED
    BY <1>8, <2>1, <2>3, <2>4, <2>5 DEF AsksDue
<1>11. Filled'
  BY <1>1, <1>8 DEF Filled, Linkable
<1>12. QED
  BY <1>1, <1>6, <1>9, <1>10, <1>11 DEF Linkable

-----------------------------------------------------------------------------
(* Validating a well-formed release.                                       *)

\* The jobs that count are the scripts in force.
LEMMA TreesAsDue ==
  ASSUME JobsDue
  PROVE  /\ \A t : DefinedIn(t) = Within(t) \cap Selected
         /\ \A t : IteratedIn(t) = Within(t) \cap Loops
         /\ \A j \in jobs : j.iterated => j.name \in Loops
         /\ SubtreesOfRoot \subseteq Loops
<1>1. \A j \in jobs : \/ \E n \in DOMAIN InForce : j = HeaderJob(n)
                      \/ ~j.defined /\ ~j.iterated
  BY DEF JobsDue
<1>2. \A n \in DOMAIN InForce : HeaderJob(n) \in jobs
  BY DEF JobsDue
<1>3. ASSUME NEW t
      PROVE  DefinedIn(t) = Within(t) \cap Selected
  <2>1. ASSUME NEW j \in jobs, j.tree = t, j.defined
        PROVE  j.name \in Within(t) \cap Selected
    <3>1. PICK n \in DOMAIN InForce : j = HeaderJob(n)
      BY <1>1, <2>1
    <3>2. QED
      BY <2>1, <3>1, HeaderJobIs DEF Within, Selected
  <2>2. ASSUME NEW n \in Within(t) \cap Selected
        PROVE  n \in DefinedIn(t)
    <3>1. n \in DOMAIN InForce /\ InForce[n].within = t /\ ~InForce[n].leftOut
      BY DEF Within, Selected
    <3>2. HeaderJob(n) \in jobs /\ HeaderJob(n).tree = t /\ HeaderJob(n).defined /\ HeaderJob(n).name = n
      BY <1>2, <3>1, HeaderJobIs
    <3>3. QED
      BY <3>2 DEF DefinedIn, JobsIn
  <2>3. DefinedIn(t) \subseteq Within(t) \cap Selected
    BY <2>1 DEF DefinedIn, JobsIn
  <2>4. QED
    BY <2>2, <2>3
<1>4. ASSUME NEW j \in jobs, j.iterated
      PROVE  j.name \in Within(j.tree) \cap Loops
  <2>1. PICK n \in DOMAIN InForce : j = HeaderJob(n)
    BY <1>1, <1>4
  <2>2. QED
    BY <1>4, <2>1, HeaderJobIs DEF Within, Loops
<1>5. ASSUME NEW t
      PROVE  IteratedIn(t) = Within(t) \cap Loops
  <2>1. ASSUME NEW n \in Within(t) \cap Loops
        PROVE  n \in IteratedIn(t)
    <3>1. n \in DOMAIN InForce /\ InForce[n].within = t /\ InForce[n].iterated
      BY DEF Within, Loops
    <3>2. HeaderJob(n) \in jobs /\ HeaderJob(n).tree = t /\ HeaderJob(n).iterated /\ HeaderJob(n).name = n
      BY <1>2, <3>1, HeaderJobIs
    <3>3. QED
      BY <3>2 DEF IteratedIn, JobsIn
  <2>2. IteratedIn(t) \subseteq Within(t) \cap Loops
    BY <1>4 DEF IteratedIn, JobsIn
  <2>3. QED
    BY <2>1, <2>2
<1>6. SubtreesOfRoot \subseteq {j.name : j \in {k \in jobs : k.iterated}}
  BY DEF SubtreesOfRoot
<1>7. QED
  BY <1>3, <1>4, <1>5, <1>6

\* What OneEntryDag says of the dependencies that were added.
LEMMA DagIs ==
  ASSUME NEW t, OneEntryDag(DepsIn(t), DefinedIn(t))
  PROVE  Acyclic(t) /\ \E entry : Entrance(t, entry)
<1> DEFINE C(S) == {d.child : d \in {e \in DepsIn(t) : e.parent \in S}}
           I == {S \in SUBSET Patterns : C(S) \subseteq S}
<1>1. /\ \A S \in (SUBSET Patterns) \ {{}} : \E n \in S : C({n}) \cap S = {}
      /\ \E entry \in DefinedIn(t) : \A S \in I : entry \in S => DefinedIn(t) \subseteq S
  BY DEF OneEntryDag
<1>2. \A n : Children(t, n) = C({n})
  BY DEF Children
<1>3. \A S \in SUBSET Patterns : Inherits(t, S) => S \in I
  BY DEF Inherits, Children
<1> HIDE DEF C, I
<1>4. Acyclic(t)
  BY <1>1, <1>2 DEF Acyclic, Walks
<1>5. QED
  BY <1>1, <1>3, <1>4 DEF Entrance

\* Before _validate, with all dependencies of a well-formed release added.
Ready ==
  /\ WellFormed /\ Linkable /\ LinkInv /\ JobsInv /\ ParserTypeOK
  /\ ToSet(deps) = DeclaredDeps

LEMMA DueTreesAreDags ==
  ASSUME Ready, NEW t \in DueTrees
  PROVE  Acyclic(t) /\ \E entry : Entrance(t, entry)
<1>1. DepsIn(t) = {d \in DeclaredDeps : d.tree = t}
  BY DEF Ready, DepsIn
<1>2. DefinedIn(t) = Within(t) \cap Selected
  BY TreesAsDue DEF Ready, Linkable
<1>3. OneEntryDag({d \in DeclaredDeps : d.tree = t}, Within(t) \cap Selected)
  BY WellFormedParts DEF Ready
<1>4. OneEntryDag(DepsIn(t), DefinedIn(t))
  BY <1>1, <1>2, <1>3
<1>5. QED
  BY <1>4, DagIs

LEMMA DueTreesEnd ==
  ASSUME ReleaseAssumption, Ready, NEW t \in DueTrees
  PROVE  ClimbForever(t) = {} /\ ~Endless(t)
<1>1. deps \in Seq(DepSet) /\ IsFiniteSet(Patterns) /\ IsFiniteSet(jobs) /\ ParserTypeOK
      /\ \A j \in jobs : j.name \in Patterns
  BY DEF ReleaseAssumption, Ready, LinkInv, JobsInv
<1>2. Acyclic(t)
  BY DueTreesAreDags
<1>3. QED
  BY <1>1, <1>2, DagNeverEndless

\* write_status draws it.
LEMMA DueTreesDrawn ==
  ASSUME ReleaseAssumption, Ready
  PROVE  ~WriteStatusRaises
<1>1. ASSUME NEW t \in DueTrees, NEW drawn \in SUBSET DepsIn(t)
      PROVE  ~CannotDraw(t, drawn)
  <2> SUFFICES ASSUME NEW d \in drawn, d.child \in IteratedIn(t)
               PROVE  d.parent \notin IteratedIn(t) /\ ~Endless(d.child)
    BY DEF CannotDraw
  <2>1. d \in DeclaredDeps /\ d.tree = t
    BY DEF DepsIn, Ready
  <2>2. IteratedIn(t) = Within(t) \cap Loops
    BY TreesAsDue DEF Ready, Linkable
  <2>3. d.parent \notin IteratedIn(t)
    BY <2>1, <2>2, WellFormedParts DEF Ready
  <2>4. d.child \in DueTrees
    BY <2>2 DEF DueTrees
  <2>5. QED
    BY <2>3, <2>4, DueTreesEnd
<1>2. Root \in DueTrees /\ SubtreesOfRoot \subseteq DueTrees
  BY TreesAsDue DEF DueTrees, Ready, Linkable
<1>3. \A t \in SubtreesOfRoot : ~CannotDraw(t, DepsIn(t))
  BY <1>1, <1>2
<1>4. ~ \E j \in JobsIn(Root) : j.name \in ClimbForever(Root)
  BY <1>2, DueTreesEnd
<1>5. ~CannotDraw(Root, {d \in DepsIn(Root) : d.parent \notin GrandParents(Root)[d.child]})
  BY <1>1, <1>2
<1>6. QED
  BY <1>3, <1>4, <1>5 DEF WriteStatusRaises

\* All that a job's own script or iterator is checked for holds.
LEMMA DueJobsValidate ==
  ASSUME Ready, NEW j \in jobs
  PROVE  JobValidates(j)
<1>1. \/ \E n \in DOMAIN InForce : j = HeaderJob(n)
      \/ ~j.defined /\ ~j.iterated
  BY DEF Ready, Linkable, JobsDue
<1>2. CASE \E n \in DOMAIN InForce : j = HeaderJob(n)
  <2>1. PICK n \in DOMAIN InForce : j = HeaderJob(n)
    BY <1>2
  <2>2. IF InForce[n].iterated THEN InForce[n].arguments >= 1
        ELSE InForce[n].leftOut \/ InForce[n].executable
    BY <2>1, WellFormedParts DEF Ready
  <2>3. /\ j.defined = ~InForce[n].leftOut /\ j.iterated = InForce[n].iterated
        /\ j.arguments = InForce[n].arguments /\ j.executable = InForce[n].executable
    BY <2>1, HeaderJobIs
  <2>4. QED
    BY <2>2, <2>3 DEF JobValidates
<1>3. CASE ~j.defined /\ ~j.iterated
  BY <1>3 DEF JobValidates
<1>4. QED
  BY <1>1, <1>2, <1>3

\* A tree that does not validate has an iterator whose tree does not.
LEMMA InvalidWithin ==
  ASSUME ReleaseAssumption, Ready, NEW t \in DueTrees, t \in Trees, ~Validates[t]
  PROVE  \E n \in Loops : InForce[n].within = t /\ n \in Trees /\ ~Validates[n]
<1>1. deps \in Seq(DepSet) /\ IsFiniteSet(Patterns) /\ IsFiniteSet(jobs) /\ ParserTypeOK
      /\ \A j \in jobs : j.name \in Patterns /\ (j.iterated => j.name \in Trees)
  BY DEF ReleaseAssumption, Ready, LinkInv, JobsInv, Trees
<1>2. Cardinality(Stems(t)) = 1 /\ \A stem \in Stems(t) : Connected(t, stem)
  <2>1. PICK entry : Acyclic(t) /\ Entrance(t, entry)
    BY DueTreesAreDags
  <2>2. QED
    BY <1>1, <2>1, DagConnected
<1>3. Validates[t] <=>
        /\ Cardinality(Stems(t)) = 1
        /\ \A stem \in Stems(t) : Connected(t, stem)
        /\ \A j \in JobsIn(t) : JobValidates(j) /\ (j.iterated => Validates[j.name])
  BY <1>1, ValidatesUnfolds
<1>4. PICK j \in JobsIn(t) : j.iterated /\ ~Validates[j.name]
  <2>1. \A j \in JobsIn(t) : JobValidates(j)
    BY DueJobsValidate DEF JobsIn
  <2>2. QED
    BY <1>2, <1>3, <2>1
<1>5. j.name \in IteratedIn(t) /\ j.name \in Trees
  BY <1>1, <1>4 DEF IteratedIn, JobsIn
<1>6. j.name \in Within(t) \cap Loops
  BY <1>5, TreesAsDue DEF Ready, Linkable
<1>7. QED
  BY <1>4, <1>5, <1>6 DEF Within

\* Subtrees need not end by their nesting: an iterator may even be in its own tree.
\* But each is in one tree only, so an invalid root would take more invalid trees
\* than there are.
LEMMA DueRootValidates ==
  ASSUME ReleaseAssumption, Ready
  PROVE  Validates[Root]
<1> DEFINE Bad == {t \in DueTrees \cap Trees : ~Validates[t]}
           Inner(t, n) == n \in Bad /\ n \in Loops /\ InForce[n].within = t
           inner == [t \in Bad |-> CHOOSE n : Inner(t, n)]
<1>1. \A t \in Bad : \E n : Inner(t, n)
  BY InvalidWithin DEF DueTrees
<1>2. \A t \in Bad : Inner(t, inner[t])
  BY <1>1
<1>3. Root \notin Loops
  <2>1. \A n \in Loops : HeaderJob(n) \in jobs
    BY DEF Loops, Ready, Linkable, JobsDue
  <2>2. \A n \in Loops : n \in Patterns
    BY <2>1, HeaderJobIs DEF Ready, JobsInv
  <2>3. QED
    BY <2>2 DEF ReleaseAssumption
<1>4. IsFiniteSet(Bad)
  <2>1. Bad \subseteq Patterns \cup {Root}
    BY DEF Trees, ReleaseAssumption
  <2>2. IsFiniteSet({Root}) /\ IsFiniteSet(Patterns)
    BY FS_Singleton DEF ReleaseAssumption
  <2>3. IsFiniteSet(Patterns \cup {Root})
    BY <2>2, FS_Union
  <2> HIDE DEF Bad
  <2>4. QED
    BY <2>1, <2>3, FS_Subset
<1>5. SUFFICES ASSUME Root \in Bad
               PROVE  FALSE
  BY DEF DueTrees, Trees
<1> HIDE DEF Bad
<1>6. inner \in [Bad -> Bad \ {Root}]
  BY <1>2, <1>3
<1>7. \A t, u \in Bad : inner[t] = inner[u] => t = u
  BY <1>2
<1> HIDE DEF inner
<1>8. IsFiniteSet(Bad \ {Root}) /\ Cardinality(Bad \ {Root}) < Cardinality(Bad)
  <2>1. Cardinality(Bad) \in Nat
    BY <1>4, FS_CardinalityType
  <2>2. /\ IsFiniteSet(Bad \ {Root})
        /\ Cardinality(Bad \ {Root}) = IF Root \in Bad THEN Cardinality(Bad) - 1
                                       ELSE Cardinality(Bad)
    BY <1>4, FS_RemoveElement
  <2>3. QED
    BY <1>5, <2>1, <2>2
<1>9. QED
  BY <1>4, <1>6, <1>7, <1>8, FS_PigeonHole

\* _validate finds nothing.
LEMMA ReadyAccepted ==
  ASSUME ReleaseAssumption, Ready, Validate
  PROVE  step' = "accepted"
<1>1. ~OnlySpecial
  BY WellFormedParts DEF OnlySpecial, Ready
<1>2. ~WriteStatusRaises
  BY DueTreesDrawn
<1>3. ~ \E t \in {Root} \cup SubtreesOfRoot : Endless(t)
  BY TreesAsDue, DueTreesEnd DEF DueTrees, Ready, Linkable
<1>4. \A g \in ToSet(groups) : scripts[g] # <<>>
  BY WellFormedParts DEF Ready, Linkable, Filled
<1>5. Validates[Root]
  BY DueRootValidates
<1>6. QED
  BY <1>1, <1>2, <1>3, <1>4, <1>5 DEF Validate

LEMMA ValidateAccepts ==
  ASSUME ReleaseAssumption, ParserInv, JobsInv, DeclaredInv, WellFormed, Linkable, Validate
  PROVE  step' = "accepted"
<1>1. step = "link" /\ Edges(todo) = {}
  BY DEF Validate, Edges, ToSet
<1>2. ToSet(deps) = DeclaredDeps
  BY <1>1 DEF DeclaredInv
<1>3. Ready
  BY <1>2 DEF Ready, ParserInv
<1>4. QED
  BY <1>3, ReadyAccepted

\* A well-formed release is on its way.
CauseInv ==
  /\ ReadOnce
  /\ step = "link" /\ WellFormed => Linkable
  /\ RefusedForCause

\* A choice of groups that verComp or the names refuse.
LEMMA SelectCause ==
  ASSUME ReadOnce, SelectGroups, step' = "raised"
  PROVE  ~WellFormed'
<1>1. groups = <<>> /\ release' = release
  BY DEF ReadOnce, SelectGroups
<1>2. groups' = groups
  <2>1. PICK chosen \in {Chosen(release.install, release.named)} :
          IF SelectRaises(chosen, release.named)
            THEN step' = "raised" /\ UNCHANGED <<groups, unread>>
            ELSE /\ groups' = [i \in DOMAIN chosen |-> chosen[i].name]
                 /\ unread' = Directories(groups', FALSE) \o Directories(groups', TRUE)
                 /\ step' = "read"
    BY DEF SelectGroups
  <2>2. QED
    BY <2>1
<1>3. ToSet(groups) = {}
  BY <1>1 DEF ToSet
<1>4. ~WellFormed
  BY <1>3, WellFormedParts
<1>5. QED
  BY <1>1, <1>2, <1>4, SameRelease

LEMMA StillCause ==
  ASSUME UNCHANGED vars, CauseInv
  PROVE  CauseInv'
<1>1. /\ release' = release /\ groups' = groups /\ unread' = unread /\ scripts' = scripts
      /\ jobs' = jobs /\ deps' = deps /\ todo' = todo /\ step' = step
  BY DEF vars
<1>2. /\ InForce' = InForce /\ Selected' = Selected /\ WellFormed' = WellFormed
      /\ \A q : Demanded(q)' = Demanded(q)
      /\ \A n : HeaderJob(n)' = HeaderJob(n)
  BY <1>1, SameRelease
<1>3. ReadOnce'
  BY <1>1 DEF CauseInv, ReadOnce, Apart, Different, OtherNames, DirSet, ScriptSet, ToSet
<1>4. JobsDue' = JobsDue /\ Filled' = Filled
  BY <1>1, <1>2 DEF JobsDue, Filled
<1>5. AsksDue' = AsksDue
  <2>1. /\ ToSet(todo)' = ToSet(todo) /\ ToSet(deps)' = ToSet(deps)
        /\ \A q : Edge(q)' = Edge(q)
    BY <1>1 DEF ToSet, Edge
  <2>2. NoRepeat' = NoRepeat
    BY DEF NoRepeat, Edge
  <2>3. Apart(todo, NoRepeat)' = Apart(todo, NoRepeat)
    <3> HIDE DEF NoRepeat
    <3>1. QED
      BY <1>1, <2>2 DEF Apart
  <2>4. QED
    BY <1>2, <2>1, <2>3 DEF AsksDue
<1>6. Linkable' = Linkable
  BY <1>4, <1>5 DEF Linkable
<1>7. QED
  BY <1>1, <1>2, <1>3, <1>6 DEF CauseInv, RefusedForCause

LEMMA CauseStep ==
  ASSUME ReleaseAssumption, ParserInv, JobsInv, ContentInv, DeclaredInv, CauseInv,
         [Next]_vars
  PROVE  CauseInv'
<1>1. ReadInv /\ LinkInv /\ ReadOnce /\ (step = "link" /\ WellFormed => Linkable)
  BY DEF ParserInv, CauseInv
<1>2. CASE SelectGroups
  <2>1. step' \in {"raised", "read"}
    BY <1>2 DEF SelectGroups
  <2>2. ReadOnce'
    BY <1>1, <1>2, SelectOnce
  <2>3. step' = "raised" => ~WellFormed'
    BY <1>1, <1>2, SelectCause
  <2>4. QED
    BY <2>1, <2>2, <2>3 DEF CauseInv, RefusedForCause
<1>3. CASE ReadDir
  <2>1. step' = "read"
    BY <1>3 DEF ReadDir
  <2>2. ReadOnce'
    BY <1>1, <1>3, ReadDirOnce
  <2>3. QED
    BY <2>1, <2>2 DEF CauseInv, RefusedForCause
<1>4. CASE MakeJobs
  <2>1. step' \in {"raised", "link"} /\ release' = release /\ groups' = groups
    BY <1>4 DEF MakeJobs
  <2>2. WellFormed' = WellFormed
    BY <2>1, SameRelease
  <2>3. WellFormed => step' = "link" /\ Linkable'
    BY <1>1, <1>4, MakeJobsLinkable
  <2>4. ReadOnce'
    BY <2>1 DEF ReadOnce
  <2>5. QED
    BY <2>1, <2>2, <2>3, <2>4 DEF CauseInv, RefusedForCause
<1>5. CASE Link
  <2>1. /\ step = "link" /\ step' \in {"raised", "link"}
        /\ release' = release /\ groups' = groups
    BY <1>5 DEF Link, AddDep, AddPlaceholder, SkipDuplicate, Refuse
  <2>2. WellFormed' = WellFormed
    BY <2>1, SameRelease
  <2>3. WellFormed => step' = "link" /\ Linkable'
    BY <1>1, <1>5, <2>1, LinkLinkable
  <2>4. ReadOnce'
    BY <2>1 DEF ReadOnce
  <2>5. QED
    BY <2>1, <2>2, <2>3, <2>4 DEF CauseInv, RefusedForCause
<1>6. CASE Validate
  <2>1. /\ step = "link" /\ step' \in {"raised", "rejected", "accepted"}
        /\ release' = release /\ groups' = groups
    BY <1>6 DEF Validate
  <2>2. WellFormed' = WellFormed
    BY <2>1, SameRelease
  <2>3. WellFormed => step' = "accepted"
    BY <1>1, <1>6, <2>1, ValidateAccepts
  <2>4. ReadOnce'
    BY <2>1 DEF ReadOnce
  <2>5. QED
    BY <2>1, <2>2, <2>3, <2>4 DEF CauseInv, RefusedForCause
<1>7. CASE UNCHANGED vars
  BY <1>7, StillCause
<1>8. QED
  BY <1>2, <1>3, <1>4, <1>5, <1>6, <1>7 DEF Next

\* No release that nothing is wrong with is refused, whatever its scripts, groups and
\* subtrees and in whatever order its directories are listed: neither the dependencies,
\* added one by one, nor the searches of the validation fail on it.
\* Code: init_tree, add_dep and Rcubic._validate with ExecTree.validate.
THEOREM NoneRefused == ParserSpec => []RefusedForCause
<1>1. ReleaseAssumption
  BY ReleaseAssumption
<1>2. Init => JobsInv
  BY FS_EmptySet DEF Init, JobsInv
<1>3. ParserInv /\ JobsInv /\ [Next]_vars => JobsInv'
  BY <1>1, JobsStep
<1>4. Init => ContentInv /\ DeclaredInv
  BY DEF Init, ContentInv, DeclaredInv, GraphAsDeclared
<1>5. ParserInv /\ ContentInv /\ DeclaredInv /\ [Next]_vars => ContentInv' /\ DeclaredInv'
  BY <1>1, DeclaredStep
<1>6. Init => CauseInv
  BY DEF Init, CauseInv, ReadOnce, RefusedForCause
<1>7. /\ ParserInv /\ JobsInv /\ ContentInv /\ DeclaredInv /\ CauseInv /\ [Next]_vars
      => CauseInv'
  BY <1>1, CauseStep
<1>8. CauseInv => RefusedForCause
  BY DEF CauseInv
<1>9. QED
  BY <1>2, <1>3, <1>4, <1>5, <1>6, <1>7, <1>8, ParserInvariant, PTL DEF ParserSpec
================================================================================
