-------------------------- MODULE ExecResourceProofs --------------------------
(***************************************************************************)
(* Proofs about ExecResource, for all jobs, resources and limits: no count *)
(* passes its limit; no more jobs than the limit run on a resource whose   *)
(* jobs need no other; and a resource that nobody holds has a count of 0.  *)
(***************************************************************************)
EXTENDS ExecResource, Positions, FiniteSetTheorems, TLAPS

-----------------------------------------------------------------------------
(* Counting occurrences in a list.                                         *)

Occurrences(j, r, i, k) == {p \in i..k : Needs[j][p] = r}

LEMMA OccurrencesFinite ==
  ASSUME NEW j, NEW r, NEW i \in Int, NEW k \in Int
  PROVE  /\ IsFiniteSet(Occurrences(j, r, i, k))
         /\ Count(j, r, i, k) \in Nat
         /\ Count(j, r, i, k) = Cardinality(Occurrences(j, r, i, k))
<1>1. IsFiniteSet(i..k)
  BY FS_Interval
<1>2. IsFiniteSet(Occurrences(j, r, i, k))
  BY <1>1, FS_Subset DEF Occurrences
<1>3. QED
  BY <1>2, FS_CardinalityType DEF Count, Occurrences

\* One more occurrence at the last position counts one more.
LEMMA CountLast ==
  ASSUME NEW j, NEW r, NEW i \in Int, NEW k \in Int, NEW m \in i..k,
         Needs[j][m] = r, \A p \in Occurrences(j, r, i, k) : p <= m
  PROVE  Count(j, r, i, k) = Count(j, r, i, m - 1) + 1
<1>1. m - 1 \in Int
  OBVIOUS
<1>2. Occurrences(j, r, i, k) = Occurrences(j, r, i, m - 1) \cup {m}
  BY DEF Occurrences
<1>3. m \notin Occurrences(j, r, i, m - 1)
  BY DEF Occurrences
<1>4. QED
  BY <1>1, <1>2, <1>3, OccurrencesFinite, FS_AddElement

-----------------------------------------------------------------------------
(* The loop over the resources.                                            *)

\* The loop stops at a position of the list or past its end, and before it no
\* position is used up.
LEMMA StopAtType ==
  ASSUME ResourceAssumption, NEW j \in Jobs, NEW i \in 1..Len(Needs[j])
  PROVE  /\ StopAt(j, i) \in i..(Len(Needs[j]) + 1)
         /\ \A l \in i..(StopAt(j, i) - 1) : ~UsedUp(j, i, l)
<1>1. Len(Needs[j]) \in Nat
  BY DEF ResourceAssumption
<1>2. Stops(j, i) \subseteq i..Len(Needs[j]) /\ Stops(j, i) \subseteq Nat
  BY <1>1 DEF Stops
<1>3. CASE Stops(j, i) = {}
  BY <1>1, <1>3 DEF StopAt, Stops
<1>4. CASE Stops(j, i) # {}
  <2>1. StopAt(j, i) = CHOOSE k \in Stops(j, i) : \A l \in Stops(j, i) : k <= l
    BY <1>4 DEF StopAt
  <2>2. StopAt(j, i) \in Stops(j, i) /\ \A l \in Stops(j, i) : StopAt(j, i) <= l
    BY <1>2, <1>4, <2>1, FirstPosition
  <2>3. StopAt(j, i) \in i..Len(Needs[j])
    BY <1>2, <2>2
  <2>4. ASSUME NEW l \in i..(StopAt(j, i) - 1), UsedUp(j, i, l)
        PROVE  FALSE
    <3>1. l \in Stops(j, i)
      BY <1>1, <2>3, <2>4 DEF Stops
    <3>2. QED
      BY <1>1, <2>2, <2>3, <3>1
  <2>5. QED
    BY <1>1, <2>3, <2>4
<1>5. QED
  BY <1>3, <1>4

\* What the loop reserves fits: a count within its limit stays within it.
LEMMA ReserveFits ==
  ASSUME ResourceAssumption, used \in [Resources -> Nat],
         NEW j \in Jobs, NEW i \in 1..Len(Needs[j]), NEW r \in Limited, used[r] <= Avail[r]
  PROVE  used[r] + Count(j, r, i, StopAt(j, i) - 1) <= Avail[r]
<1> DEFINE k == StopAt(j, i) - 1
           O == Occurrences(j, r, i, k)
<1>1. /\ Len(Needs[j]) \in Nat /\ i \in Nat
      /\ k \in Int /\ k <= Len(Needs[j])
      /\ \A l \in i..k : ~UsedUp(j, i, l)
  BY StopAtType DEF ResourceAssumption
<1>2. used[r] \in Nat /\ Avail[r] \in Nat
  BY DEF ResourceAssumption, Limited
<1> HIDE DEF k
<1>3. CASE O = {}
  <2>1. Count(j, r, i, k) = 0
    BY <1>1, <1>3, OccurrencesFinite, FS_EmptySet
  <2>2. QED
    BY <1>2, <2>1 DEF k
<1>4. CASE O # {}
  <2>1. O \subseteq 1..Len(Needs[j]) /\ O \subseteq 0..Len(Needs[j])
    BY <1>1 DEF Occurrences
  <2>2. PICK m \in O : \A p \in O : p <= m
    BY <1>1, <1>4, <2>1, LastExists
  <2>3. m \in i..k /\ Needs[j][m] = r
    BY DEF Occurrences
  <2>4. Count(j, r, i, k) = Count(j, r, i, m - 1) + 1
    BY <1>1, <2>2, <2>3, CountLast
  <2>5. used[r] + Count(j, r, i, m - 1) < Avail[r]
    <3>1. Count(j, r, i, m - 1) \in Nat
      BY <1>1, <2>3, OccurrencesFinite
    <3>2. ~(used[r] + Count(j, r, i, m - 1) >= Avail[r])
      BY <1>1, <2>3 DEF UsedUp
    <3>3. QED
      BY <1>2, <3>1, <3>2
  <2>6. Count(j, r, i, m - 1) \in Nat
    BY <1>1, <2>3, OccurrencesFinite
  <2>7. QED
    BY <1>2, <2>4, <2>5, <2>6 DEF k
<1>5. QED
  BY <1>3, <1>4

-----------------------------------------------------------------------------
(* The type invariant and the limit on the counts.                         *)

\* The two ways the loop ends when it stops at k: with everything, or blocked.
Got(j, k) ==
  k > Len(Needs[j]) /\ phase' = [phase EXCEPT ![j] = "holding"] /\ Returns(j)

Blocks(j, i, k, old) ==
  /\ k \in 1..Len(Needs[j])
  /\ phase' = [phase EXCEPT ![j] = "waiting"]
  /\ next' = [next EXCEPT ![j] = k]
  /\ reserved' = [reserved EXCEPT ![j] =
                     [r \in Resources |-> old[r] + Count(j, r, i, k - 1)]]
  /\ attempt' = attempt

\* What the loop leaves behind.
LEMMA ReserveEffect ==
  ASSUME ResourceAssumption, StateTypeOK, NEW j \in Jobs, NEW i \in 1..Len(Needs[j]),
         NEW old, ReserveFrom(j, i, old), NEW k, k = StopAt(j, i)
  PROVE  /\ k \in i..(Len(Needs[j]) + 1)
         /\ \A r : Count(j, r, i, k - 1) \in Nat
         /\ \A r \in Limited : used'[r] = used[r] + Count(j, r, i, k - 1)
         /\ used' \in [Resources -> Nat]
         /\ Got(j, k) \/ Blocks(j, i, k, old)
<1>1. /\ Len(Needs[j]) \in Nat
      /\ k \in i..(Len(Needs[j]) + 1)
  BY StopAtType DEF ResourceAssumption
<1>2. \A r : Count(j, r, i, k - 1) \in Nat
  BY <1>1, OccurrencesFinite
<1>3. used' = [r \in Resources |->
                 IF r \in Limited THEN used[r] + Count(j, r, i, k - 1) ELSE used[r]]
  BY DEF ReserveFrom
<1>4. \A r \in Limited : used'[r] = used[r] + Count(j, r, i, k - 1)
  BY <1>3 DEF Limited
<1>5. used' \in [Resources -> Nat]
  <2>1. ASSUME NEW r \in Resources
        PROVE  used[r] \in Nat /\ used[r] + Count(j, r, i, k - 1) \in Nat
    BY <1>2 DEF StateTypeOK
  <2>2. QED
    BY <1>3, <2>1
<1>6. Got(j, k) \/ Blocks(j, i, k, old)
  <2>1. CASE k > Len(Needs[j])
    BY <2>1 DEF ReserveFrom, Got
  <2>2. CASE ~(k > Len(Needs[j]))
    <3>1. k \in 1..Len(Needs[j])
      BY <1>1, <2>2
    <3>2. QED
      BY <2>2, <3>1 DEF ReserveFrom, Blocks
  <2>3. QED
    BY <2>1, <2>2
<1>7. QED
  BY <1>1, <1>2, <1>4, <1>5, <1>6

\* The end of a call keeps the types of its local variables.
LEMMA ReturnsKeeps ==
  ASSUME StateTypeOK, NEW j \in Jobs, Returns(j)
  PROVE  /\ next' \in [Jobs -> Nat \ {0}] /\ attempt' \in [Jobs -> Nat]
         /\ reserved' \in [Jobs -> [Resources -> Nat]]
         /\ \A l \in Jobs \ {j} : next'[l] = next[l]
BY DEF Returns, StateTypeOK

LEMMA ReserveKeeps ==
  ASSUME ResourceAssumption, StateTypeOK, UsedWithinLimit,
         NEW j \in Jobs, NEW i \in 1..Len(Needs[j]),
         NEW old \in [Resources -> Nat], ReserveFrom(j, i, old)
  PROVE  StateTypeOK' /\ UsedWithinLimit'
<1>1. PICK k : k = StopAt(j, i)
  OBVIOUS
<1>2. /\ \A r : Count(j, r, i, k - 1) \in Nat
      /\ \A r \in Limited : used'[r] = used[r] + Count(j, r, i, k - 1)
      /\ used' \in [Resources -> Nat]
      /\ Got(j, k) \/ Blocks(j, i, k, old)
  BY <1>1, ReserveEffect
<1>3. UsedWithinLimit'
  <2>1. ASSUME NEW r \in Limited
        PROVE  used'[r] <= Avail[r]
    <3>1. used'[r] = used[r] + Count(j, r, i, k - 1)
      BY <1>2
    <3>2. used[r] <= Avail[r]
      BY DEF UsedWithinLimit
    <3>3. used[r] + Count(j, r, i, k - 1) <= Avail[r]
      BY <1>1, <3>2, ReserveFits DEF StateTypeOK
    <3>4. QED
      BY <3>1, <3>3
  <2>2. QED
    BY <2>1 DEF UsedWithinLimit
<1>4. CASE Got(j, k)
  <2>1. phase' = [phase EXCEPT ![j] = "holding"] /\ Returns(j)
    BY <1>4 DEF Got
  <2>2. \A l \in Jobs : phase'[l] = "waiting" => l # j /\ phase[l] = "waiting"
    BY <2>1 DEF StateTypeOK
  <2>3. QED
    BY <1>2, <1>3, <2>1, <2>2, ReturnsKeeps DEF StateTypeOK, Phases
<1>5. CASE Blocks(j, i, k, old)
  <2>1. reserved' \in [Jobs -> [Resources -> Nat]]
    <3>1. ASSUME NEW r \in Resources
          PROVE  old[r] + Count(j, r, i, k - 1) \in Nat
      BY <1>2
    <3>2. [r \in Resources |-> old[r] + Count(j, r, i, k - 1)] \in [Resources -> Nat]
      BY <3>1
    <3>3. QED
      BY <1>5, <3>2 DEF StateTypeOK, Blocks
  <2>2. /\ k \in 1..Len(Needs[j])
        /\ phase' = [phase EXCEPT ![j] = "waiting"]
        /\ next' = [next EXCEPT ![j] = k]
        /\ attempt' = attempt
    BY <1>5 DEF Blocks
  <2>3. next' \in [Jobs -> Nat \ {0}] /\ phase' \in [Jobs -> Phases]
    BY <2>2 DEF StateTypeOK, Phases
  <2>4. ASSUME NEW l \in Jobs, phase'[l] = "waiting"
        PROVE  next'[l] \in 1..Len(Needs[l])
    BY <2>2, <2>4 DEF StateTypeOK
  <2>5. QED
    BY <1>2, <1>3, <2>1, <2>2, <2>3, <2>4 DEF StateTypeOK
<1>6. QED
  BY <1>2, <1>4, <1>5

\* Giving back lowers the counts, to zero at least.
LEMMA ReleaseKeeps ==
  ASSUME ResourceAssumption, StateTypeOK, UsedWithinLimit,
         NEW amount \in [Resources -> Nat], Release(amount)
  PROVE  used' \in [Resources -> Nat] /\ UsedWithinLimit'
<1>1. ASSUME NEW r \in Resources
      PROVE  used'[r] \in Nat /\ used'[r] <= used[r]
  BY DEF Release, StateTypeOK
<1>2. used' \in [Resources -> Nat]
  BY <1>1 DEF Release
<1>3. ASSUME NEW r \in Limited
      PROVE  used'[r] <= Avail[r]
  <2>1. r \in Resources /\ Avail[r] \in Nat /\ used[r] \in Nat /\ used[r] <= Avail[r]
    BY DEF Limited, ResourceAssumption, StateTypeOK, UsedWithinLimit
  <2>2. QED
    BY <1>1, <2>1
<1>4. QED
  BY <1>2, <1>3 DEF UsedWithinLimit

LEMMA StepKeeps ==
  ASSUME ResourceAssumption, StateTypeOK, UsedWithinLimit, [Next]_vars
  PROVE  StateTypeOK' /\ UsedWithinLimit'
<1>1. ASSUME NEW j \in Jobs, Acquire(j) \/ Retry(j)
      PROVE  StateTypeOK' /\ UsedWithinLimit'
  <2>1. 1 \in 1..Len(Needs[j]) /\ reserved[j] \in [Resources -> Nat]
    BY DEF ResourceAssumption, StateTypeOK
  <2>2. [r \in Resources |-> 0] \in [Resources -> Nat]
    OBVIOUS
  <2>3. QED
    BY <1>1, <2>1, <2>2, ReserveKeeps DEF Acquire, Retry
<1>2. ASSUME NEW j \in Jobs, Granted(j)
      PROVE  StateTypeOK' /\ UsedWithinLimit'
  <2>1. next[j] \in 1..Len(Needs[j]) /\ reserved[j] \in [Resources -> Nat]
    BY <1>2 DEF Granted, StateTypeOK
  <2>2. QED
    BY <1>2, <2>1, ReserveKeeps DEF Granted
<1>3. ASSUME NEW j \in Jobs, TimesOut(j)
      PROVE  StateTypeOK' /\ UsedWithinLimit'
  <2>1. reserved[j] \in [Resources -> Nat]
    BY DEF StateTypeOK
  <2>2. used' \in [Resources -> Nat] /\ UsedWithinLimit'
    BY <1>3, <2>1, ReleaseKeeps DEF TimesOut
  <2>3. QED
    BY <1>3, <2>2 DEF TimesOut, StateTypeOK, Phases
<1>4. ASSUME NEW j \in Jobs, Returns(j), NEW p \in Phases \ {"waiting"},
             phase' = [phase EXCEPT ![j] = p],
             used' \in [Resources -> Nat], UsedWithinLimit'
      PROVE  StateTypeOK' /\ UsedWithinLimit'
  <2>1. \A l \in Jobs : phase'[l] = "waiting" => l # j /\ phase[l] = "waiting"
    BY <1>4 DEF StateTypeOK
  <2>2. QED
    BY <1>4, <2>1, ReturnsKeeps DEF StateTypeOK
<1>5. ASSUME NEW j \in Jobs, GiveUp(j)
      PROVE  StateTypeOK' /\ UsedWithinLimit'
  <2>1. used' \in [Resources -> Nat] /\ UsedWithinLimit'
    BY <1>5 DEF GiveUp, StateTypeOK, UsedWithinLimit
  <2>2. QED
    BY <1>4, <1>5, <2>1 DEF GiveUp, Phases
<1>6. ASSUME NEW j \in Jobs, Finish(j)
      PROVE  StateTypeOK' /\ UsedWithinLimit'
  <2>1. [r \in Resources |-> Count(j, r, 1, Len(Needs[j]))] \in [Resources -> Nat]
    BY OccurrencesFinite DEF ResourceAssumption
  <2>2. used' \in [Resources -> Nat] /\ UsedWithinLimit'
    BY <1>6, <2>1, ReleaseKeeps DEF Finish
  <2>3. QED
    BY <1>4, <1>6, <2>2 DEF Finish, Phases
<1>7. CASE UNCHANGED vars
  BY <1>7 DEF vars, StateTypeOK, UsedWithinLimit
<1>8. QED
  BY <1>1, <1>2, <1>3, <1>5, <1>6, <1>7 DEF Next, JobStep

\* The parts of the type invariant are inductive together.
LEMMA CountsWithinLimits == Spec => [](StateTypeOK /\ UsedWithinLimit)
<1>1. ResourceAssumption
  BY ResourceAssumption
<1>2. Init => StateTypeOK /\ UsedWithinLimit
  BY <1>1 DEF Init, StateTypeOK, Phases, UsedWithinLimit, Limited, ResourceAssumption
<1>3. StateTypeOK /\ UsedWithinLimit /\ [Next]_vars => (StateTypeOK /\ UsedWithinLimit)'
  BY <1>1, StepKeeps
<1>4. QED
  BY <1>2, <1>3, PTL DEF Spec

\* Whatever is given back twice, no count passes its limit and none goes below zero;
\* and a job that waits, waits for a position of its list.
\* Code: reserve() counts only below avail, release() stops at zero.
THEOREM ResourceTypeCorrect == Spec => []TypeOK
<1>1. StateTypeOK /\ UsedWithinLimit => TypeOK
  BY DEF TypeOK
<1>2. QED
  BY <1>1, CountsWithinLimits, PTL

-----------------------------------------------------------------------------
(* Resources that are reserved last.                                       *)

\* The invariant: the count of such a resource is the number of jobs that hold
\* it, and no list of what has been reserved has it.
Counted(r) ==
  used[r] = Cardinality(Holders(r)) /\ \A j \in Jobs : reserved[j][r] = 0

LastsCounted == \A r \in Limited : TakenLast(r) => Counted(r)

Uses(j, r) == \E p \in 1..Len(Needs[j]) : Needs[j][p] = r

\* A job that needs such a resource has reserved it when it is past its last position,
\* and not before.
LEMMA CountUses ==
  ASSUME ResourceAssumption, NEW r, TakenLast(r), NEW j \in Jobs, NEW i \in 1..Len(Needs[j])
  PROVE  /\ Uses(j, r) => Count(j, r, i, Len(Needs[j])) = 1
         /\ ~Uses(j, r) => Count(j, r, i, Len(Needs[j])) = 0
         /\ \A k \in Int : k < Len(Needs[j]) => Count(j, r, i, k) = 0
<1>1. Len(Needs[j]) \in Nat
  BY DEF ResourceAssumption
<1>2. \A p \in 1..Len(Needs[j]) : Needs[j][p] = r => p = Len(Needs[j])
  BY DEF TakenLast
<1>3. ASSUME Uses(j, r)
      PROVE  Count(j, r, i, Len(Needs[j])) = 1
  <2>1. Occurrences(j, r, i, Len(Needs[j])) = {Len(Needs[j])}
    BY <1>1, <1>2, <1>3 DEF Occurrences, Uses
  <2>2. QED
    BY <2>1, FS_Singleton DEF Count, Occurrences
<1>4. ASSUME ~Uses(j, r)
      PROVE  Count(j, r, i, Len(Needs[j])) = 0
  <2>1. Occurrences(j, r, i, Len(Needs[j])) = {}
    BY <1>1, <1>4 DEF Occurrences, Uses
  <2>2. QED
    BY <2>1, FS_EmptySet DEF Count, Occurrences
<1>5. ASSUME NEW k \in Int, k < Len(Needs[j])
      PROVE  Count(j, r, i, k) = 0
  <2>1. Occurrences(j, r, i, k) = {}
    BY <1>1, <1>2, <1>5 DEF Occurrences
  <2>2. QED
    BY <2>1, FS_EmptySet DEF Count, Occurrences
<1>6. QED
  BY <1>3, <1>4, <1>5

LEMMA HoldersFinite ==
  ASSUME ResourceAssumption, NEW r
  PROVE  /\ Holders(r) = {j \in Jobs : phase[j] = "holding" /\ Uses(j, r)}
         /\ Holders(r)' = {j \in Jobs : phase'[j] = "holding" /\ Uses(j, r)}
         /\ IsFiniteSet(Holders(r))
         /\ Cardinality(Holders(r)) \in Nat
<1>1. /\ Holders(r) = {j \in Jobs : phase[j] = "holding" /\ Uses(j, r)}
      /\ Holders(r)' = {j \in Jobs : phase'[j] = "holding" /\ Uses(j, r)}
  BY DEF Holders, Uses
<1>2. IsFiniteSet(Holders(r))
  BY <1>1, FS_Subset DEF ResourceAssumption
<1>3. QED
  BY <1>1, <1>2, FS_CardinalityType

\* The holders after a step of j that changes its phase to p: the same if j does
\* not use r, or neither held nor holds;
LEMMA HoldersSame ==
  ASSUME ResourceAssumption, StateTypeOK, NEW r, NEW j \in Jobs, NEW p,
         phase' = [phase EXCEPT ![j] = p],
         ~Uses(j, r) \/ (p # "holding" /\ phase[j] # "holding")
  PROVE  Holders(r)' = Holders(r)
<1>1. Holders(r) = {l \in Jobs : phase[l] = "holding" /\ Uses(l, r)}
  BY HoldersFinite
<1>2. Holders(r)' = {l \in Jobs : phase'[l] = "holding" /\ Uses(l, r)}
  BY HoldersFinite
<1>3. \A l \in Jobs : phase'[l] = IF l = j THEN p ELSE phase[l]
  BY DEF StateTypeOK
<1>4. \A l \in Jobs : phase'[l] = "holding" /\ Uses(l, r)
                        <=> phase[l] = "holding" /\ Uses(l, r)
  BY <1>3
<1>5. QED
  BY <1>1, <1>2, <1>4

\* one more if j starts to hold r;
LEMMA HoldersJoin ==
  ASSUME ResourceAssumption, StateTypeOK, NEW r, NEW j \in Jobs,
         phase' = [phase EXCEPT ![j] = "holding"], phase[j] # "holding", Uses(j, r)
  PROVE  Cardinality(Holders(r)') = Cardinality(Holders(r)) + 1
<1>1. Holders(r) = {l \in Jobs : phase[l] = "holding" /\ Uses(l, r)}
  BY HoldersFinite
<1>2. Holders(r)' = {l \in Jobs : phase'[l] = "holding" /\ Uses(l, r)}
  BY HoldersFinite
<1>3. \A l \in Jobs : phase'[l] = IF l = j THEN "holding" ELSE phase[l]
  BY DEF StateTypeOK
<1>4. Holders(r)' = Holders(r) \cup {j} /\ j \notin Holders(r)
  BY <1>1, <1>2, <1>3
<1>5. QED
  BY <1>4, HoldersFinite, FS_AddElement

\* one less if it stops.
LEMMA HoldersLeave ==
  ASSUME ResourceAssumption, StateTypeOK, NEW r, NEW j \in Jobs, NEW p, p # "holding",
         phase' = [phase EXCEPT ![j] = p], phase[j] = "holding", Uses(j, r)
  PROVE  /\ Cardinality(Holders(r)') = Cardinality(Holders(r)) - 1
         /\ Cardinality(Holders(r)) # 0
<1>1. Holders(r) = {l \in Jobs : phase[l] = "holding" /\ Uses(l, r)}
  BY HoldersFinite
<1>2. Holders(r)' = {l \in Jobs : phase'[l] = "holding" /\ Uses(l, r)}
  BY HoldersFinite
<1>3. \A l \in Jobs : phase'[l] = IF l = j THEN p ELSE phase[l]
  BY DEF StateTypeOK
<1>4. Holders(r)' = Holders(r) \ {j} /\ j \in Holders(r)
  BY <1>1, <1>2, <1>3
<1>5. QED
  BY <1>4, HoldersFinite, FS_RemoveElement, FS_EmptySet

LEMMA ReturnsCounted ==
  ASSUME StateTypeOK, NEW r \in Resources, \A l \in Jobs : reserved[l][r] = 0,
         NEW j \in Jobs, Returns(j)
  PROVE  \A l \in Jobs : reserved'[l][r] = 0
BY DEF Returns, StateTypeOK

\* Reserving makes the job a holder and counts it, or leaves both as they are.
LEMMA ReserveCounted ==
  ASSUME ResourceAssumption, StateTypeOK, NEW r \in Limited, TakenLast(r), Counted(r),
         NEW j \in Jobs, phase[j] # "holding", NEW i \in 1..Len(Needs[j]),
         NEW old \in [Resources -> Nat], old[r] = 0, ReserveFrom(j, i, old)
  PROVE  Counted(r)'
<1>1. PICK k : k = StopAt(j, i)
  OBVIOUS
<1>2. /\ r \in Resources /\ used[r] \in Nat /\ used[r] = Cardinality(Holders(r))
      /\ \A l \in Jobs : reserved[l][r] = 0
      /\ Len(Needs[j]) \in Nat
  BY DEF Limited, StateTypeOK, Counted, ResourceAssumption
<1>3. /\ used'[r] = used[r] + Count(j, r, i, k - 1)
      /\ k \in i..(Len(Needs[j]) + 1)
      /\ Got(j, k) \/ Blocks(j, i, k, old)
  BY <1>1, ReserveEffect
<1>4. CASE Got(j, k)
  <2>1. /\ k > Len(Needs[j]) /\ phase' = [phase EXCEPT ![j] = "holding"]
        /\ Returns(j)
    BY <1>4 DEF Got
  <2>2. \A l \in Jobs : reserved'[l][r] = 0
    BY <1>2, <2>1, ReturnsCounted
  <2>3. k - 1 = Len(Needs[j])
    <3>1. k \in i..(Len(Needs[j]) + 1) /\ i \in Int /\ k > Len(Needs[j]) /\ Len(Needs[j]) \in Nat
      BY <1>2, <1>3, <2>1
    <3>2. QED
      BY <3>1
  <2>4. CASE Uses(j, r)
    <3>1. Count(j, r, i, k - 1) = 1
      BY <2>3, <2>4, CountUses
    <3>2. Cardinality(Holders(r)') = Cardinality(Holders(r)) + 1
      BY <2>1, <2>4, HoldersJoin
    <3>3. QED
      BY <1>2, <1>3, <2>2, <3>1, <3>2 DEF Counted
  <2>5. CASE ~Uses(j, r)
    <3>1. Count(j, r, i, k - 1) = 0
      BY <2>3, <2>5, CountUses
    <3>2. Holders(r)' = Holders(r)
      BY <2>1, <2>5, HoldersSame
    <3>3. QED
      BY <1>2, <1>3, <2>2, <3>1, <3>2 DEF Counted
  <2>6. QED
    BY <2>4, <2>5
<1>5. CASE Blocks(j, i, k, old)
  <2>1. k \in 1..Len(Needs[j]) /\ phase' = [phase EXCEPT ![j] = "waiting"]
    BY <1>5 DEF Blocks
  <2>2. Count(j, r, i, k - 1) = 0
    BY <1>2, <2>1, CountUses
  <2>3. \A l \in Jobs : reserved'[l][r] = 0
    BY <1>2, <1>5, <2>2 DEF StateTypeOK, Blocks
  <2>4. Holders(r)' = Holders(r)
    BY <2>1, HoldersSame
  <2>5. QED
    BY <1>2, <1>3, <2>2, <2>3, <2>4 DEF Counted
<1>6. QED
  BY <1>3, <1>4, <1>5

LEMMA FinishCounted ==
  ASSUME ResourceAssumption, StateTypeOK, NEW r \in Limited, TakenLast(r), Counted(r),
         NEW j \in Jobs, Finish(j)
  PROVE  Counted(r)'
<1>1. /\ r \in Resources /\ used[r] \in Nat /\ used[r] = Cardinality(Holders(r))
      /\ \A l \in Jobs : reserved[l][r] = 0
      /\ Len(Needs[j]) \in Nat /\ 1 \in 1..Len(Needs[j])
  BY DEF Limited, StateTypeOK, Counted, ResourceAssumption
<1>2. /\ phase[j] = "holding" /\ phase' = [phase EXCEPT ![j] = "idle"] /\ Returns(j)
      /\ used'[r] = LET c == Count(j, r, 1, Len(Needs[j]))
                    IN  IF c >= used[r] THEN 0 ELSE used[r] - c
  BY <1>1 DEF Finish, Release
<1>3. \A l \in Jobs : reserved'[l][r] = 0
  BY <1>1, <1>2, ReturnsCounted
<1>4. CASE Uses(j, r)
  <2>1. Count(j, r, 1, Len(Needs[j])) = 1
    BY <1>1, <1>4, CountUses
  <2>2. /\ Cardinality(Holders(r)') = Cardinality(Holders(r)) - 1
        /\ Cardinality(Holders(r)) # 0
    BY <1>2, <1>4, HoldersLeave
  <2>3. QED
    BY <1>1, <1>2, <1>3, <2>1, <2>2 DEF Counted
<1>5. CASE ~Uses(j, r)
  <2>1. Count(j, r, 1, Len(Needs[j])) = 0
    BY <1>1, <1>5, CountUses
  <2>2. Holders(r)' = Holders(r)
    BY <1>2, <1>5, HoldersSame
  <2>3. QED
    BY <1>1, <1>2, <1>3, <2>1, <2>2 DEF Counted
<1>6. QED
  BY <1>4, <1>5

LEMMA StepCounted ==
  ASSUME ResourceAssumption, StateTypeOK, NEW r \in Limited, TakenLast(r), Counted(r), [Next]_vars
  PROVE  Counted(r)'
<1>1. /\ r \in Resources /\ used[r] \in Nat /\ \A l \in Jobs : reserved[l][r] = 0
      /\ reserved \in [Jobs -> [Resources -> Nat]]
  BY DEF Limited, StateTypeOK, Counted
<1>2. ASSUME NEW j \in Jobs, Acquire(j) \/ Retry(j)
      PROVE  Counted(r)'
  <2>1. phase[j] # "holding" /\ 1 \in 1..Len(Needs[j])
    BY <1>2 DEF Acquire, Retry, ResourceAssumption
  <2>2. \/ ReserveFrom(j, 1, [q \in Resources |-> 0])
        \/ ReserveFrom(j, 1, reserved[j])
    BY <1>2 DEF Acquire, Retry
  <2>3. PICK old \in [Resources -> Nat] : old[r] = 0 /\ ReserveFrom(j, 1, old)
    BY <1>1, <2>2
  <2>4. QED
    BY <2>1, <2>3, ReserveCounted
<1>3. ASSUME NEW j \in Jobs, Granted(j)
      PROVE  Counted(r)'
  <2>1. /\ phase[j] # "holding" /\ next[j] \in 1..Len(Needs[j])
        /\ reserved[j] \in [Resources -> Nat] /\ reserved[j][r] = 0
    BY <1>1, <1>3 DEF Granted, StateTypeOK
  <2>2. QED
    BY <1>3, <2>1, ReserveCounted DEF Granted
<1>4. ASSUME NEW j \in Jobs, TimesOut(j)
      PROVE  Counted(r)'
  <2>1. phase[j] = "waiting" /\ phase' = [phase EXCEPT ![j] = "sleeping"] /\ reserved' = reserved
    BY <1>4 DEF TimesOut
  <2>2. used'[r] = used[r]
    BY <1>1, <1>4 DEF TimesOut, Release
  <2>3. Holders(r)' = Holders(r)
    BY <2>1, HoldersSame
  <2>4. QED
    BY <2>1, <2>2, <2>3 DEF Counted
<1>5. ASSUME NEW j \in Jobs, GiveUp(j)
      PROVE  Counted(r)'
  <2>1. /\ phase[j] = "sleeping" /\ phase' = [phase EXCEPT ![j] = "failed"]
        /\ Returns(j) /\ used' = used
    BY <1>5 DEF GiveUp
  <2>2. \A l \in Jobs : reserved'[l][r] = 0
    BY <1>1, <2>1, ReturnsCounted
  <2>3. Holders(r)' = Holders(r)
    BY <2>1, HoldersSame
  <2>4. QED
    BY <2>1, <2>2, <2>3 DEF Counted
<1>6. CASE UNCHANGED vars
  BY <1>6 DEF vars, Counted, Holders
<1>7. QED
  BY <1>2, <1>3, <1>4, <1>5, <1>6, FinishCounted DEF Next, JobStep

\* Of a resource that jobs only ever reserve last, as every script does "default", no
\* more of them than the limit run at once: no list of what has been reserved holds it
\* when its job blocks, so nothing gives it back a second time.
THEOREM LastLimits == Spec => []LastLimitRespected
<1>1. ResourceAssumption
  BY ResourceAssumption
<1>2. Init => LastsCounted
  <2> SUFFICES ASSUME Init PROVE LastsCounted
    OBVIOUS
  <2>1. \A r : Holders(r) = {}
    BY DEF Init, Holders
  <2>2. QED
    BY <2>1, FS_EmptySet DEF Init, LastsCounted, Counted, Limited
<1>3. StateTypeOK /\ LastsCounted /\ [Next]_vars => LastsCounted'
  <2> SUFFICES ASSUME StateTypeOK, LastsCounted, [Next]_vars, NEW r \in Limited, TakenLast(r)
               PROVE  Counted(r)'
    BY DEF LastsCounted
  <2>1. QED
    BY <1>1, StepCounted DEF LastsCounted
<1>4. LastsCounted /\ UsedWithinLimit => LastLimitRespected
  BY DEF LastsCounted, Counted, UsedWithinLimit, LastLimitRespected
<1>5. QED
  BY <1>2, <1>3, <1>4, CountsWithinLimits, PTL DEF Spec

-----------------------------------------------------------------------------
(* No unit that is free stays counted.                                     *)

\* The last position of j's list that it has reserved, 0 if it has none.
HeldTo(j) ==
  CASE phase[j] = "holding" -> Len(Needs[j])
    [] phase[j] = "waiting" -> next[j] - 1
    [] OTHER                -> 0

\* The units of r that are held, each by its job and its position.
UnitsOf(j, h, r) == {j} \X Occurrences(j, r, 1, h)

Units(r) == {u \in Jobs \X Nat : u[2] \in 1..HeldTo(u[1]) /\ Needs[u[1]][u[2]] = r}

\* The invariant: the count of r is at most the number of its units that are held.  It
\* may be less, since units are given back twice; but never as long as the list of a
\* job that waits has every unit that the job has reserved.
LeakOf(r) ==
  /\ IsFiniteSet(Units(r))
  /\ used[r] <= Cardinality(Units(r))
  /\ \A j \in Jobs : phase[j] = "waiting" => reserved[j][r] >= Count(j, r, 1, next[j] - 1)

LeakInv == \A r \in Limited : LeakOf(r)

LEMMA HeldToType ==
  ASSUME ResourceAssumption, StateTypeOK, NEW j \in Jobs
  PROVE  /\ HeldTo(j) \in 0..Len(Needs[j]) /\ Len(Needs[j]) \in Nat
         /\ \A r : Held(j, r) = Count(j, r, 1, HeldTo(j))
<1>1. Len(Needs[j]) \in Nat
  BY DEF ResourceAssumption
<1>2. CASE phase[j] = "holding"
  BY <1>1, <1>2 DEF HeldTo, Held
<1>3. CASE phase[j] = "waiting"
  BY <1>1, <1>3 DEF HeldTo, Held, StateTypeOK
<1>4. CASE phase[j] \notin {"holding", "waiting"}
  <2>1. \A r : Occurrences(j, r, 1, 0) = {}
    BY DEF Occurrences
  <2>2. \A r : Count(j, r, 1, 0) = 0
    BY <2>1, OccurrencesFinite, FS_EmptySet
  <2>3. QED
    BY <1>1, <1>4, <2>2 DEF HeldTo, Held
<1>5. QED
  BY <1>2, <1>3, <1>4

\* The units of one job beside those of others.
LEMMA JoinUnits ==
  ASSUME NEW O, IsFiniteSet(O), NEW j, \A u \in O : u[1] # j, NEW h \in Int, NEW r
  PROVE  /\ IsFiniteSet(O \cup UnitsOf(j, h, r))
         /\ Cardinality(O \cup UnitsOf(j, h, r)) = Cardinality(O) + Count(j, r, 1, h)
         /\ Cardinality(O) \in Nat
<1> DEFINE J == {j}
           S == Occurrences(j, r, 1, h)
           U == J \X S
<1>1. IsFiniteSet(J) /\ Cardinality(J) = 1
  BY FS_Singleton
<1>2. IsFiniteSet(S) /\ Cardinality(S) = Count(j, r, 1, h) /\ Cardinality(S) \in Nat
  BY OccurrencesFinite
<1>3. O \cap U = {}
  OBVIOUS
<1>4. IsFiniteSet(U) /\ Cardinality(U) = Cardinality(J) * Cardinality(S)
  <2> HIDE DEF J, S
  <2>1. QED
    BY <1>1, <1>2, FS_Product
<1>5. Cardinality(U) = Count(j, r, 1, h)
  BY <1>1, <1>2, <1>4
<1>6. UnitsOf(j, h, r) = U
  BY DEF UnitsOf
<1> HIDE DEF U
<1>7. Cardinality(O \cap U) = 0
  BY <1>3, FS_EmptySet
<1>8. Cardinality(O) \in Nat /\ Cardinality(U) \in Nat
  BY <1>4, FS_CardinalityType
<1>9. /\ IsFiniteSet(O \cup U)
      /\ Cardinality(O \cup U) = Cardinality(O) + Cardinality(U) - Cardinality(O \cap U)
  BY <1>4, FS_Union
<1>10. QED
  BY <1>5, <1>6, <1>7, <1>8, <1>9

\* Reserving from position i to k adds to what was reserved before i.
LEMMA CountAdds ==
  ASSUME NEW j, NEW r, NEW i \in Nat \ {0}, NEW k \in Nat, i <= k
  PROVE  Count(j, r, 1, k - 1) = Count(j, r, 1, i - 1) + Count(j, r, i, k - 1)
<1> DEFINE A == Occurrences(j, r, 1, i - 1)
           B == Occurrences(j, r, i, k - 1)
<1>1. A \cap B = {} /\ Occurrences(j, r, 1, k - 1) = A \cup B
  BY DEF Occurrences
<1>2. i - 1 \in Int /\ k - 1 \in Int /\ i \in Int /\ 1 \in Int
  OBVIOUS
<1>3. /\ IsFiniteSet(A)
      /\ Cardinality(A) = Count(j, r, 1, i - 1) /\ Count(j, r, 1, i - 1) \in Nat
  BY <1>2, OccurrencesFinite
<1>4. /\ IsFiniteSet(B)
      /\ Cardinality(B) = Count(j, r, i, k - 1) /\ Count(j, r, i, k - 1) \in Nat
  BY <1>2, OccurrencesFinite
<1>5. Cardinality(A \cup B) = Count(j, r, 1, k - 1)
  BY <1>1, <1>2, OccurrencesFinite
<1> HIDE DEF A, B
<1>6. Cardinality(A \cap B) = 0
  BY <1>1, FS_EmptySet
<1>7. Cardinality(A \cup B) = Cardinality(A) + Cardinality(B) - Cardinality(A \cap B)
  BY <1>3, <1>4, FS_Union
<1>8. QED
  BY <1>3, <1>4, <1>5, <1>6, <1>7

\* A step that changes what one job holds changes the number of units by that.
LEMMA UnitsChange ==
  ASSUME ResourceAssumption, StateTypeOK, StateTypeOK', NEW r, IsFiniteSet(Units(r)), NEW j \in Jobs,
         \A l \in Jobs : l # j => phase'[l] = phase[l] /\ next'[l] = next[l]
  PROVE  /\ IsFiniteSet(Units(r)')
         /\ Cardinality(Units(r)') - Count(j, r, 1, HeldTo(j)')
              = Cardinality(Units(r)) - Count(j, r, 1, HeldTo(j))
         /\ Cardinality(Units(r)) >= Count(j, r, 1, HeldTo(j))
         /\ Cardinality(Units(r)) \in Nat /\ Cardinality(Units(r)') \in Nat
<1> DEFINE O == {u \in Units(r) : u[1] # j}
<1>1. HeldTo(j) \in Int /\ HeldTo(j)' \in Int
  <2>1. HeldTo(j) \in Int
    BY HeldToType
  <2>2. HeldTo(j)' \in Int
    BY DEF HeldTo, StateTypeOK, ResourceAssumption
  <2>3. QED
    BY <2>1, <2>2
<1>2. \A l \in Jobs : l # j => HeldTo(l)' = HeldTo(l)
  BY DEF HeldTo
<1>3. Units(r) = O \cup UnitsOf(j, HeldTo(j), r)
  BY <1>1 DEF Units, UnitsOf, Occurrences
<1>4. Units(r)' = O \cup UnitsOf(j, HeldTo(j)', r)
  BY <1>1, <1>2 DEF Units, UnitsOf, Occurrences
<1>5. IsFiniteSet(O) /\ \A u \in O : u[1] # j
  BY FS_Subset
<1> HIDE DEF O
<1>6. PICK h, k : h = HeldTo(j) /\ k = HeldTo(j)' /\ h \in Int /\ k \in Int
  BY <1>1
<1>7. ASSUME NEW p \in Int
      PROVE  /\ IsFiniteSet(O \cup UnitsOf(j, p, r))
             /\ Cardinality(O \cup UnitsOf(j, p, r)) = Cardinality(O) + Count(j, r, 1, p)
             /\ Cardinality(O) \in Nat
  BY <1>5, JoinUnits
<1>8. /\ IsFiniteSet(Units(r)) /\ Cardinality(O) \in Nat
      /\ Cardinality(Units(r)) = Cardinality(O) + Count(j, r, 1, h)
  BY <1>3, <1>6, <1>7
<1>9. /\ IsFiniteSet(Units(r)')
      /\ Cardinality(Units(r)') = Cardinality(O) + Count(j, r, 1, k)
  BY <1>4, <1>6, <1>7
<1>10. Count(j, r, 1, h) \in Nat /\ Count(j, r, 1, k) \in Nat
  BY <1>6, OccurrencesFinite
<1>11. QED
  BY <1>6, <1>8, <1>9, <1>10

\* A step of one job leaves the others' lists alone.
OthersSame(j) ==
  \A l \in Jobs : l # j => /\ phase'[l] = phase[l] /\ next'[l] = next[l]
                           /\ reserved'[l] = reserved[l]

LEMMA NothingHeld ==
  ASSUME NEW j, NEW r
  PROVE  Count(j, r, 1, 0) = 0
<1>1. Occurrences(j, r, 1, 0) = {}
  BY DEF Occurrences
<1>2. QED
  BY <1>1, OccurrencesFinite, FS_EmptySet

LEMMA ReserveLeak ==
  ASSUME ResourceAssumption, StateTypeOK, StateTypeOK', NEW r \in Limited, LeakOf(r),
         NEW j \in Jobs, NEW i \in 1..Len(Needs[j]), HeldTo(j) = i - 1,
         NEW old \in [Resources -> Nat], old[r] >= Count(j, r, 1, i - 1),
         ReserveFrom(j, i, old)
  PROVE  LeakOf(r)'
<1>1. PICK k : k = StopAt(j, i)
  OBVIOUS
<1>2. /\ k \in i..(Len(Needs[j]) + 1)
      /\ Count(j, r, i, k - 1) \in Nat
      /\ used'[r] = used[r] + Count(j, r, i, k - 1)
      /\ Got(j, k) \/ Blocks(j, i, k, old)
  BY <1>1, ReserveEffect
<1>3. OthersSame(j)
  BY <1>2 DEF Got, Blocks, Returns, OthersSame, StateTypeOK
<1>4. /\ HeldTo(j)' = k - 1
      /\ phase'[j] = "waiting" =>
           next'[j] = k /\ reserved'[j][r] = old[r] + Count(j, r, i, k - 1)
  <2>1. Len(Needs[j]) \in Nat /\ r \in Resources
    BY DEF ResourceAssumption, Limited
  <2>2. CASE Got(j, k)
    <3>1. phase'[j] = "holding" /\ k > Len(Needs[j])
      BY <2>2 DEF Got, StateTypeOK
    <3>2. k - 1 = Len(Needs[j])
      BY <1>2, <2>1, <3>1
    <3>3. QED
      BY <3>1, <3>2 DEF HeldTo
  <2>3. CASE Blocks(j, i, k, old)
    <3>1. /\ phase'[j] = "waiting" /\ next'[j] = k
          /\ reserved'[j][r] = old[r] + Count(j, r, i, k - 1)
      BY <2>1, <2>3 DEF Blocks, StateTypeOK
    <3>2. QED
      BY <3>1 DEF HeldTo
  <2>4. QED
    BY <1>2, <2>2, <2>3
<1>5. Count(j, r, 1, k - 1) = Count(j, r, 1, i - 1) + Count(j, r, i, k - 1)
  <2>1. Len(Needs[j]) \in Nat
    BY DEF ResourceAssumption
  <2>2. i \in Nat \ {0} /\ k \in Nat /\ i <= k
    BY <1>2, <2>1
  <2>3. QED
    BY <2>2, CountAdds
<1>6. Count(j, r, 1, i - 1) \in Nat
  BY OccurrencesFinite
<1>7. /\ IsFiniteSet(Units(r)')
      /\ Cardinality(Units(r)') - Count(j, r, 1, HeldTo(j)')
           = Cardinality(Units(r)) - Count(j, r, 1, HeldTo(j))
      /\ Cardinality(Units(r)) \in Nat /\ Cardinality(Units(r)') \in Nat
  BY <1>3, UnitsChange DEF OthersSame, LeakOf
<1>8. used'[r] <= Cardinality(Units(r)')
  <2>1. Cardinality(Units(r)') = Cardinality(Units(r)) + Count(j, r, i, k - 1)
    BY <1>2, <1>4, <1>5, <1>6, <1>7
  <2>2. used[r] <= Cardinality(Units(r)) /\ used[r] \in Nat
    BY DEF LeakOf, StateTypeOK, Limited
  <2>3. QED
    BY <1>2, <1>7, <2>1, <2>2
<1>9. ASSUME NEW l \in Jobs, phase'[l] = "waiting"
      PROVE  reserved'[l][r] >= Count(l, r, 1, next'[l] - 1)
  <2>1. CASE l = j
    <3>1. old[r] \in Nat
      BY DEF Limited
    <3>2. QED
      BY <1>2, <1>4, <1>5, <1>6, <1>9, <2>1, <3>1
  <2>2. CASE l # j
    BY <1>3, <1>9, <2>2 DEF OthersSame, LeakOf
  <2>3. QED
    BY <2>1, <2>2
<1>10. QED
  BY <1>7, <1>8, <1>9 DEF LeakOf

\* A job that holds nothing any more has given back what it held at least.
LEMMA ReleaseLeak ==
  ASSUME ResourceAssumption, StateTypeOK, StateTypeOK', NEW r \in Limited, LeakOf(r),
         NEW j \in Jobs, OthersSame(j), phase'[j] \notin {"holding", "waiting"},
         used'[r] = 0 \/ used'[r] <= used[r] - Count(j, r, 1, HeldTo(j))
  PROVE  LeakOf(r)'
<1>1. HeldTo(j)' = 0 /\ Count(j, r, 1, 0) = 0
  BY NothingHeld DEF HeldTo
<1>2. /\ IsFiniteSet(Units(r)')
      /\ Cardinality(Units(r)') - Count(j, r, 1, HeldTo(j)')
           = Cardinality(Units(r)) - Count(j, r, 1, HeldTo(j))
      /\ Cardinality(Units(r)) \in Nat /\ Cardinality(Units(r)') \in Nat
  BY UnitsChange DEF OthersSame, LeakOf
<1>3. HeldTo(j) \in Int
  BY HeldToType
<1>4. Count(j, r, 1, HeldTo(j)) \in Nat
  BY <1>3, OccurrencesFinite
<1>5. used[r] <= Cardinality(Units(r)) /\ used[r] \in Nat /\ used'[r] \in Nat
  BY DEF LeakOf, StateTypeOK, Limited
<1>6. used'[r] <= Cardinality(Units(r)')
  BY <1>1, <1>2, <1>4, <1>5
<1>7. ASSUME NEW l \in Jobs, phase'[l] = "waiting"
      PROVE  reserved'[l][r] >= Count(l, r, 1, next'[l] - 1)
  <2>1. l # j
    BY <1>7
  <2>2. QED
    BY <1>7, <2>1 DEF OthersSame, LeakOf
<1>8. QED
  BY <1>2, <1>6, <1>7 DEF LeakOf

LEMMA StepLeak ==
  ASSUME ResourceAssumption, StateTypeOK, StateTypeOK', NEW r \in Limited, LeakOf(r), [Next]_vars
  PROVE  LeakOf(r)'
<1>1. r \in Resources /\ used[r] \in Nat
  BY DEF Limited, StateTypeOK
<1>2. ASSUME NEW j \in Jobs, Acquire(j) \/ Retry(j)
      PROVE  LeakOf(r)'
  <2>1. /\ 1 \in 1..Len(Needs[j]) /\ HeldTo(j) = 0 /\ Count(j, r, 1, 0) = 0
        /\ 1 - 1 = 0
    BY <1>2, NothingHeld DEF ResourceAssumption, Acquire, Retry, HeldTo
  <2>2. PICK old \in [Resources -> Nat] : ReserveFrom(j, 1, old)
    BY <1>2 DEF Acquire, Retry, StateTypeOK
  <2>3. old[r] \in Nat /\ old[r] >= Count(j, r, 1, 0)
    BY <1>1, <2>1
  <2>4. PICK i \in 1..Len(Needs[j]) : i = 1 /\ i - 1 = 0
    BY <2>1
  <2>5. ReserveFrom(j, i, old) /\ HeldTo(j) = i - 1 /\ old[r] >= Count(j, r, 1, i - 1)
    BY <2>1, <2>2, <2>3, <2>4
  <2>6. QED
    BY <2>5, ReserveLeak
<1>3. ASSUME NEW j \in Jobs, Granted(j)
      PROVE  LeakOf(r)'
  <2>1. /\ phase[j] = "waiting" /\ next[j] \in 1..Len(Needs[j])
        /\ reserved[j] \in [Resources -> Nat] /\ ReserveFrom(j, next[j], reserved[j])
    BY <1>3 DEF Granted, StateTypeOK
  <2>2. HeldTo(j) = next[j] - 1 /\ reserved[j][r] >= Count(j, r, 1, next[j] - 1)
    BY <2>1 DEF HeldTo, LeakOf
  <2>3. QED
    BY <2>1, <2>2, ReserveLeak
<1>4. ASSUME NEW j \in Jobs, TimesOut(j)
      PROVE  LeakOf(r)'
  <2>1. /\ phase[j] = "waiting" /\ phase'[j] = "sleeping" /\ OthersSame(j)
        /\ used'[r] = IF reserved[j][r] >= used[r] THEN 0 ELSE used[r] - reserved[j][r]
    BY <1>1, <1>4 DEF TimesOut, Release, OthersSame, StateTypeOK
  <2>2. HeldTo(j) = next[j] - 1 /\ reserved[j][r] >= Count(j, r, 1, next[j] - 1)
    BY <2>1 DEF HeldTo, LeakOf
  <2>3. reserved[j][r] \in Nat /\ Count(j, r, 1, HeldTo(j)) \in Nat
    <3>1. HeldTo(j) \in Int
      BY HeldToType
    <3>2. QED
      BY <1>1, <3>1, OccurrencesFinite DEF StateTypeOK
  <2>4. used'[r] = 0 \/ used'[r] <= used[r] - Count(j, r, 1, HeldTo(j))
    BY <1>1, <2>1, <2>2, <2>3
  <2>5. QED
    BY <2>1, <2>4, ReleaseLeak
<1>5. ASSUME NEW j \in Jobs, GiveUp(j)
      PROVE  LeakOf(r)'
  <2>1. phase[j] = "sleeping" /\ phase'[j] = "failed" /\ OthersSame(j) /\ used'[r] = used[r]
    BY <1>5 DEF GiveUp, Returns, OthersSame, StateTypeOK
  <2>2. Count(j, r, 1, HeldTo(j)) = 0
    BY <2>1, NothingHeld DEF HeldTo
  <2>3. QED
    BY <1>1, <2>1, <2>2, ReleaseLeak
<1>6. ASSUME NEW j \in Jobs, Finish(j)
      PROVE  LeakOf(r)'
  <2>1. phase[j] = "holding" /\ phase'[j] = "idle" /\ OthersSame(j)
    BY <1>6 DEF Finish, Returns, OthersSame, StateTypeOK
  <2>2. PICK c : c = Count(j, r, 1, HeldTo(j))
    OBVIOUS
  <2>3. HeldTo(j) = Len(Needs[j]) /\ c \in Nat
    BY <2>1, <2>2, HeldToType, OccurrencesFinite DEF HeldTo
  <2>4. used'[r] = IF c >= used[r] THEN 0 ELSE used[r] - c
    BY <1>1, <1>6, <2>2, <2>3 DEF Finish, Release
  <2>5. used'[r] = 0 \/ used'[r] <= used[r] - c
    BY <1>1, <2>3, <2>4
  <2>6. QED
    BY <2>1, <2>2, <2>5, ReleaseLeak
<1>7. CASE UNCHANGED vars
  BY <1>7 DEF vars, LeakOf, Units, HeldTo
<1>8. QED
  BY <1>2, <1>3, <1>4, <1>5, <1>6, <1>7 DEF Next, JobStep

\* A unit that is given back, once or twice, is not lost: the count of a resource that
\* nobody holds is zero, for all lists of resources and every order of grants, timeouts
\* and retries.  Code: max(0, ...) in release(), the list reserved that outlives the
\* attempt, and the finally clause of _run.
THEOREM FreeUnitsCounted == Spec => []NothingLeaks
<1>1. ResourceAssumption
  BY ResourceAssumption
<1>2. Init => LeakInv
  <2> SUFFICES ASSUME Init, NEW r \in Limited
               PROVE  LeakOf(r)
    BY DEF LeakInv
  <2>1. Units(r) = {}
    BY DEF Init, Units, HeldTo
  <2>2. used[r] = 0
    BY DEF Init, Limited
  <2>3. \A j \in Jobs : phase[j] # "waiting"
    BY DEF Init
  <2>4. QED
    BY <2>1, <2>2, <2>3, FS_EmptySet DEF LeakOf
<1>3. StateTypeOK /\ StateTypeOK' /\ LeakInv /\ [Next]_vars => LeakInv'
  BY <1>1, StepLeak DEF LeakInv, Limited
<1>4. StateTypeOK /\ LeakInv => NothingLeaks
  <2> SUFFICES ASSUME StateTypeOK, LeakInv, NEW r \in Limited, \A j \in Jobs : Held(j, r) = 0
               PROVE  used[r] = 0
    BY DEF NothingLeaks
  <2>1. ASSUME NEW j \in Jobs
        PROVE  Occurrences(j, r, 1, HeldTo(j)) = {}
    <3>1. Count(j, r, 1, HeldTo(j)) = 0 /\ HeldTo(j) \in Int
      BY <1>1, HeldToType
    <3>2. QED
      BY <3>1, OccurrencesFinite, FS_EmptySet
  <2>2. Units(r) = {}
    BY <2>1 DEF Units, Occurrences
  <2>3. used[r] <= 0 /\ used[r] \in Nat
    BY <2>2, FS_EmptySet DEF LeakInv, LeakOf, StateTypeOK, Limited
  <2>4. QED
    BY <2>3
<1>5. QED
  BY <1>2, <1>3, <1>4, CountsWithinLimits, PTL DEF Spec
=============================================================================
