----------------------------- MODULE ExecResource -----------------------------
(***************************************************************************)
(* Counted resources (ExecResource) and how jobs acquire several of them   *)
(* (ExecJob._acquire_resources, _release_resources).                       *)
(*                                                                         *)
(* A job reserves its resources one after the other, in the order of its   *)
(* list, and blocks on the first that is used up.  After reserve_timeout   *)
(* seconds it gives back what it has reserved, sleeps and tries again from *)
(* the first, up to a number of attempts.  The list of what it has         *)
(* reserved is kept from one attempt to the next: what was given back      *)
(* stays in it.                                                            *)
(***************************************************************************)
EXTENDS Integers, Sequences, FiniteSets

CONSTANTS
  Jobs,          \* jobs that need resources
  Resources,
  Needs,         \* Needs[j]: j.resources, in order, with repetitions
  Avail,         \* Avail[r]: r.avail, -1 for no limit
  MaxAttempts    \* max_attempts; bound: smaller than the 1000 of the code

ASSUME ResourceAssumption ==
  /\ IsFiniteSet(Jobs)
  /\ Needs \in [Jobs -> Seq(Resources)]
  /\ \A j \in Jobs : Needs[j] # <<>>
  /\ Avail \in [Resources -> Nat \cup {-1}]
  /\ MaxAttempts \in Nat \ {0}

VARIABLES
  used,      \* used[r]: r.used
  phase,     \* phase[j]: what _run of j is doing about resources
  next,      \* next[j]: the position in Needs[j] that j waits for
  reserved,  \* reserved[j][r]: occurrences of r in j's local list reserved
  attempt    \* attempt[j]: failed attempts

vars == <<used, phase, next, reserved, attempt>>

Phases == {"idle", "waiting", "sleeping", "holding", "failed"}

Limited == {r \in Resources : Avail[r] >= 0}

-----------------------------------------------------------------------------
\* How often r is among the positions i..k of j's list.
Count(j, r, i, k) == Cardinality({p \in i..k : Needs[j][p] = r})

\* Slip: one more than the limit.
UsedUpBeyond(j, i, k) ==
  LET r == Needs[j][k] IN
  r \in Limited /\ used[r] + Count(j, r, i, k - 1) > Avail[r]

\* Reserving from position i on without blocking, position k is used up when
\* it is reached.
UsedUp(j, i, k) ==
  LET r == Needs[j][k] IN
  r \in Limited /\ used[r] + Count(j, r, i, k - 1) >= Avail[r]

Stops(j, i) == {k \in i..Len(Needs[j]) : UsedUp(j, i, k)}

\* The first position from i on that blocks, one past the last if none does.
StopAt(j, i) ==
  IF Stops(j, i) = {} THEN Len(Needs[j]) + 1
  ELSE CHOOSE k \in Stops(j, i) : \A l \in Stops(j, i) : k <= l

\* j's call of _acquire_resources is over, and its local variables are gone.
Returns(j) ==
  /\ next' = [next EXCEPT ![j] = 1]
  /\ reserved' = [reserved EXCEPT ![j] = [r \in Resources |-> 0]]
  /\ attempt' = [attempt EXCEPT ![j] = 0]

\* Slip: a job that blocks on its last resource runs.
ReserveFromShort(j, i, old) ==
  LET k == StopAt(j, i) IN
  /\ used' = [r \in Resources |->
                IF r \in Limited THEN used[r] + Count(j, r, i, k - 1) ELSE used[r]]
  /\ \/ k >= Len(Needs[j]) /\ phase' = [phase EXCEPT ![j] = "holding"] /\ Returns(j)
     \/ /\ ~(k >= Len(Needs[j]))
        /\ phase' = [phase EXCEPT ![j] = "waiting"]
        /\ next' = [next EXCEPT ![j] = k]
        /\ reserved' = [reserved EXCEPT ![j] =
                           [r \in Resources |-> old[r] + Count(j, r, i, k - 1)]]
        /\ UNCHANGED attempt

\* The loop over the resources from position i to where it blocks or ends;
\* old is the list reserved so far.
ReserveFrom(j, i, old) ==
  LET k == StopAt(j, i) IN
  /\ used' = [r \in Resources |->
                IF r \in Limited THEN used[r] + Count(j, r, i, k - 1) ELSE used[r]]
  /\ \/ k > Len(Needs[j]) /\ phase' = [phase EXCEPT ![j] = "holding"] /\ Returns(j)
     \/ /\ ~(k > Len(Needs[j]))
        /\ phase' = [phase EXCEPT ![j] = "waiting"]
        /\ next' = [next EXCEPT ![j] = k]
        /\ reserved' = [reserved EXCEPT ![j] =
                           [r \in Resources |-> old[r] + Count(j, r, i, k - 1)]]
        /\ UNCHANGED attempt

\* release() of every r in a list that has r amount[r] times.
Release(amount) ==
  used' = [r \in Resources |->
             IF r \notin Limited THEN used[r]
             ELSE IF amount[r] >= used[r] THEN 0 ELSE used[r] - amount[r]]

-----------------------------------------------------------------------------
Init ==
  /\ used = [r \in Resources |-> 0]
  /\ phase = [j \in Jobs |-> "idle"]
  /\ next = [j \in Jobs |-> 1]
  /\ reserved = [j \in Jobs |-> [r \in Resources |-> 0]]
  /\ attempt = [j \in Jobs |-> 0]

\* _run calls _acquire_resources: of a job started first or rescheduled.
Acquire(j) ==
  /\ phase[j] \in {"idle", "failed"}
  /\ ReserveFrom(j, 1, [r \in Resources |-> 0])

\* reserve() returns True to a job that waited, which goes on with the others.
Granted(j) ==
  /\ phase[j] = "waiting"
  /\ ~UsedUp(j, next[j], next[j])
  /\ ReserveFrom(j, next[j], reserved[j])

\* Slip: what is reserved is kept while sleeping.
TimesOutKeeping(j) ==
  /\ phase[j] = "waiting"
  /\ attempt' = [attempt EXCEPT ![j] = @ + 1]
  /\ phase' = [phase EXCEPT ![j] = "sleeping"]
  /\ UNCHANGED <<used, next, reserved>>

\* Slip: a job that holds something waits without a timeout.
TimesOutEmptyHanded(j) ==
  /\ phase[j] = "waiting"
  /\ \A r \in Resources : reserved[j][r] = 0
  /\ attempt' = [attempt EXCEPT ![j] = @ + 1]
  /\ phase' = [phase EXCEPT ![j] = "sleeping"]
  /\ UNCHANGED <<used, next, reserved>>

\* reserve() returns False: give back and sleep.
TimesOut(j) ==
  /\ phase[j] = "waiting"
  /\ Release(reserved[j])
  /\ attempt' = [attempt EXCEPT ![j] = @ + 1]
  /\ phase' = [phase EXCEPT ![j] = "sleeping"]
  /\ UNCHANGED <<next, reserved>>

Retry(j) ==
  /\ phase[j] = "sleeping"
  /\ attempt[j] < MaxAttempts
  /\ ReserveFrom(j, 1, reserved[j])

GiveUp(j) ==
  /\ phase[j] = "sleeping"
  /\ attempt[j] >= MaxAttempts
  /\ phase' = [phase EXCEPT ![j] = "failed"]
  /\ Returns(j)
  /\ UNCHANGED used

\* The script is over: the finally clause of _run.
Finish(j) ==
  /\ phase[j] = "holding"
  /\ Release([r \in Resources |-> Count(j, r, 1, Len(Needs[j]))])
  /\ phase' = [phase EXCEPT ![j] = "idle"]
  /\ Returns(j)

JobStep(j) ==
  Acquire(j) \/ Granted(j) \/ TimesOut(j) \/ Retry(j) \/ GiveUp(j) \/ Finish(j)

Next == \E j \in Jobs : JobStep(j)

Spec == Init /\ [][Next]_vars

-----------------------------------------------------------------------------
(* Fairness: a job that waits is granted or timed out, sleeps end, and the *)
(* scripts that hold resources exit.  Nothing obliges anyone to start.     *)
FairSpec ==
  /\ Spec
  /\ \A j \in Jobs : /\ WF_vars(Granted(j))
                    /\ WF_vars(Granted(j) \/ TimesOut(j))
                    /\ WF_vars(Retry(j) \/ GiveUp(j))
                    /\ WF_vars(Finish(j))

-----------------------------------------------------------------------------
StateTypeOK ==
  /\ used \in [Resources -> Nat]
  /\ phase \in [Jobs -> Phases]
  /\ next \in [Jobs -> Nat \ {0}]
  /\ \A j \in Jobs : phase[j] = "waiting" => next[j] \in 1..Len(Needs[j])
  /\ reserved \in [Jobs -> [Resources -> Nat]]
  /\ attempt \in [Jobs -> Nat]

UsedWithinLimit == \A r \in Limited : used[r] <= Avail[r]

\* A resource's count never passes its limit, whatever is given back twice, and
\* a job that waits, waits for a position of its list.
TypeOK == StateTypeOK /\ UsedWithinLimit

\* The jobs that run while they hold resource r.
Holders(r) ==
  {j \in Jobs : phase[j] = "holding" /\ \E p \in 1..Len(Needs[j]) : Needs[j][p] = r}

\* "if rcubic.xml has a limit of 2 on that resource, only 2 such jobs will be able
\* to run at once" (README.rst:250).
LimitRespected == \A r \in Limited : Cardinality(Holders(r)) <= Avail[r]

\* r is only ever the last that a job reserves, and reserved once, as "default" is,
\* which is put behind the resources of every script's header.
TakenLast(r) ==
  \A j \in Jobs : \A p \in 1..Len(Needs[j]) : Needs[j][p] = r => p = Len(Needs[j])

\* No more jobs than the limit run at once that need such a resource: what is given
\* back twice is what a job had reserved when it blocked on a later one.
LastLimitRespected ==
  \A r \in Limited : TakenLast(r) => Cardinality(Holders(r)) <= Avail[r]

\* The units of r that j has reserved and not given back.
Held(j, r) ==
  CASE phase[j] = "holding" -> Count(j, r, 1, Len(Needs[j]))
    [] phase[j] = "waiting" -> Count(j, r, 1, next[j] - 1)
    [] OTHER                -> 0

\* A unit that is free is not lost: a resource nobody holds has a count of zero.
\* Code: the max(0, ...) in release() and the finally clause of _run.
NothingLeaks ==
  \A r \in Limited : (\A j \in Jobs : Held(j, r) = 0) => used[r] = 0

\* Waiting ends: jobs that hold one resource each and wait for the other's do
\* not block one another for ever.
WaitingEnds ==
  \A j \in Jobs : phase[j] = "waiting" ~> phase[j] \in {"holding", "failed"}
=============================================================================
