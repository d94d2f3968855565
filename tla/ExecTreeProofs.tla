---------------------------- MODULE ExecTreeProofs ----------------------------
(***************************************************************************)
(* Proofs about ExecTree.  For every tree: its type invariant, no wake-up  *)
(* and no completion is missed, one greenlet per job of the tree itself,   *)
(* cancelling stops starts.  For every flat tree: one execution at a time, *)
(* and a RUNNING job has a greenlet.  The same for a tree with iterated    *)
(* subtrees that nobody overrides, and that all its iterations are run.    *)
(* For both: jobs run in the order of the dependencies.                    *)
(***************************************************************************)
EXTENDS ExecTree, Positions, TLAPS

-----------------------------------------------------------------------------
(* Lemmas about the operators.                                             *)

\* A greenlet that waits in places and index waited for the same dependency
\* before the step.
StillWaits(places, index) ==
  \A j \in Jobs, g \in Greenlets :
    places[j][g] = "waiting" => pc[j][g] = "waiting" /\ index[j][g] = at[j][g]

\* A dependency is a job and a state whose event can be waited for.
LEMMA DependencyType ==
  ASSUME TopologyAssumption, NEW j \in Jobs, NEW i \in 1..Len(ParentDeps[j])
  PROVE  ParentDeps[j][i] \in [parent : Jobs, state : DEPENDENCY_STATES]
<1>1. \A S : \A s \in Seq(S) : \A k \in 1..Len(s) : s[k] \in S
  OBVIOUS
<1>2. ParentDeps[j] \in Seq([parent : Jobs, state : DEPENDENCY_STATES])
  BY DEF TopologyAssumption
<1>3. QED
  BY <1>1, <1>2

\* The greenlet chosen for a new job is one of the job's.
LEMMA AnyFreeType ==
  ASSUME NEW j, FreeGreenlets(j) # {}
  PROVE  AnyFree(j) \in Greenlets /\ pc[j][AnyFree(j)] = "none"
BY DEF AnyFree, FreeGreenlets

\* Waking greenlets keeps the types of pc and at, and leaves a greenlet waiting
\* only where it waited before.
LEMMA WokenType ==
  ASSUME GreenletTypeOK, NEW fired, NEW places, NEW index,
         places \in [Jobs -> [Greenlets -> Places]],
         index \in [Jobs -> [Greenlets -> Nat \ {0}]],
         StillWaits(places, index)
  PROVE  /\ Woken(places, fired) \in [Jobs -> [Greenlets -> Places]]
         /\ WokenAt(index, fired) \in [Jobs -> [Greenlets -> Nat \ {0}]]
         /\ \A j \in Jobs, g \in Greenlets :
              Woken(places, fired)[j][g] = "waiting" =>
                WokenAt(index, fired)[j][g] \in 1..Len(ParentDeps[j])
<1>1. Woken(places, fired) \in [Jobs -> [Greenlets -> Places]]
  BY DEF Woken, Places
<1>2. \A j \in Jobs, g \in Greenlets : at[j][g] + 1 \in Nat \ {0}
  BY DEF GreenletTypeOK
<1>3. WokenAt(index, fired) \in [Jobs -> [Greenlets -> Nat \ {0}]]
  BY <1>2 DEF WokenAt
<1>4. ASSUME NEW j \in Jobs, NEW g \in Greenlets, Woken(places, fired)[j][g] = "waiting"
      PROVE  WokenAt(index, fired)[j][g] \in 1..Len(ParentDeps[j])
  <2>1. ~Wakes(fired, j, g) /\ places[j][g] = "waiting"
    BY <1>4 DEF Woken
  <2>2. WokenAt(index, fired)[j][g] = index[j][g]
    BY <2>1 DEF WokenAt
  <2>3. QED
    BY <2>1, <2>2 DEF StillWaits, GreenletTypeOK
<1>5. QED
  BY <1>1, <1>3, <1>4

\* Setting events keeps the type of events.
LEMMA EventsType ==
  ASSUME NEW flags \in [Jobs -> SUBSET DEPENDENCY_STATES], NEW fired
  PROVE  EventsWith(flags, fired) \in [Jobs -> SUBSET DEPENDENCY_STATES]
BY DEF EventsWith

\* A step of one job keeps the types of what it changes.
LEMMA JobStepType ==
  ASSUME TopologyAssumption, TypeOK, NEW j \in Jobs, NEW g \in Greenlets,
         NEW s \in STATES, NEW fired, NEW p \in Places \ {"waiting"},
         JobStep(j, g, s, fired, p), linked' = linked, main' = main
  PROVE  StateTypeOK' /\ GreenletTypeOK' /\ HubTypeOK'
<1> DEFINE places == [pc EXCEPT ![j][g] = p]
<1>1. StateTypeOK'
  <2>1. state' \in [Jobs -> STATES]
    BY DEF JobStep, TypeOK, StateTypeOK
  <2>2. QED
    BY <2>1, EventsType DEF JobStep, TypeOK, StateTypeOK
<1>2. GreenletTypeOK'
  <2>1. places \in [Jobs -> [Greenlets -> Places]]
    BY DEF TypeOK, GreenletTypeOK
  <2>2. StillWaits(places, at)
    BY DEF StillWaits, TypeOK, GreenletTypeOK
  <2>3. pc' = Woken(places, fired) /\ at' = WokenAt(at, fired)
    BY DEF JobStep
  <2>4. GreenletTypeOK /\ at \in [Jobs -> [Greenlets -> Nat \ {0}]]
    BY DEF TypeOK, GreenletTypeOK
  <2> HIDE DEF places
  <2>5. QED
    BY <2>1, <2>2, <2>3, <2>4, WokenType DEF GreenletTypeOK
<1>3. HubTypeOK'
  BY DEF JobStep, TypeOK, HubTypeOK
<1>4. QED
  BY <1>1, <1>2, <1>3

\* Spawning greenlets for a set of jobs that have room keeps the types.
LEMMA SpawnType ==
  ASSUME GreenletTypeOK, NEW S, \A j \in S : FreeGreenlets(j) # {}
  PROVE  /\ SpawnedPc(S) \in [Jobs -> [Greenlets -> Places]]
         /\ SpawnedAt(S) \in [Jobs -> [Greenlets -> Nat \ {0}]]
         /\ StillWaits(SpawnedPc(S), SpawnedAt(S))
<1>1. SpawnedPc(S) \in [Jobs -> [Greenlets -> Places]]
  BY DEF GreenletTypeOK, SpawnedPc, Places
<1>2. SpawnedAt(S) \in [Jobs -> [Greenlets -> Nat \ {0}]]
  <2>1. ASSUME NEW j \in Jobs
        PROVE  /\ at[j] \in [Greenlets -> Nat \ {0}]
               /\ [at[j] EXCEPT ![AnyFree(j)] = 1] \in [Greenlets -> Nat \ {0}]
    <3>1. at[j] \in [Greenlets -> Nat \ {0}] /\ 1 \in Nat \ {0}
      BY DEF GreenletTypeOK
    <3>2. QED
      BY <3>1
  <2>2. QED
    BY <2>1 DEF SpawnedAt
<1>3. ASSUME NEW j \in Jobs, NEW g \in Greenlets, SpawnedPc(S)[j][g] = "waiting"
      PROVE  pc[j][g] = "waiting" /\ SpawnedAt(S)[j][g] = at[j][g]
  <2>1. CASE j \in S
    <3>1. AnyFree(j) \in Greenlets /\ pc[j][AnyFree(j)] = "none"
      BY <2>1, AnyFreeType
    <3>2. g # AnyFree(j) /\ pc[j][g] = "waiting"
      BY <1>3, <2>1, <3>1 DEF SpawnedPc, GreenletTypeOK
    <3>3. SpawnedAt(S)[j][g] = at[j][g]
      BY <2>1, <3>1, <3>2 DEF SpawnedAt, GreenletTypeOK
    <3>4. QED
      BY <3>2, <3>3
  <2>2. CASE j \notin S
    BY <1>3, <2>2 DEF SpawnedPc, SpawnedAt, GreenletTypeOK
  <2>3. QED
    BY <2>1, <2>2
<1>4. QED
  BY <1>1, <1>2, <1>3 DEF StillWaits

\* A manager that enters its subtree waits for no dependency.
LEMMA ManagerPlaces ==
  ASSUME GreenletTypeOK, NEW S, \A i \in S : FreeGreenlets(i) # {},
         NEW j \in Jobs, NEW g \in Greenlets, NEW places,
         places = [SpawnedPc(S) EXCEPT ![j][g] = "subtree"]
  PROVE  /\ places \in [Jobs -> [Greenlets -> Places]]
         /\ StillWaits(places, SpawnedAt(S))
<1>1. /\ SpawnedPc(S) \in [Jobs -> [Greenlets -> Places]] /\ "subtree" \in Places
      /\ StillWaits(SpawnedPc(S), SpawnedAt(S))
  BY SpawnType DEF Places
<1>2. QED
  BY <1>1 DEF StillWaits

\* Starting the jobs of a tree keeps the types, for a main greenlet or a
\* manager that goes on to a place where it waits for no dependency.
LEMMA StartJobsType ==
  ASSUME TopologyAssumption, TypeOK, NEW t \in Trees,
         NEW st \in [Jobs -> STATES],
         NEW flags \in [Jobs -> SUBSET DEPENDENCY_STATES],
         NEW places \in [Jobs -> [Greenlets -> Places]],
         StillWaits(places, SpawnedAt(Spawning(t, st))),
         StartJobs(t, st, flags, places)
  PROVE  /\ StateTypeOK'
         /\ GreenletTypeOK'
         /\ linked' \subseteq Trees /\ notify' \subseteq linked'
<1> DEFINE S == Spawning(t, st)
<1> DEFINE fired == {<<j, "SUCCESSFULL">> : j \in {k \in JobsOf(t) : ShortCircuits(k, st)}}
<1>1. /\ state' = st
      /\ events' = EventsWith(flags, fired)
      /\ pc' = Woken(places, fired)
      /\ at' = WokenAt(SpawnedAt(S), fired)
      /\ \A j \in S : FreeGreenlets(j) # {}
      /\ linked' = linked \cup {t}
      /\ notify' = notify \cup {t} \cup (Notified(st, fired) \cap linked)
  BY DEF StartJobs
<1>2. GreenletTypeOK
  BY DEF TypeOK
<1> HIDE DEF S, fired
<1>3. StateTypeOK'
  BY <1>1, EventsType DEF StateTypeOK
<1>4. GreenletTypeOK'
  <2>1. SpawnedAt(S) \in [Jobs -> [Greenlets -> Nat \ {0}]] /\ StillWaits(places, SpawnedAt(S))
    BY <1>1, <1>2, SpawnType DEF S
  <2>2. QED
    BY <1>1, <1>2, <2>1, WokenType DEF GreenletTypeOK
<1>5. linked' \subseteq Trees /\ notify' \subseteq linked'
  BY <1>1 DEF TypeOK, HubTypeOK
<1>6. QED
  BY <1>3, <1>4, <1>5

\* A manager that starts the jobs of its subtree keeps the types.
LEMMA ManagerStartsType ==
  ASSUME TopologyAssumption, TypeOK, NEW t \in Trees,
         NEW st \in [Jobs -> STATES],
         NEW flags \in [Jobs -> SUBSET DEPENDENCY_STATES],
         NEW j \in Jobs, NEW g \in Greenlets,
         StartJobs(t, st, flags, [SpawnedPc(Spawning(t, st)) EXCEPT ![j][g] = "subtree"])
  PROVE  /\ StateTypeOK'
         /\ GreenletTypeOK'
         /\ linked' \subseteq Trees /\ notify' \subseteq linked'
<1> DEFINE S      == Spawning(t, st)
           places == [SpawnedPc(S) EXCEPT ![j][g] = "subtree"]
<1>1. StartJobs(t, st, flags, places)
  OBVIOUS
<1>2. \A i \in S : FreeGreenlets(i) # {}
  BY DEF StartJobs
<1> HIDE DEF places
<1>3. places \in [Jobs -> [Greenlets -> Places]] /\ StillWaits(places, SpawnedAt(S))
  <2> HIDE DEF S
  <2>1. QED
    BY <1>2, ManagerPlaces DEF TypeOK, places
<1>4. QED
  BY <1>1, <1>3, StartJobsType

\* Cancelling keeps the types.
LEMMA CancelTreeType ==
  ASSUME TopologyAssumption, TypeOK, NEW t \in Trees, NEW completed,
         CancelTree(t, completed), linked' = linked, events' = events
  PROVE  /\ StateTypeOK'
         /\ notify' \subseteq linked'
         /\ cancelled' \in [Trees -> BOOLEAN] /\ done' \in [Trees -> BOOLEAN]
<1>1. StatesCancelled(Cancels(t)) \in [Jobs -> STATES]
  BY DEF TypeOK, StateTypeOK, StatesCancelled, STATES
<1>2. FlagsCancelled(Cancels(t)) \in [Trees -> BOOLEAN]
  BY DEF TypeOK, TreeTypeOK, FlagsCancelled
<1>3. done' \in [Trees -> BOOLEAN]
  BY DEF CancelTree, TypeOK, TreeTypeOK
<1>4. notify' \subseteq linked'
  BY DEF CancelTree, TypeOK, HubTypeOK
<1>5. QED
  BY <1>1, <1>2, <1>3, <1>4 DEF CancelTree, TypeOK, StateTypeOK

-----------------------------------------------------------------------------
(* The type invariant.                                                     *)

LEMMA TypeInit == TopologyAssumption /\ Init => TypeOK
BY DEF TopologyAssumption, Init, TypeOK, StateTypeOK, GreenletTypeOK, HubTypeOK,
       TreeTypeOK, STATES, Places

LEMMA TypeGreenletStep ==
  ASSUME TopologyAssumption, TypeOK, NEW j \in Jobs, NEW g \in Greenlets,
         GreenletStep(j, g)
  PROVE  TypeOK'
<1>1. CASE WaitForParent(j, g)
  <2>1. Unmet(j, g) \subseteq Nat /\ Unmet(j, g) \subseteq 1..Len(ParentDeps[j])
    BY DEF Unmet, TypeOK, GreenletTypeOK, TopologyAssumption
  <2>2. at' = [at EXCEPT ![j][g] = CHOOSE i \in Unmet(j, g) : \A k \in Unmet(j, g) : i <= k]
    BY <1>1 DEF WaitForParent
  <2>3. PICK first \in Unmet(j, g) : at' = [at EXCEPT ![j][g] = first]
    BY <1>1, <2>1, <2>2, FirstPosition DEF WaitForParent
  <2>4. first \in Nat \ {0} /\ first \in 1..Len(ParentDeps[j])
    BY <2>1
  <2>5. GreenletTypeOK'
    <3>1. pc' = [pc EXCEPT ![j][g] = "waiting"] /\ "waiting" \in Places
      BY <1>1 DEF WaitForParent, Places
    <3>2. pc' \in [Jobs -> [Greenlets -> Places]]
      BY <3>1 DEF TypeOK, GreenletTypeOK
    <3>3. at' \in [Jobs -> [Greenlets -> Nat \ {0}]]
      BY <2>3, <2>4 DEF TypeOK, GreenletTypeOK
    <3>4. ASSUME NEW k \in Jobs, NEW h \in Greenlets, pc'[k][h] = "waiting"
          PROVE  at'[k][h] \in 1..Len(ParentDeps[k])
      <4>1. CASE k = j /\ h = g
        BY <2>3, <2>4, <4>1 DEF TypeOK, GreenletTypeOK
      <4>2. CASE ~(k = j /\ h = g)
        <5>1. pc[k][h] = "waiting" /\ at'[k][h] = at[k][h]
          BY <2>3, <3>1, <3>4, <4>2 DEF TypeOK, GreenletTypeOK
        <5>2. QED
          BY <5>1 DEF TypeOK, GreenletTypeOK
      <4>3. QED
        BY <4>1, <4>2
    <3>5. QED
      BY <3>2, <3>3, <3>4 DEF GreenletTypeOK
  <2>6. QED
    BY <1>1, <2>5 DEF WaitForParent, TypeOK, StateTypeOK, HubTypeOK, TreeTypeOK
<1>2. ASSUME NEW s \in STATES, NEW fired, NEW p \in Places \ {"waiting"},
             JobStep(j, g, s, fired, p), TreeTypeOK', linked' = linked, main' = main
      PROVE  TypeOK'
  BY <1>2, JobStepType DEF TypeOK
<1> DEFINE quiet == UNCHANGED <<linked, cancelled, done, run, main>>
<1>3. quiet => TreeTypeOK' /\ linked' = linked /\ main' = main
  BY DEF TypeOK, TreeTypeOK
<1>4. CASE SkipUndefined(j, g)
  BY <1>2, <1>3, <1>4 DEF SkipUndefined, STATES, Places
<1>5. CASE AbandonStart(j, g)
  <2>1. state[j] \in STATES
    BY DEF TypeOK, StateTypeOK
  <2>2. QED
    BY <1>2, <1>3, <1>5, <2>1 DEF AbandonStart, Places
<1>6. CASE BlockOnResources(j, g)
  BY <1>2, <1>3, <1>6 DEF BlockOnResources, STATES, Places
<1>7. CASE GiveUpResources(j, g)
  BY <1>2, <1>3, <1>7 DEF GiveUpResources, STATES, Places
<1>8. CASE StartScript(j, g)
  BY <1>2, <1>3, <1>8 DEF StartScript, STATES, Places
<1>9. CASE FailToStart(j, g)
  BY <1>2, <1>3, <1>9 DEF FailToStart, STATES, Places
<1>10. CASE ScriptExits(j, g)
  BY <1>2, <1>3, <1>10 DEF ScriptExits, STATES, Places
<1>11. CASE LeaveSubtree(j, g)
  BY <1>2, <1>3, <1>11 DEF LeaveSubtree, SubtreeOutcome, STATES, Places
<1>12. SubtreeOf[j] # NoTree => SubtreeOf[j] \in Trees
  BY DEF TopologyAssumption
<1>13. ASSUME NEW t \in Trees, Advance(t)
       PROVE  TreeTypeOK'
  <2>1. run \in [Trees -> Nat] /\ run[t] + 1 \in Nat
    BY DEF TypeOK, TreeTypeOK
  <2>2. run' \in [Trees -> Nat]
    BY <1>13, <2>1 DEF Advance
  <2>3. QED
    BY <1>13, <2>2 DEF Advance, TypeOK, TreeTypeOK
<1>14. CASE LastIteration(j, g)
  <2>1. TreeTypeOK'
    BY <1>13, <1>14, <1>12 DEF LastIteration, SubtreeReturned
  <2>2. QED
    BY <1>2, <1>14, <2>1 DEF LastIteration, STATES, Places
<1>15. ASSUME NEW t \in Trees, NEW st \in [Jobs -> STATES],
              NEW flags \in [Jobs -> SUBSET DEPENDENCY_STATES],
              StartJobs(t, st, flags, [SpawnedPc(Spawning(t, st)) EXCEPT ![j][g] = "subtree"]),
              TreeTypeOK', main' = main
       PROVE  TypeOK'
  BY <1>15, ManagerStartsType DEF TypeOK, HubTypeOK
<1>16. CASE EnterSubtree(j, g)
  <2>1. [state EXCEPT ![j] = "RUNNING"] \in [Jobs -> STATES]
    BY DEF TypeOK, StateTypeOK, STATES
  <2>2. events \in [Jobs -> SUBSET DEPENDENCY_STATES]
    BY DEF TypeOK, StateTypeOK
  <2>3. TreeTypeOK'
    BY <1>16 DEF EnterSubtree, TypeOK, TreeTypeOK
  <2>4. QED
    BY <1>15, <1>12, <1>16, <2>1, <2>2, <2>3 DEF EnterSubtree
<1>17. CASE NextIteration(j, g)
  <2> DEFINE st == ResetStates(SubtreeOf[j], [state EXCEPT ![j] = "RUNNING"])
  <2>1. st \in [Jobs -> STATES]
    BY DEF TypeOK, StateTypeOK, ResetStates, STATES
  <2>2. ResetEvents(SubtreeOf[j]) \in [Jobs -> SUBSET DEPENDENCY_STATES]
    BY DEF TypeOK, StateTypeOK, ResetEvents
  <2>4. SubtreeOf[j] \in Trees
    BY <1>12, <1>17 DEF NextIteration, SubtreeReturned
  <2>3. TreeTypeOK'
    BY <1>13, <1>17, <2>4 DEF NextIteration
  <2>5. QED
    BY <1>15, <1>17, <2>1, <2>2, <2>3, <2>4 DEF NextIteration
<1>18. QED
  BY <1>1, <1>4, <1>5, <1>6, <1>7, <1>8, <1>9, <1>10, <1>11, <1>14, <1>16, <1>17
     DEF GreenletStep

\* Each step of the hub, of the main greenlet or of a request keeps the types.
LEMMA TypeIsDoneEvent ==
  ASSUME TopologyAssumption, TypeOK, NEW t \in Trees, IsDoneEvent(t)
  PROVE  TypeOK'
<1>1. UNCHANGED <<events, pc, at, linked, run, main>>
  BY DEF IsDoneEvent
<1>2. CASE CancelTree(t, {t})
  BY <1>1, <1>2, CancelTreeType
     DEF TypeOK, GreenletTypeOK, HubTypeOK, TreeTypeOK
<1>3. CASE notify' = notify \ {t} /\ UNCHANGED <<state, cancelled, done>>
  BY <1>1, <1>3 DEF TypeOK, StateTypeOK, GreenletTypeOK, HubTypeOK, TreeTypeOK
<1>4. QED
  BY <1>2, <1>3 DEF IsDoneEvent

LEMMA TypeMain ==
  ASSUME TopologyAssumption, TypeOK, RunTree \/ RunReturns \/ RunTimesOut \/ Abort
  PROVE  TypeOK'
<1>1. ASSUME NEW st, NEW cancel, ExitWith(st, cancel)
      PROVE  main' \in {"new", "running"} \cup Outcomes
  BY <1>1 DEF ExitWith, Outcomes
<1>2. Root \in Trees
  BY DEF TopologyAssumption
<1>3. CASE RunTree
  <2>1. TreeTypeOK'
    BY <1>3 DEF RunTree, TypeOK, TreeTypeOK
  <2>2. CASE cancelled[Root]
    BY <1>1, <1>3, <2>1, <2>2
       DEF RunTree, TypeOK, StateTypeOK, GreenletTypeOK, HubTypeOK
  <2>3. CASE ~cancelled[Root]
    <3>1. /\ main' = "running"
          /\ StartJobs(Root, state, events, SpawnedPc(Spawning(Root, state)))
      BY <1>3, <2>3 DEF RunTree
    <3>2. state \in [Jobs -> STATES] /\ events \in [Jobs -> SUBSET DEPENDENCY_STATES]
      BY DEF TypeOK, StateTypeOK
    <3>3. /\ SpawnedPc(Spawning(Root, state)) \in [Jobs -> [Greenlets -> Places]]
          /\ StillWaits(SpawnedPc(Spawning(Root, state)), SpawnedAt(Spawning(Root, state)))
      <4>1. \A j \in Spawning(Root, state) : FreeGreenlets(j) # {}
        BY <3>1 DEF StartJobs
      <4>2. QED
        BY <4>1, SpawnType DEF TypeOK
    <3>4. StateTypeOK' /\ GreenletTypeOK' /\ linked' \subseteq Trees /\ notify' \subseteq linked'
      BY <1>2, <3>1, <3>2, <3>3, StartJobsType
    <3>5. QED
      BY <2>1, <3>1, <3>4 DEF TypeOK, HubTypeOK
  <2>4. QED
    BY <2>2, <2>3
<1>4. CASE RunReturns
  BY <1>1, <1>4 DEF RunReturns, TypeOK, StateTypeOK, GreenletTypeOK, HubTypeOK, TreeTypeOK
<1>5. CASE RunTimesOut
  <2>1. UNCHANGED <<events, pc, at, linked, run>> /\ CancelTree(Root, {})
    BY <1>5 DEF RunTimesOut
  <2>2. main' \in {"new", "running"} \cup Outcomes
    BY <1>5 DEF RunTimesOut, ExitWith, Outcomes
  <2>3. QED
    BY <1>2, <2>1, <2>2, CancelTreeType DEF TypeOK, GreenletTypeOK, HubTypeOK, TreeTypeOK
<1>6. CASE Abort
  <2>1. UNCHANGED <<events, pc, at, linked, run, main>> /\ CancelTree(Root, {})
    BY <1>6 DEF Abort
  <2>2. QED
    BY <1>2, <2>1, CancelTreeType DEF TypeOK, GreenletTypeOK, HubTypeOK, TreeTypeOK
<1>7. QED
  BY <1>3, <1>4, <1>5, <1>6

LEMMA TypeInterruptStart ==
  ASSUME TopologyAssumption, TypeOK, NEW j \in Jobs, NEW g \in Greenlets, InterruptStart(j, g)
  PROVE  TypeOK'
<1>1. /\ UNCHANGED <<events, at, linked, run, main>> /\ CancelTree(Root, {})
      /\ pc' = [pc EXCEPT ![j][g] = "checked"]
  BY DEF InterruptStart
<1>2. GreenletTypeOK'
  BY <1>1 DEF TypeOK, GreenletTypeOK, Places
<1>3. QED
  BY <1>1, <1>2, CancelTreeType DEF TopologyAssumption, TypeOK, HubTypeOK, TreeTypeOK

\* What an interrupted start leaves as it was: one greenlet goes from "ready" to
\* "checked", and the tree is cancelled.
LEMMA Interrupted ==
  ASSUME TypeOK, NEW j \in Jobs, NEW g \in Greenlets, InterruptStart(j, g)
  PROVE  /\ CancelTree(Root, {}) /\ ~cancelled[Root] /\ Yielded
         /\ UNCHANGED <<events, at, linked, run, main>>
         /\ "signal" \in Requests
         /\ ParentsMet(j, g) /\ state[j] \notin DONE_STATES
         /\ pc[j][g] = "ready" /\ pc'[j][g] = "checked"
         /\ \A k \in Jobs, h \in Greenlets : ~(k = j /\ h = g) => pc'[k][h] = pc[k][h]
         /\ \A k \in Jobs, h \in Greenlets : Live(k, h)' <=> Live(k, h)
<1>1. /\ pc' = [pc EXCEPT ![j][g] = "checked"] /\ PassesCheck(j, g)
      /\ CancelTree(Root, {}) /\ ~cancelled[Root] /\ Yielded
      /\ UNCHANGED <<events, at, linked, run, main>>
      /\ "signal" \in Requests
  BY DEF InterruptStart
<1>2. pc[j][g] = "ready" /\ ParentsMet(j, g) /\ state[j] \notin DONE_STATES
  BY <1>1 DEF PassesCheck, ParentsMet
<1>3. /\ pc'[j][g] = "checked"
      /\ \A k \in Jobs, h \in Greenlets : ~(k = j /\ h = g) => pc'[k][h] = pc[k][h]
  BY <1>1 DEF TypeOK, GreenletTypeOK
<1>4. \A k \in Jobs, h \in Greenlets : Live(k, h)' <=> Live(k, h)
  BY <1>2, <1>3 DEF Live
<1>5. QED
  BY <1>1, <1>2, <1>3, <1>4

LEMMA TypeReschedule ==
  ASSUME TopologyAssumption, TypeOK, NEW j \in Jobs, Reschedule(j)
  PROVE  TypeOK'
<1>1. StateTypeOK'
  BY DEF Reschedule, TypeOK, StateTypeOK, STATES
<1>2. GreenletTypeOK'
  <2>1. \A i \in {j} : FreeGreenlets(i) # {}
    BY DEF Reschedule
  <2>2. pc' = SpawnedPc({j}) /\ at' = SpawnedAt({j})
    BY DEF Reschedule
  <2>3. /\ pc' \in [Jobs -> [Greenlets -> Places]] /\ at' \in [Jobs -> [Greenlets -> Nat \ {0}]]
        /\ StillWaits(pc', at')
    BY <2>1, <2>2, SpawnType DEF TypeOK
  <2>4. QED
    BY <2>3 DEF StillWaits, TypeOK, GreenletTypeOK
<1>3. QED
  BY <1>1, <1>2 DEF Reschedule, TypeOK, HubTypeOK, TreeTypeOK

LEMMA TypeManualOverride ==
  ASSUME TopologyAssumption, TypeOK, NEW j \in Jobs, ManualOverride(j)
  PROVE  TypeOK'
<1>1. StateTypeOK'
  BY EventsType DEF ManualOverride, TypeOK, StateTypeOK, STATES
<1>2. GreenletTypeOK'
  <2>1. PICK fired : pc' = Woken(pc, fired) /\ at' = WokenAt(at, fired)
    BY DEF ManualOverride
  <2>2. StillWaits(pc, at)
    BY DEF StillWaits
  <2>3. QED
    BY <2>1, <2>2, WokenType DEF TypeOK, GreenletTypeOK
<1>3. QED
  BY <1>1, <1>2 DEF ManualOverride, TypeOK, HubTypeOK, TreeTypeOK

LEMMA TypeStep == TopologyAssumption /\ TypeOK /\ [Next]_vars => TypeOK'
<1> SUFFICES ASSUME TopologyAssumption, TypeOK, [Next]_vars
             PROVE  TypeOK'
  OBVIOUS
<1>1. CASE RunTree \/ RunReturns \/ RunTimesOut \/ Abort
  BY <1>1, TypeMain
<1>2. CASE RunningStep
  BY <1>2, TypeGreenletStep, TypeInterruptStart, TypeIsDoneEvent, TypeReschedule,
     TypeManualOverride DEF RunningStep
<1>3. CASE UNCHANGED vars
  BY <1>3 DEF vars, TypeOK, StateTypeOK, GreenletTypeOK, HubTypeOK, TreeTypeOK
<1>4. QED
  BY <1>1, <1>2, <1>3 DEF Next, Terminated

\* The variables of every tree, whatever its jobs and subtrees, keep their
\* types; in particular a greenlet waits only for a dependency it has, and only
\* a linked tree's callback is scheduled.
THEOREM TypeCorrect == Spec => []TypeOK
<1>1. Init => TypeOK
  BY TopologyAssumption, TypeInit
<1>2. TypeOK /\ [Next]_vars => TypeOK'
  BY TopologyAssumption, TypeStep
<1>3. QED
  BY <1>1, <1>2, PTL DEF Spec

-----------------------------------------------------------------------------
(* No wake-up is lost.                                                     *)

\* A step that fires events and wakes the greenlets waiting for them loses no
\* wake-up, whatever other events it clears.
LEMMA FiringWakes ==
  ASSUME TopologyAssumption, TypeOK, NoLostWakeup,
         NEW flags, NEW fired, NEW places, NEW index,
         \A j \in Jobs : flags[j] \subseteq events[j],
         StillWaits(places, index),
         pc' = Woken(places, fired), at' = WokenAt(index, fired),
         events' = EventsWith(flags, fired)
  PROVE  NoLostWakeup'
<1> SUFFICES ASSUME NEW j \in Jobs, NEW g \in Greenlets, pc'[j][g] = "waiting"
             PROVE  LET d == ParentDeps[j][at'[j][g]] IN d.state \notin events'[d.parent]
  BY DEF NoLostWakeup
<1>1. ~Wakes(fired, j, g) /\ places[j][g] = "waiting"
  BY DEF Woken
<1>2. pc[j][g] = "waiting" /\ index[j][g] = at[j][g]
  BY <1>1 DEF StillWaits
<1>3. at'[j][g] = at[j][g]
  BY <1>1, <1>2 DEF WokenAt
<1> DEFINE d == ParentDeps[j][at[j][g]]
<1>4. d \in [parent : Jobs, state : DEPENDENCY_STATES]
  BY <1>2, DependencyType DEF TypeOK, GreenletTypeOK
<1>5. <<d.parent, d.state>> \notin fired
  BY <1>1, <1>2 DEF Wakes
<1>6. d.state \notin events[d.parent]
  BY <1>2 DEF NoLostWakeup
<1>7. d.state \notin events'[d.parent]
  <2> HIDE DEF d
  <2>1. QED
    BY <1>4, <1>5, <1>6 DEF EventsWith
<1>8. QED
  BY <1>3, <1>7

LEMMA JobStepWakes ==
  ASSUME TopologyAssumption, TypeOK, NoLostWakeup, NEW j \in Jobs, NEW g \in Greenlets,
         NEW s, NEW fired, NEW p, p # "waiting", JobStep(j, g, s, fired, p)
  PROVE  NoLostWakeup'
<1>1. StillWaits([pc EXCEPT ![j][g] = p], at)
  BY DEF StillWaits, TypeOK, GreenletTypeOK
<1>2. QED
  BY <1>1, FiringWakes DEF JobStep

LEMMA StartJobsWakes ==
  ASSUME TopologyAssumption, TypeOK, NoLostWakeup, NEW t, NEW st, NEW flags, NEW places,
         \A j \in Jobs : flags[j] \subseteq events[j],
         StillWaits(places, SpawnedAt(Spawning(t, st))),
         StartJobs(t, st, flags, places)
  PROVE  NoLostWakeup'
BY FiringWakes DEF StartJobs

LEMMA ManagerStartsWakes ==
  ASSUME TopologyAssumption, TypeOK, NoLostWakeup, NEW t, NEW st, NEW flags,
         NEW j \in Jobs, NEW g \in Greenlets,
         \A k \in Jobs : flags[k] \subseteq events[k],
         StartJobs(t, st, flags, [SpawnedPc(Spawning(t, st)) EXCEPT ![j][g] = "subtree"])
  PROVE  NoLostWakeup'
<1> DEFINE S      == Spawning(t, st)
           places == [SpawnedPc(S) EXCEPT ![j][g] = "subtree"]
<1>1. StartJobs(t, st, flags, places)
  OBVIOUS
<1>2. \A i \in S : FreeGreenlets(i) # {}
  BY DEF StartJobs
<1> HIDE DEF places
<1>3. StillWaits(places, SpawnedAt(S))
  <2> HIDE DEF S
  <2>1. QED
    BY <1>2, ManagerPlaces DEF TypeOK, places
<1>4. QED
  BY <1>1, <1>3, StartJobsWakes

\* Steps that leave the greenlets and their events alone.
LEMMA QuietKeepsWakeups ==
  ASSUME NoLostWakeup, UNCHANGED <<events, pc, at>>
  PROVE  NoLostWakeup'
BY DEF NoLostWakeup

LEMMA GreenletStepWakes ==
  ASSUME TopologyAssumption, TypeOK, NoLostWakeup, NEW j \in Jobs, NEW g \in Greenlets,
         GreenletStep(j, g)
  PROVE  NoLostWakeup'
<1>1. CASE WaitForParent(j, g)
  <2>1. Unmet(j, g) \subseteq Nat
    BY DEF Unmet, TypeOK, GreenletTypeOK
  <2>2. at' = [at EXCEPT ![j][g] = CHOOSE i \in Unmet(j, g) : \A k \in Unmet(j, g) : i <= k]
    BY <1>1 DEF WaitForParent
  <2>3. PICK first \in Unmet(j, g) : at' = [at EXCEPT ![j][g] = first]
    BY <1>1, <2>1, <2>2, FirstPosition DEF WaitForParent
  <2>4. pc' = [pc EXCEPT ![j][g] = "waiting"] /\ events' = events
    BY <1>1 DEF WaitForParent
  <2> SUFFICES ASSUME NEW k \in Jobs, NEW h \in Greenlets, pc'[k][h] = "waiting"
               PROVE  LET d == ParentDeps[k][at'[k][h]] IN d.state \notin events[d.parent]
    BY <2>4 DEF NoLostWakeup
  <2>5. CASE k = j /\ h = g
    <3>1. at'[k][h] = first
      BY <2>3, <2>5 DEF TypeOK, GreenletTypeOK
    <3>2. QED
      BY <2>5, <3>1 DEF Unmet
  <2>6. CASE ~(k = j /\ h = g)
    <3>1. pc[k][h] = "waiting" /\ at'[k][h] = at[k][h]
      BY <2>3, <2>4, <2>6 DEF TypeOK, GreenletTypeOK
    <3>2. QED
      BY <3>1 DEF NoLostWakeup
  <2>7. QED
    BY <2>5, <2>6
<1>2. CASE SkipUndefined(j, g) \/ AbandonStart(j, g) \/ BlockOnResources(j, g)
  BY <1>2, JobStepWakes DEF SkipUndefined, AbandonStart, BlockOnResources
<1>3. CASE GiveUpResources(j, g) \/ StartScript(j, g) \/ FailToStart(j, g)
  BY <1>3, JobStepWakes DEF GiveUpResources, StartScript, FailToStart
<1>4. CASE ScriptExits(j, g)
  BY <1>4, JobStepWakes DEF ScriptExits
<1>5. CASE LeaveSubtree(j, g) \/ LastIteration(j, g)
  BY <1>5, JobStepWakes DEF LeaveSubtree, LastIteration
<1>6. CASE EnterSubtree(j, g)
  BY <1>6, ManagerStartsWakes DEF EnterSubtree
<1>7. CASE NextIteration(j, g)
  <2>1. \A k \in Jobs : ResetEvents(SubtreeOf[j])[k] \subseteq events[k]
    BY DEF ResetEvents
  <2>2. QED
    BY <1>7, <2>1, ManagerStartsWakes DEF NextIteration
<1>8. QED
  BY <1>1, <1>2, <1>3, <1>4, <1>5, <1>6, <1>7 DEF GreenletStep

LEMMA RequestWakes ==
  ASSUME TopologyAssumption, TypeOK, NoLostWakeup, NEW j \in Jobs,
         Reschedule(j) \/ ManualOverride(j)
  PROVE  NoLostWakeup'
<1>1. CASE Reschedule(j)
  <2>1. \A i \in {j} : FreeGreenlets(i) # {}
    BY <1>1 DEF Reschedule
  <2>2. /\ pc' = SpawnedPc({j}) /\ at' = SpawnedAt({j})
        /\ events' = [events EXCEPT ![j] = {}]
    BY <1>1 DEF Reschedule
  <2>3. \A k \in Jobs : events'[k] \subseteq events[k]
    BY <2>2 DEF TypeOK, StateTypeOK
  <2>4. StillWaits(pc', at')
    BY <2>1, <2>2, SpawnType DEF TypeOK
  <2> SUFFICES ASSUME NEW k \in Jobs, NEW g \in Greenlets, pc'[k][g] = "waiting"
               PROVE  LET d == ParentDeps[k][at'[k][g]] IN d.state \notin events'[d.parent]
    BY DEF NoLostWakeup
  <2>5. pc[k][g] = "waiting" /\ at'[k][g] = at[k][g]
    BY <2>4 DEF StillWaits
  <2>6. ParentDeps[k][at[k][g]].parent \in Jobs
    BY <2>5, DependencyType DEF TypeOK, GreenletTypeOK
  <2>7. QED
    BY <2>3, <2>5, <2>6 DEF NoLostWakeup
<1>2. CASE ManualOverride(j)
  <2>1. StillWaits(pc, at)
    BY DEF StillWaits
  <2>2. QED
    BY <1>2, <2>1, FiringWakes DEF ManualOverride
<1>3. QED
  BY <1>1, <1>2

\* No greenlet sleeps on an event that is set, in no tree and in no order of
\* steps: the state setter sets an event and wakes its waiters in one step, and
\* clearing it in reset() can only make a waiter wait longer.
THEOREM WakeupsKept == Spec => []NoLostWakeup
<1>1. Init => NoLostWakeup
  BY DEF Init, NoLostWakeup
<1>2. TypeOK /\ NoLostWakeup /\ [Next]_vars => NoLostWakeup'
  <2> SUFFICES ASSUME TypeOK, NoLostWakeup, [Next]_vars
               PROVE  NoLostWakeup'
    OBVIOUS
  <2>1. TopologyAssumption
    BY TopologyAssumption
  <2>2. CASE RunTree
    <3>1. CASE cancelled[Root]
      BY <2>2, <3>1, QuietKeepsWakeups DEF RunTree
    <3>2. CASE ~cancelled[Root]
      <4>1. StartJobs(Root, state, events, SpawnedPc(Spawning(Root, state)))
        BY <2>2, <3>2 DEF RunTree
      <4>2. \A j \in Spawning(Root, state) : FreeGreenlets(j) # {}
        BY <4>1 DEF StartJobs
      <4>3. StillWaits(SpawnedPc(Spawning(Root, state)), SpawnedAt(Spawning(Root, state)))
        BY <4>2, SpawnType DEF TypeOK
      <4>4. QED
        BY <2>1, <4>1, <4>3, StartJobsWakes
    <3>3. QED
      BY <3>1, <3>2
  <2>3. CASE RunReturns \/ RunTimesOut \/ Abort
    BY <2>3, QuietKeepsWakeups DEF RunReturns, RunTimesOut, Abort
  <2>4. CASE RunningStep
    <3>1. ASSUME NEW t \in Trees, IsDoneEvent(t)
          PROVE  NoLostWakeup'
      BY <3>1, QuietKeepsWakeups DEF IsDoneEvent
    <3>2. ASSUME NEW j \in Jobs, NEW g \in Greenlets, InterruptStart(j, g)
          PROVE  NoLostWakeup'
      <4>1. \A k \in Jobs, h \in Greenlets : pc'[k][h] = "waiting" => pc[k][h] = "waiting"
        BY <3>2, Interrupted
      <4>2. events' = events /\ at' = at
        BY <3>2, Interrupted
      <4>3. QED
        BY <4>1, <4>2 DEF NoLostWakeup
    <3>3. QED
      BY <2>1, <2>4, <3>1, <3>2, GreenletStepWakes, RequestWakes DEF RunningStep
  <2>5. CASE UNCHANGED vars
    BY <2>5, QuietKeepsWakeups DEF vars
  <2>6. QED
    BY <2>2, <2>3, <2>4, <2>5 DEF Next, Terminated
<1>3. QED
  BY <1>1, <1>2, TypeCorrect, PTL DEF Spec

-----------------------------------------------------------------------------
(* One greenlet per job, for the jobs of the tree and of no subtree.       *)

FlatTree == \A j \in Jobs : SubtreeOf[j] = NoTree

\* The jobs that no iteration starts again while a greenlet of theirs may be left.
Once == {j \in Jobs : TreeOf[j] = Root \/ FlatTree}

OneGreenletOf(j) ==
  /\ \A g, h \in Greenlets : Live(j, g) /\ Live(j, h) => g = h
  /\ state[j] = "FAILED" => \A g \in Greenlets : ~Live(j, g)

\* The invariant: nothing lives or has failed before run() starts the jobs.
OneGreenletInv ==
  /\ \A j \in Once : OneGreenletOf(j)
  /\ main = "new" =>
       \A j \in Jobs : state[j] # "FAILED" /\ \A g \in Greenlets : ~Live(j, g)

NothingSpawned == \A j \in Jobs, g \in Greenlets : Live(j, g)' => Live(j, g)

\* Waking keeps alive what was alive, and wakes no other.
LEMMA WokenLive ==
  ASSUME NEW fired, NEW places, pc' = Woken(places, fired), NEW j \in Jobs, NEW g \in Greenlets,
         Live(j, g)'
  PROVE  Live(j, g) \/ places[j][g] # "none"
BY DEF Live, Woken, Wakes

LEMMA JobStepLive ==
  ASSUME TypeOK, NEW j \in Jobs, NEW g \in Greenlets, pc[j][g] \notin {"none", "waiting"},
         NEW s, NEW fired, NEW p, JobStep(j, g, s, fired, p)
  PROVE  /\ NothingSpawned
         /\ p = "none" => ~Live(j, g)'
         /\ \A k \in Jobs : k # j => state'[k] = state[k]
         /\ state'[j] = s
<1>1. pc' = Woken([pc EXCEPT ![j][g] = p], fired) /\ state' = [state EXCEPT ![j] = s]
  BY DEF JobStep
<1>2. NothingSpawned
  BY <1>1 DEF NothingSpawned, Live, Woken, Wakes, TypeOK, GreenletTypeOK
<1>3. p = "none" => ~Live(j, g)'
  BY <1>1 DEF Live, Woken, Wakes, TypeOK, GreenletTypeOK
<1>4. QED
  BY <1>1, <1>2, <1>3 DEF TypeOK, StateTypeOK

\* A job turns FAILED only when its greenlet ends.
LEMMA JobStepOne ==
  ASSUME TypeOK, OneGreenletInv, main = "running", main' = main,
         NEW j \in Jobs, NEW g \in Greenlets, pc[j][g] \notin {"none", "waiting"},
         NEW s, NEW fired, NEW p, JobStep(j, g, s, fired, p), s = "FAILED" => p = "none"
  PROVE  OneGreenletInv'
<1>1. /\ NothingSpawned
      /\ p = "none" => ~Live(j, g)'
      /\ \A k \in Jobs : k # j => state'[k] = state[k]
      /\ state'[j] = s
  BY JobStepLive
<1>2. Live(j, g) /\ (j \in Once => \A h \in Greenlets : Live(j, h) => h = g)
  BY DEF Live, OneGreenletInv, OneGreenletOf
<1>3. ASSUME NEW k \in Once
      PROVE  OneGreenletOf(k)'
  <2>1. k \in Jobs /\ OneGreenletOf(k)
    BY DEF OneGreenletInv, Once
  <2>2. \A h, i \in Greenlets : Live(k, h)' /\ Live(k, i)' => h = i
    BY <1>1, <2>1 DEF NothingSpawned, OneGreenletOf
  <2>3. CASE k = j
    BY <1>1, <1>2, <2>2, <2>3 DEF NothingSpawned, OneGreenletOf
  <2>4. CASE k # j
    BY <1>1, <2>1, <2>2, <2>4 DEF NothingSpawned, OneGreenletOf
  <2>5. QED
    BY <2>3, <2>4
<1>4. QED
  BY <1>3 DEF OneGreenletInv, Once, FlatTree

\* Cancelling fails no job that had not failed.
LEMMA CancelOne ==
  ASSUME TypeOK, OneGreenletInv, NEW t, NEW completed, CancelTree(t, completed),
         \A j \in Jobs, g \in Greenlets : Live(j, g)' <=> Live(j, g),
         main = "new" \/ main' # "new"
  PROVE  OneGreenletInv'
<1>1. \A j \in Jobs : state'[j] = "FAILED" => state[j] = "FAILED"
  BY DEF CancelTree, StatesCancelled, TypeOK, StateTypeOK
<1>2. QED
  BY <1>1 DEF OneGreenletInv, OneGreenletOf, Once, FlatTree

\* Spawning greenlets for jobs that had none, and for jobs of subtrees.
LEMMA SpawnedOne ==
  ASSUME TypeOK, OneGreenletInv, NEW S, \A j \in S : FreeGreenlets(j) # {},
         \A j \in S \cap Once, g \in Greenlets : ~Live(j, g),
         main' = "running",
         \A j \in Jobs, g \in Greenlets :
           Live(j, g)' => Live(j, g) \/ (j \in S /\ g = AnyFree(j)),
         \A j \in Once : state'[j] = "FAILED" => j \notin S /\ state[j] = "FAILED"
  PROVE  OneGreenletInv'
<1>1. ASSUME NEW j \in Once
      PROVE  OneGreenletOf(j)'
  <2>1. j \in Jobs /\ OneGreenletOf(j)
    BY DEF OneGreenletInv, Once
  <2>2. \A g, h \in Greenlets : Live(j, g)' /\ Live(j, h)' => g = h
    BY <2>1 DEF OneGreenletOf
  <2>3. \A g \in Greenlets : state'[j] = "FAILED" => ~Live(j, g)'
    BY <2>1 DEF OneGreenletOf
  <2>4. QED
    BY <2>2, <2>3 DEF OneGreenletOf
<1>2. QED
  BY <1>1 DEF OneGreenletInv, Once, FlatTree

\* Waking the greenlets just spawned leaves alive those that were and those.
LEMMA SpawnedLive ==
  ASSUME TypeOK, NEW S, \A j \in S : FreeGreenlets(j) # {}, NEW fired,
         pc' = Woken(SpawnedPc(S), fired),
         NEW j \in Jobs, NEW g \in Greenlets, Live(j, g)'
  PROVE  Live(j, g) \/ (j \in S /\ g = AnyFree(j))
<1>1. Live(j, g) \/ SpawnedPc(S)[j][g] # "none"
  BY WokenLive
<1>2. QED
  BY <1>1, AnyFreeType DEF SpawnedPc, Live, TypeOK, GreenletTypeOK

\* The same for a manager's greenlet, alive itself, that starts its subtree.
LEMMA ManagerLive ==
  ASSUME TypeOK, NEW S, \A j \in S : FreeGreenlets(j) # {}, NEW fired,
         NEW m \in Jobs, NEW n \in Greenlets, Live(m, n),
         pc' = Woken([SpawnedPc(S) EXCEPT ![m][n] = "subtree"], fired),
         NEW j \in Jobs, NEW g \in Greenlets, Live(j, g)'
  PROVE  Live(j, g) \/ (j \in S /\ g = AnyFree(j))
<1>1. CASE j = m /\ g = n
  BY <1>1
<1>2. CASE ~(j = m /\ g = n)
  <2>1. SpawnedPc(S) \in [Jobs -> [Greenlets -> Places]]
    BY SpawnType DEF TypeOK
  <2>2. [SpawnedPc(S) EXCEPT ![m][n] = "subtree"][j][g] = SpawnedPc(S)[j][g]
    BY <1>2, <2>1
  <2>3. Live(j, g) \/ SpawnedPc(S)[j][g] # "none"
    BY <2>2, WokenLive
  <2>4. QED
    BY <2>3, AnyFreeType DEF SpawnedPc, Live, TypeOK, GreenletTypeOK
<1>3. QED
  BY <1>1, <1>2

\* A job with a subtree is of the tree, and the subtree's jobs are not.
LEMMA ManagerOutside ==
  ASSUME TopologyAssumption, NEW j \in Jobs, SubtreeOf[j] # NoTree
  PROVE  /\ TreeOf[j] = Root /\ j \in Once
         /\ SubtreeOf[j] \in Trees \ {Root}
         /\ \A k \in Once : TreeOf[k] = Root
BY DEF TopologyAssumption, Once, FlatTree

\* A manager that starts the jobs of its subtree spawns none of the tree's.
LEMMA ManagerStartsOne ==
  ASSUME TopologyAssumption, TypeOK, OneGreenletInv, main = "running", main' = main,
         NEW j \in Jobs, NEW g \in Greenlets, SubtreeOf[j] # NoTree, Live(j, g),
         NEW st, NEW flags, \A k \in JobsOf(Root) : st[k] = "FAILED" => state[k] = "FAILED",
         StartJobs(SubtreeOf[j], st, flags,
                   [SpawnedPc(Spawning(SubtreeOf[j], st)) EXCEPT ![j][g] = "subtree"])
  PROVE  OneGreenletInv'
<1> DEFINE S == Spawning(SubtreeOf[j], st)
<1>1. PICK fired : pc' = Woken([SpawnedPc(S) EXCEPT ![j][g] = "subtree"], fired)
  BY DEF StartJobs
<1>2. state' = st /\ \A k \in S : FreeGreenlets(k) # {}
  BY DEF StartJobs
<1>3. S \cap Once = {}
  BY ManagerOutside DEF Spawning, JobsOf
<1> HIDE DEF S
<1>4. \A k \in Jobs, h \in Greenlets : Live(k, h)' => Live(k, h) \/ (k \in S /\ h = AnyFree(k))
  BY <1>1, <1>2, ManagerLive
<1>5. \A k \in Once : state'[k] = "FAILED" => k \notin S /\ state[k] = "FAILED"
  BY <1>2, <1>3, ManagerOutside DEF JobsOf, Once
<1>6. QED
  BY <1>2, <1>3, <1>4, <1>5, SpawnedOne

LEMMA GreenletStepOne ==
  ASSUME TopologyAssumption, TypeOK, OneGreenletInv, main = "running",
         NEW j \in Jobs, NEW g \in Greenlets, GreenletStep(j, g)
  PROVE  OneGreenletInv'
<1>1. CASE WaitForParent(j, g)
  <2>1. NothingSpawned
    BY <1>1 DEF WaitForParent, NothingSpawned, Live, TypeOK, GreenletTypeOK
  <2>2. state' = state /\ main' = main
    BY <1>1 DEF WaitForParent
  <2>3. ASSUME NEW k \in Once
        PROVE  OneGreenletOf(k)'
    <3>1. k \in Jobs /\ OneGreenletOf(k)
      BY DEF OneGreenletInv, Once
    <3>2. QED
      BY <2>1, <2>2, <3>1 DEF NothingSpawned, OneGreenletOf
  <2>4. QED
    BY <2>2, <2>3 DEF OneGreenletInv, Once, FlatTree
<1>2. CASE SkipUndefined(j, g)
  BY <1>2, JobStepOne DEF SkipUndefined, ParentsMet
<1>3. CASE AbandonStart(j, g)
  BY <1>3, JobStepOne DEF AbandonStart, ParentsMet
<1>4. CASE BlockOnResources(j, g)
  BY <1>4, JobStepOne DEF BlockOnResources, PassesCheck, ParentsMet
<1>5. CASE GiveUpResources(j, g)
  BY <1>5, JobStepOne DEF GiveUpResources
<1>6. CASE StartScript(j, g)
  BY <1>6, JobStepOne DEF StartScript, Admitted, PassesCheck, ParentsMet
<1>7. CASE FailToStart(j, g)
  BY <1>7, JobStepOne DEF FailToStart, Admitted, PassesCheck, ParentsMet
<1>8. CASE ScriptExits(j, g)
  BY <1>8, JobStepOne DEF ScriptExits
<1>9. SubtreeReturned(j, g) \/ Admitted(j, g) => pc[j][g] \notin {"none", "waiting"} /\ Live(j, g)
  BY DEF SubtreeReturned, Admitted, PassesCheck, ParentsMet, Live
<1>10. CASE EnterSubtree(j, g)
  <2> DEFINE st == [state EXCEPT ![j] = "RUNNING"]
  <2>1. \A k \in JobsOf(Root) : st[k] = "FAILED" => state[k] = "FAILED"
    BY DEF TypeOK, StateTypeOK, JobsOf
  <2>2. SubtreeOf[j] # NoTree /\ Live(j, g) /\ main' = main
    BY <1>9, <1>10 DEF EnterSubtree
  <2>3. StartJobs(SubtreeOf[j], st, events,
                  [SpawnedPc(Spawning(SubtreeOf[j], st)) EXCEPT ![j][g] = "subtree"])
    BY <1>10 DEF EnterSubtree
  <2> HIDE DEF st
  <2>4. QED
    BY <2>1, <2>2, <2>3, ManagerStartsOne
<1>11. CASE LeaveSubtree(j, g)
  BY <1>9, <1>11, JobStepOne DEF LeaveSubtree
<1>12. CASE LastIteration(j, g)
  BY <1>9, <1>12, JobStepOne DEF LastIteration
<1>13. CASE NextIteration(j, g)
  <2> DEFINE st == ResetStates(SubtreeOf[j], [state EXCEPT ![j] = "RUNNING"])
  <2>1. \A k \in JobsOf(Root) : st[k] = "FAILED" => state[k] = "FAILED"
    BY DEF TypeOK, StateTypeOK, JobsOf, ResetStates
  <2>2. SubtreeOf[j] # NoTree /\ Live(j, g) /\ main' = main
    BY <1>9, <1>13 DEF NextIteration, SubtreeReturned
  <2>3. StartJobs(SubtreeOf[j], st, ResetEvents(SubtreeOf[j]),
                  [SpawnedPc(Spawning(SubtreeOf[j], st)) EXCEPT ![j][g] = "subtree"])
    BY <1>13 DEF NextIteration
  <2> HIDE DEF st
  <2>4. QED
    BY <2>1, <2>2, <2>3, ManagerStartsOne
<1>14. QED
  BY <1>1, <1>2, <1>3, <1>4, <1>5, <1>6, <1>7, <1>8, <1>10, <1>11, <1>12, <1>13
     DEF GreenletStep

LEMMA OneStep ==
  ASSUME TopologyAssumption, TypeOK, OneGreenletInv, [Next]_vars
  PROVE  OneGreenletInv'
<1>1. CASE RunTree
  <2>1. CASE cancelled[Root]
    <3>1. state' = state /\ pc' = pc /\ main' # "new"
      BY <1>1, <2>1 DEF RunTree, ExitWith
    <3>2. QED
      BY <3>1 DEF OneGreenletInv, OneGreenletOf, Live, Once, FlatTree
  <2>2. CASE ~cancelled[Root]
    <3> DEFINE S == Spawning(Root, state)
    <3>1. main = "new" /\ main' = "running" /\ StartJobs(Root, state, events, SpawnedPc(S))
      BY <1>1, <2>2 DEF RunTree
    <3>2. PICK fired : pc' = Woken(SpawnedPc(S), fired)
      BY <3>1 DEF StartJobs
    <3>3. state' = state /\ \A j \in S : FreeGreenlets(j) # {} /\ j \in Jobs
      BY <3>1 DEF StartJobs, Spawning, JobsOf
    <3>4. \A j \in Jobs : state[j] # "FAILED" /\ \A g \in Greenlets : ~Live(j, g)
      BY <3>1 DEF OneGreenletInv
    <3> HIDE DEF S
    <3>5. \A j \in Jobs, g \in Greenlets : Live(j, g)' => Live(j, g) \/ (j \in S /\ g = AnyFree(j))
      BY <3>2, <3>3, SpawnedLive
    <3>6. QED
      BY <3>1, <3>3, <3>4, <3>5, SpawnedOne DEF Once
  <2>3. QED
    BY <2>1, <2>2
<1>2. CASE RunReturns
  BY <1>2 DEF RunReturns, ExitWith, OneGreenletInv, OneGreenletOf, Live, Once, FlatTree
<1>3. CASE RunTimesOut \/ Abort
  <2>1. /\ CancelTree(Root, {})
        /\ main = "new" \/ main' # "new"
        /\ \A j \in Jobs, g \in Greenlets : Live(j, g)' <=> Live(j, g)
    BY <1>3 DEF RunTimesOut, Abort, ExitWith, Live
  <2>2. QED
    BY <2>1, CancelOne
<1>4. CASE RunningStep
  <2>1. main = "running"
    BY <1>4 DEF RunningStep
  <2>2. ASSUME NEW j \in Jobs, NEW g \in Greenlets, GreenletStep(j, g)
        PROVE  OneGreenletInv'
    BY <2>1, <2>2, GreenletStepOne
  <2>3. ASSUME NEW t \in Trees, IsDoneEvent(t)
        PROVE  OneGreenletInv'
    <3>1. pc' = pc /\ main' = main
      BY <2>3 DEF IsDoneEvent
    <3>2. CASE CancelTree(t, {t})
      <4>1. \A j \in Jobs, g \in Greenlets : Live(j, g)' <=> Live(j, g)
        BY <3>1 DEF Live
      <4>2. QED
        BY <2>1, <3>1, <3>2, <4>1, CancelOne
    <3>3. CASE state' = state
      BY <3>1, <3>3 DEF OneGreenletInv, OneGreenletOf, Live, Once, FlatTree
    <3>4. QED
      BY <2>3, <3>2, <3>3 DEF IsDoneEvent
  <2>4. ASSUME NEW j \in Jobs, Reschedule(j)
        PROVE  OneGreenletInv'
    <3>1. /\ state[j] = "FAILED" /\ state' = [state EXCEPT ![j] = "RESET"]
          /\ FreeGreenlets(j) # {} /\ pc' = SpawnedPc({j}) /\ main' = "running"
      BY <2>1, <2>4 DEF Reschedule
    <3>2. j \in Once => \A g \in Greenlets : ~Live(j, g)
      BY <3>1 DEF OneGreenletInv, OneGreenletOf
    <3>3. pc' = Woken(SpawnedPc({j}), {})
      BY <3>1 DEF Woken, Wakes, SpawnedPc, TypeOK, GreenletTypeOK
    <3>4. \A k \in Jobs : state'[k] = "FAILED" => k \notin {j} /\ state[k] = "FAILED"
      BY <3>1 DEF TypeOK, StateTypeOK
    <3>5. \A k \in Jobs, g \in Greenlets : Live(k, g)' => Live(k, g) \/ (k \in {j} /\ g = AnyFree(k))
      BY <3>1, <3>3, SpawnedLive
    <3>6. /\ \A k \in {j} : FreeGreenlets(k) # {}
          /\ \A k \in {j} \cap Once, g \in Greenlets : ~Live(k, g)
          /\ main' = "running"
          /\ \A k \in Once : state'[k] = "FAILED" => k \notin {j} /\ state[k] = "FAILED"
      BY <3>1, <3>2, <3>4 DEF Once
    <3>7. QED
      BY <3>5, <3>6, SpawnedOne
  <2>5. ASSUME NEW j \in Jobs, ManualOverride(j)
        PROVE  OneGreenletInv'
    <3>1. PICK fired : pc' = Woken(pc, fired)
      BY <2>5 DEF ManualOverride
    <3>2. state' = [state EXCEPT ![j] = "SUCCESSFULL"] /\ main' = main
      BY <2>5 DEF ManualOverride
    <3>3. \A k \in Jobs : state'[k] = "FAILED" => state[k] = "FAILED"
      BY <3>2 DEF TypeOK, StateTypeOK
    <3>4. \A k \in Jobs, g \in Greenlets : Live(k, g)' => Live(k, g)
      BY <3>1, WokenLive DEF Live
    <3>5. QED
      BY <3>2, <3>3, <3>4 DEF OneGreenletInv, OneGreenletOf, Once, FlatTree
  <2>6. ASSUME NEW j \in Jobs, NEW g \in Greenlets, InterruptStart(j, g)
        PROVE  OneGreenletInv'
    BY <2>1, <2>6, Interrupted, CancelOne
  <2>7. QED
    BY <1>4, <2>2, <2>3, <2>4, <2>5, <2>6 DEF RunningStep
<1>5. CASE UNCHANGED vars
  BY <1>5 DEF vars, OneGreenletInv, OneGreenletOf, Live, Once, FlatTree
<1>6. QED
  BY <1>1, <1>2, <1>3, <1>4, <1>5 DEF Next, Terminated

LEMMA OneInvariant == Spec => []OneGreenletInv
<1>1. Init => OneGreenletInv
  BY DEF Init, OneGreenletInv, OneGreenletOf, Live, Once
<1>2. TypeOK /\ OneGreenletInv /\ [Next]_vars => OneGreenletInv'
  BY TopologyAssumption, OneStep
<1>3. QED
  BY <1>1, <1>2, TypeCorrect, PTL DEF Spec

\* In every tree a job of the tree itself, one that manages a subtree included,
\* never has two greenlets, and a FAILED one has none: reschedule() starts it
\* without a second execution being possible.
THEOREM OneGreenletOfRoot == Spec => [](\A j \in JobsOf(Root) : OneGreenletOf(j))
<1>1. OneGreenletInv => \A j \in JobsOf(Root) : OneGreenletOf(j)
  BY DEF OneGreenletInv, Once, JobsOf
<1>2. QED
  BY <1>1, OneInvariant, PTL

\* In a flat tree no job ever has two greenlets, whatever is rescheduled,
\* overridden or cancelled.
THEOREM OneGreenletPerJob == FlatTree /\ Spec => []OneGreenlet
<1>1. FlatTree /\ OneGreenletInv => OneGreenlet
  BY DEF OneGreenletInv, OneGreenlet, OneGreenletOf, Once
<1>2. FlatTree => FlatTree'
  BY DEF FlatTree
<1>3. QED
  BY <1>1, <1>2, OneInvariant, PTL

-----------------------------------------------------------------------------
(* What the steps change.                                                  *)

LEMMA WokenPlace ==
  ASSUME NEW places \in [Jobs -> [Greenlets -> Places]], NEW fired,
         NEW j \in Jobs, NEW g \in Greenlets
  PROVE  \/ Woken(places, fired)[j][g] = places[j][g]
         \/ pc[j][g] = "waiting" /\ Woken(places, fired)[j][g] = "ready"
BY DEF Woken, Wakes

\* A greenlet that stays where it is, or is spawned or woken.
OnlyRoused(j, g) ==
  \/ pc'[j][g] = pc[j][g]
  \/ pc[j][g] \in {"none", "waiting"} /\ pc'[j][g] = "ready"

\* One that stays where it is or is woken.
OnlyWoken(j, g) ==
  \/ pc'[j][g] = pc[j][g]
  \/ pc[j][g] = "waiting" /\ pc'[j][g] = "ready"

\* One that stays where it is or is interrupted in its start.
OnlyInterrupted(j, g) ==
  \/ pc'[j][g] = pc[j][g]
  \/ pc[j][g] = "ready" /\ pc'[j][g] = "checked"

\* A greenlet's step changes its job's state and its own place, and wakes others.
LEMMA JobStepEffect ==
  ASSUME TypeOK, NEW j \in Jobs, NEW g \in Greenlets, pc[j][g] # "waiting",
         NEW s, NEW fired, NEW p \in Places, JobStep(j, g, s, fired, p)
  PROVE  /\ state'[j] = s
         /\ \A k \in Jobs : k # j => state'[k] = state[k]
         /\ pc'[j][g] = p
         /\ \A k \in Jobs, h \in Greenlets : ~(k = j /\ h = g) => OnlyWoken(k, h)
<1> DEFINE places == [pc EXCEPT ![j][g] = p]
<1>1. state' = [state EXCEPT ![j] = s] /\ pc' = Woken(places, fired)
  BY DEF JobStep
<1>2. /\ places \in [Jobs -> [Greenlets -> Places]]
      /\ places[j][g] = p
      /\ \A k \in Jobs, h \in Greenlets : ~(k = j /\ h = g) => places[k][h] = pc[k][h]
  BY DEF TypeOK, GreenletTypeOK
<1> HIDE DEF places
<1>3. state'[j] = s /\ \A k \in Jobs : k # j => state'[k] = state[k]
  BY <1>1 DEF TypeOK, StateTypeOK
<1>4. pc'[j][g] = p
  BY <1>1, <1>2, WokenPlace
<1>5. ASSUME NEW k \in Jobs, NEW h \in Greenlets, ~(k = j /\ h = g)
      PROVE  OnlyWoken(k, h)
  BY <1>1, <1>2, <1>5, WokenPlace DEF OnlyWoken
<1>6. QED
  BY <1>3, <1>4, <1>5

\* A greenlet just spawned is runnable, and no other changes its place.
LEMMA SpawnedPlace ==
  ASSUME GreenletTypeOK, NEW S, \A j \in S : FreeGreenlets(j) # {},
         NEW j \in Jobs, NEW g \in Greenlets
  PROVE  \/ SpawnedPc(S)[j][g] = pc[j][g]
         \/ j \in S /\ pc[j][g] = "none" /\ SpawnedPc(S)[j][g] = "ready"
<1>1. CASE j \in S
  BY <1>1, AnyFreeType DEF SpawnedPc, GreenletTypeOK
<1>2. CASE j \notin S
  BY <1>2 DEF SpawnedPc
<1>3. QED
  BY <1>1, <1>2

\* run() makes the greenlets of the jobs it starts runnable, and wakes others.
LEMMA StartJobsEffect ==
  ASSUME TypeOK, NEW t, NEW st, NEW flags,
         StartJobs(t, st, flags, SpawnedPc(Spawning(t, st))),
         NEW j \in Jobs, NEW g \in Greenlets
  PROVE  OnlyRoused(j, g)
<1> DEFINE S == Spawning(t, st)
<1>1. PICK fired : pc' = Woken(SpawnedPc(S), fired)
  BY DEF StartJobs
<1>2. GreenletTypeOK /\ \A i \in S : FreeGreenlets(i) # {}
  BY DEF StartJobs, TypeOK
<1> HIDE DEF S
<1>3. SpawnedPc(S) \in [Jobs -> [Greenlets -> Places]]
  BY <1>2, SpawnType
<1>4. \/ SpawnedPc(S)[j][g] = pc[j][g]
      \/ pc[j][g] = "none" /\ SpawnedPc(S)[j][g] = "ready"
  BY <1>2, SpawnedPlace
<1>5. \/ pc'[j][g] = SpawnedPc(S)[j][g]
      \/ pc[j][g] = "waiting" /\ pc'[j][g] = "ready"
  BY <1>1, <1>3, WokenPlace
<1>6. QED
  BY <1>4, <1>5 DEF OnlyRoused

\* Greenlet g of j starts the jobs of its subtree.
ManagerStarts(j, g, st, flags) ==
  StartJobs(SubtreeOf[j], st, flags,
            [SpawnedPc(Spawning(SubtreeOf[j], st)) EXCEPT ![j][g] = "subtree"])

\* The same for a manager, which goes on to its subtree's run().
LEMMA ManagerStartsEffect ==
  ASSUME TypeOK, NEW st, NEW flags,
         NEW m \in Jobs, NEW n \in Greenlets, pc[m][n] # "waiting",
         ManagerStarts(m, n, st, flags)
  PROVE  /\ state' = st
         /\ pc'[m][n] = "subtree"
         /\ \A k \in Jobs, h \in Greenlets : ~(k = m /\ h = n) => OnlyRoused(k, h)
<1> DEFINE S      == Spawning(SubtreeOf[m], st)
           places == [SpawnedPc(S) EXCEPT ![m][n] = "subtree"]
<1>1. PICK fired : pc' = Woken(places, fired)
  BY DEF ManagerStarts, StartJobs
<1>2. GreenletTypeOK /\ state' = st /\ \A i \in S : FreeGreenlets(i) # {}
  BY DEF ManagerStarts, StartJobs, TypeOK
<1> HIDE DEF S
<1>3. /\ places \in [Jobs -> [Greenlets -> Places]]
      /\ places[m][n] = "subtree"
      /\ \A k \in Jobs, h \in Greenlets : ~(k = m /\ h = n) => places[k][h] = SpawnedPc(S)[k][h]
  BY <1>2, SpawnType DEF Places
<1> HIDE DEF places
<1>4. pc'[m][n] = "subtree"
  BY <1>1, <1>3, WokenPlace
<1>5. ASSUME NEW k \in Jobs, NEW h \in Greenlets, ~(k = m /\ h = n)
      PROVE  OnlyRoused(k, h)
  <2>1. \/ SpawnedPc(S)[k][h] = pc[k][h]
        \/ pc[k][h] = "none" /\ SpawnedPc(S)[k][h] = "ready"
    BY <1>2, SpawnedPlace
  <2>2. pc'[k][h] = places[k][h] \/ (pc[k][h] = "waiting" /\ pc'[k][h] = "ready")
    BY <1>1, <1>3, WokenPlace
  <2>3. QED
    BY <1>3, <1>5, <2>1, <2>2 DEF OnlyRoused
<1>6. QED
  BY <1>2, <1>4, <1>5

\* A request moves no greenlet but those it spawns or wakes.
LEMMA RequestEffect ==
  ASSUME TypeOK, NEW j \in Jobs, Reschedule(j) \/ ManualOverride(j),
         NEW k \in Jobs, NEW g \in Greenlets
  PROVE  OnlyRoused(k, g)
<1>1. CASE Reschedule(j)
  <2> DEFINE S == {j}
  <2>1. pc' = SpawnedPc(S) /\ \A i \in S : FreeGreenlets(i) # {}
    BY <1>1 DEF Reschedule
  <2> HIDE DEF S
  <2>2. \/ SpawnedPc(S)[k][g] = pc[k][g]
        \/ pc[k][g] = "none" /\ SpawnedPc(S)[k][g] = "ready"
    BY <2>1, SpawnedPlace DEF TypeOK
  <2>3. QED
    BY <2>1, <2>2 DEF OnlyRoused
<1>2. CASE ManualOverride(j)
  <2>1. PICK fired : pc' = Woken(pc, fired)
    BY <1>2 DEF ManualOverride
  <2>2. pc \in [Jobs -> [Greenlets -> Places]]
    BY DEF TypeOK, GreenletTypeOK
  <2>3. \/ Woken(pc, fired)[k][g] = pc[k][g]
        \/ pc[k][g] = "waiting" /\ Woken(pc, fired)[k][g] = "ready"
    BY <2>2, WokenPlace
  <2>4. QED
    BY <2>1, <2>3 DEF OnlyRoused
<1>3. QED
  BY <1>1, <1>2

\* Cancelling changes the state of jobs that have not been started, and leaves
\* none such in a tree that it marks.
LEMMA CancelEffect ==
  ASSUME TopologyAssumption, TypeOK, NEW t \in Trees, NEW completed, CancelTree(t, completed)
  PROVE  /\ \A j \in Jobs :
              \/ state'[j] = state[j]
              \/ state[j] \notin DONE_STATES \cup {"RUNNING"} /\ state'[j] = "CANCELLED"
         /\ \A u \in Trees : cancelled'[u] <=> cancelled[u] \/ u \in Cancels(t)
         /\ \A j \in Jobs : TreeOf[j] \in Cancels(t) => state'[j] \in DONE_STATES \cup {"RUNNING"}
BY DEF TypeOK, StateTypeOK, TreeTypeOK, CancelTree, StatesCancelled, FlagsCancelled,
       DONE_STATES

-----------------------------------------------------------------------------
(* Completion is noticed.                                                  *)

NoticedInv == CompletionNoticed /\ (main = "running" => Root \in linked)

\* A step that neither cancels the tree nor makes it forget a callback: either no
\* state of the tree's own jobs changed, or it schedules the callback.
LEMMA NoticedStep ==
  ASSUME NoticedInv, main = "running", linked \subseteq linked',
         cancelled'[Root] = cancelled[Root], done[Root] => done'[Root],
         Root \in notify => Root \in notify',
         \A j \in JobsOf(Root) : state'[j] # state[j] => Root \in notify'
  PROVE  NoticedInv'
<1>1. Root \in linked'
  BY DEF NoticedInv
<1>2. ASSUME Root \notin notify', Complete(Root, state', cancelled')
      PROVE  Complete(Root, state, cancelled)
  BY <1>2 DEF Complete
<1>3. main' = "running" /\ Complete(Root, state', cancelled') => done'[Root] \/ Root \in notify'
  BY <1>2 DEF NoticedInv, CompletionNoticed
<1>4. CompletionNoticed'
  <2>1. Complete(Root, state, cancelled)' <=> Complete(Root, state', cancelled')
    BY DEF Complete, JobsOf
  <2>2. QED
    BY <1>3, <2>1 DEF CompletionNoticed
<1>5. QED
  BY <1>1, <1>4 DEF NoticedInv

\* The state that a step changes schedules the callback of a linked tree.
LEMMA NotifiedRoot ==
  ASSUME NEW st, NEW fired, NEW j \in JobsOf(Root), st[j] # state[j]
  PROVE  Root \in Notified(st, fired)
BY DEF Notified, JobsOf

LEMMA NoticedGreenletStep ==
  ASSUME TopologyAssumption, TypeOK, NoticedInv, main = "running",
         NEW j \in Jobs, NEW g \in Greenlets, GreenletStep(j, g)
  PROVE  NoticedInv'
<1>1. Root \in linked /\ Root \in Trees
  BY DEF NoticedInv, TopologyAssumption
<1>2. ASSUME NEW s, NEW fired, NEW p, JobStep(j, g, s, fired, p), linked' = linked,
             cancelled'[Root] = cancelled[Root], done'[Root] = done[Root]
      PROVE  NoticedInv'
  <2> DEFINE st == [state EXCEPT ![j] = s]
  <2>1. state' = st /\ notify' = notify \cup (Notified(st, fired) \cap linked)
    BY <1>2 DEF JobStep
  <2> HIDE DEF st
  <2>2. \A k \in JobsOf(Root) : state'[k] # state[k] => Root \in notify'
    BY <1>1, <2>1, NotifiedRoot
  <2>3. QED
    BY <1>2, <2>1, <2>2, NoticedStep
<1>3. ASSUME NEW t \in Trees, NEW st, NEW flags, NEW places, StartJobs(t, st, flags, places),
             cancelled'[Root] = cancelled[Root], done'[Root] = done[Root]
      PROVE  NoticedInv'
  <2>1. PICK fired : notify' = notify \cup {t} \cup (Notified(st, fired) \cap linked)
    BY <1>3 DEF StartJobs
  <2>2. state' = st /\ linked \subseteq linked'
    BY <1>3 DEF StartJobs
  <2>3. \A k \in JobsOf(Root) : state'[k] # state[k] => Root \in notify'
    BY <1>1, <2>1, <2>2, NotifiedRoot
  <2>4. QED
    BY <1>3, <2>1, <2>2, <2>3, NoticedStep
<1>4. CASE WaitForParent(j, g)
  BY <1>4, NoticedStep DEF WaitForParent
<1>5. UNCHANGED <<linked, cancelled, done, run, main>> =>
        linked' = linked /\ cancelled'[Root] = cancelled[Root] /\ done'[Root] = done[Root]
  OBVIOUS
<1>6. CASE SkipUndefined(j, g) \/ AbandonStart(j, g) \/ BlockOnResources(j, g)
  BY <1>2, <1>5, <1>6 DEF SkipUndefined, AbandonStart, BlockOnResources
<1>7. CASE GiveUpResources(j, g) \/ StartScript(j, g) \/ FailToStart(j, g)
  BY <1>2, <1>5, <1>7 DEF GiveUpResources, StartScript, FailToStart
<1>8. CASE ScriptExits(j, g) \/ LeaveSubtree(j, g)
  BY <1>2, <1>5, <1>8 DEF ScriptExits, LeaveSubtree
<1>9. ASSUME SubtreeOf[j] # NoTree
      PROVE  /\ SubtreeOf[j] \in Trees
             /\ Advance(SubtreeOf[j]) =>
                  cancelled'[Root] = cancelled[Root] /\ done'[Root] = done[Root]
  BY <1>1, <1>9, ManagerOutside DEF Advance, TypeOK, TreeTypeOK
<1>10. CASE LastIteration(j, g)
  BY <1>2, <1>9, <1>10 DEF LastIteration, SubtreeReturned
<1>11. CASE NextIteration(j, g)
  BY <1>3, <1>9, <1>11 DEF NextIteration, SubtreeReturned
<1>12. CASE EnterSubtree(j, g)
  BY <1>3, <1>9, <1>12 DEF EnterSubtree
<1>13. QED
  BY <1>4, <1>6, <1>7, <1>8, <1>10, <1>11, <1>12 DEF GreenletStep

\* The callback, if it finds nothing left to wait for, sets the done_event.
LEMMA NoticedIsDoneEvent ==
  ASSUME TopologyAssumption, TypeOK, NoticedInv, main = "running",
         NEW t \in Trees, IsDoneEvent(t)
  PROVE  NoticedInv'
<1>1. /\ Root \in linked /\ Root \in Trees
      /\ linked' = linked /\ main' = main
  BY DEF NoticedInv, TopologyAssumption, IsDoneEvent
<1>2. CASE Complete(t, state, cancelled)
  <2>1. CancelTree(t, {t})
    BY <1>2 DEF IsDoneEvent
  <2>2. CASE t = Root
    <3>1. done'[Root]
      BY <1>1, <2>1, <2>2 DEF CancelTree
    <3>2. QED
      BY <1>1, <3>1 DEF NoticedInv, CompletionNoticed
  <2>3. CASE t # Root
    <3>1. Root \notin Cancels(t)
      BY <2>3 DEF Cancels, Subtrees
    <3>2. cancelled'[Root] = cancelled[Root] /\ (done[Root] => done'[Root])
      BY <1>1, <2>1, <3>1 DEF CancelTree, FlagsCancelled, TypeOK, TreeTypeOK
    <3>3. /\ Root \in notify => Root \in notify'
          /\ \A j \in JobsOf(Root) : state'[j] # state[j] => Root \in notify'
      BY <1>1, <2>1, <2>3, NotifiedRoot DEF CancelTree
    <3>4. QED
      BY <1>1, <3>2, <3>3, NoticedStep
  <2>4. QED
    BY <2>2, <2>3
<1>3. CASE ~Complete(t, state, cancelled)
  <2>1. notify' = notify \ {t} /\ UNCHANGED <<state, cancelled, done>>
    BY <1>3 DEF IsDoneEvent
  <2>2. CASE t = Root
    <3>1. ~Complete(Root, state, cancelled)'
      BY <1>3, <2>1, <2>2 DEF Complete, JobsOf
    <3>2. QED
      BY <1>1, <3>1 DEF NoticedInv, CompletionNoticed
  <2>3. CASE t # Root
    BY <1>1, <2>1, <2>3, NoticedStep
  <2>4. QED
    BY <2>2, <2>3
<1>4. QED
  BY <1>2, <1>3

\* In every tree, with any number of subtrees and iterations, and whatever is
\* requested: while the main greenlet waits in run() and nothing is left to wait
\* for, its done_event is set or a callback that will find this out is scheduled.
THEOREM CompletionAlwaysNoticed == Spec => []CompletionNoticed
<1>1. Init => NoticedInv
  BY DEF Init, NoticedInv, CompletionNoticed
<1>2. TypeOK /\ NoticedInv /\ [Next]_vars => NoticedInv'
  <2> SUFFICES ASSUME TypeOK, NoticedInv, [Next]_vars
               PROVE  NoticedInv'
    OBVIOUS
  <2>1. TopologyAssumption
    BY TopologyAssumption
  <2>2. CASE RunTree
    <3>1. main' = "running" => Root \in linked' /\ Root \in notify'
      BY <2>2 DEF RunTree, ExitWith, StartJobs
    <3>2. QED
      BY <3>1 DEF NoticedInv, CompletionNoticed
  <2>3. CASE RunReturns \/ RunTimesOut
    BY <2>3 DEF RunReturns, RunTimesOut, ExitWith, NoticedInv, CompletionNoticed
  <2>4. ASSUME CancelTree(Root, {}), ~cancelled[Root], linked' = linked, main' = main
        PROVE  NoticedInv'
    <3>1. Root \in Cancels(Root) /\ Root \in Trees
      BY <2>1, <2>4 DEF Cancels, TopologyAssumption
    <3>2. Complete(Root, state', cancelled') => done'[Root]
      BY <2>4, <3>1 DEF CancelTree
    <3>3. Complete(Root, state, cancelled)' => Complete(Root, state', cancelled')
      BY DEF Complete, JobsOf
    <3>4. QED
      BY <2>4, <3>2, <3>3 DEF NoticedInv, CompletionNoticed
  <2>5. CASE RunningStep
    <3>1. main = "running" /\ Root \in linked
      BY <2>5 DEF RunningStep, NoticedInv
    <3>2. ASSUME NEW j \in Jobs, Reschedule(j)
          PROVE  NoticedInv'
      <4>1. \A k \in JobsOf(Root) : state'[k] # state[k] => Root \in notify'
        BY <3>1, <3>2, NotifiedRoot DEF Reschedule
      <4>2. QED
        BY <3>1, <3>2, <4>1, NoticedStep DEF Reschedule
    <3>3. ASSUME NEW j \in Jobs, ManualOverride(j)
          PROVE  NoticedInv'
      <4>1. \A k \in JobsOf(Root) : state'[k] # state[k] => Root \in notify'
        BY <3>1, <3>3, NotifiedRoot DEF ManualOverride
      <4>2. QED
        BY <3>1, <3>3, <4>1, NoticedStep DEF ManualOverride
    <3>4. ASSUME NEW j \in Jobs, NEW g \in Greenlets, InterruptStart(j, g)
          PROVE  NoticedInv'
      BY <2>4, <3>4, Interrupted
    <3>5. QED
      BY <2>1, <2>5, <3>1, <3>2, <3>3, <3>4, NoticedGreenletStep, NoticedIsDoneEvent
         DEF RunningStep
  <2>6. CASE UNCHANGED vars
    BY <2>6 DEF vars, NoticedInv, CompletionNoticed, Complete, JobsOf
  <2>7. CASE Abort
    BY <2>4, <2>7 DEF Abort
  <2>8. QED
    BY <2>2, <2>3, <2>5, <2>6, <2>7 DEF Next, Terminated
<1>3. NoticedInv => CompletionNoticed
  BY DEF NoticedInv
<1>4. QED
  BY <1>1, <1>2, <1>3, TypeCorrect, PTL DEF Spec

-----------------------------------------------------------------------------
(* What a job's state says of its greenlets.                               *)

\* The invariant for every job: undefined ones stay so and are never run, only
\* those with resources wait for any, and a cancelled tree has none left IDLE.
StageOf(j) ==
  /\ state[j] = "UNDEF" <=> j \in Undefined
  /\ j \notin WithResources => state[j] # "BLOCKED"
  /\ cancelled[Root] \/ cancelled[TreeOf[j]] => state[j] # "IDLE"
  /\ \A g \in Greenlets :
       /\ pc[j][g] = "acquiring" => j \in WithResources
       /\ pc[j][g] \in {"checked", "acquiring", "script", "subtree"} => j \notin Undefined

StageInv == \A j \in Jobs : StageOf(j)

Executes(j, g) == pc[j][g] \in {"script", "subtree"}

\* The invariant for a job that is run once: it is RUNNING while its greenlet
\* executes it and, start failures aside, only then.
OnceOf(j) ==
  /\ run[TreeOf[j]] = 0
  /\ \A g \in Greenlets : Executes(j, g) => state[j] = "RUNNING"
  /\ state[j] = "RUNNING" => Once \cap CanRaise # {} \/ \E g \in Greenlets : Executes(j, g)

OnceInv == \A j \in Once : OnceOf(j)

NeverAdvanced == \A j \in Once : run[TreeOf[j]] = 0

\* A step that changes states, places and marks only in these ways keeps StageInv.
LEMMA StageKept ==
  ASSUME TopologyAssumption, TypeOK, StageInv,
         \A j \in Jobs :
           \/ state'[j] = state[j]
           \/ /\ state'[j] \notin {"IDLE", "UNDEF"} /\ j \notin Undefined
              /\ state'[j] = "BLOCKED" => j \in WithResources,
         \A j \in Jobs, g \in Greenlets :
           \/ pc'[j][g] = pc[j][g]
           \/ pc'[j][g] \in {"none", "ready", "waiting"}
           \/ j \notin Undefined /\ (pc'[j][g] = "acquiring" => j \in WithResources),
         \A j \in Jobs :
           cancelled'[Root] \/ cancelled'[TreeOf[j]] =>
             cancelled[Root] \/ cancelled[TreeOf[j]] \/ state'[j] # "IDLE"
  PROVE  StageInv'
<1> SUFFICES ASSUME NEW j \in Jobs
             PROVE  StageOf(j)'
  BY DEF StageInv
<1>1. StageOf(j)
  BY DEF StageInv
<1>2. /\ state'[j] = "UNDEF" <=> j \in Undefined
      /\ j \notin WithResources => state'[j] # "BLOCKED"
      /\ cancelled'[Root] \/ cancelled'[TreeOf[j]] => state'[j] # "IDLE"
  BY <1>1 DEF StageOf
<1>3. ASSUME NEW g \in Greenlets
      PROVE  /\ pc'[j][g] = "acquiring" => j \in WithResources
             /\ pc'[j][g] \in {"checked", "acquiring", "script", "subtree"} => j \notin Undefined
  BY <1>1 DEF StageOf
<1>4. QED
  BY <1>2, <1>3 DEF StageOf

LEMMA JobStepStage ==
  ASSUME TopologyAssumption, TypeOK, StageInv,
         NEW j \in Jobs, NEW g \in Greenlets, pc[j][g] # "waiting",
         NEW s \in STATES, NEW fired, NEW p \in Places \ {"waiting"}, JobStep(j, g, s, fired, p),
         \A t \in Trees : cancelled'[t] => cancelled[t],
         s = state[j] \/ (s \notin {"IDLE", "UNDEF"} /\ j \notin Undefined),
         s = "BLOCKED" => j \in WithResources,
         p = "none" \/ (j \notin Undefined /\ (p = "acquiring" => j \in WithResources))
  PROVE  StageInv'
<1>1. /\ state'[j] = s
      /\ \A k \in Jobs : k # j => state'[k] = state[k]
      /\ pc'[j][g] = p
      /\ \A k \in Jobs, h \in Greenlets : ~(k = j /\ h = g) => OnlyWoken(k, h)
  BY JobStepEffect
<1>2. \A k \in Jobs : cancelled'[Root] \/ cancelled'[TreeOf[k]] => cancelled[Root] \/ cancelled[TreeOf[k]]
  BY DEF TopologyAssumption
<1>3. \A k \in Jobs :
        \/ state'[k] = state[k]
        \/ /\ state'[k] \notin {"IDLE", "UNDEF"} /\ k \notin Undefined
           /\ state'[k] = "BLOCKED" => k \in WithResources
  BY <1>1
<1>4. \A k \in Jobs, h \in Greenlets :
        \/ pc'[k][h] = pc[k][h]
        \/ pc'[k][h] \in {"none", "ready", "waiting"}
        \/ k \notin Undefined /\ (pc'[k][h] = "acquiring" => k \in WithResources)
  BY <1>1 DEF OnlyWoken
<1>5. QED
  BY <1>2, <1>3, <1>4, StageKept

LEMMA StageGreenletStep ==
  ASSUME TopologyAssumption, TypeOK, StageInv,
         NEW j \in Jobs, NEW g \in Greenlets, GreenletStep(j, g)
  PROVE  StageInv'
<1>1. state[j] \in STATES /\ StageOf(j)
  BY DEF TypeOK, StateTypeOK, StageInv
<1>2. UNCHANGED <<linked, cancelled, done, run, main>> => \A t \in Trees : cancelled'[t] => cancelled[t]
  OBVIOUS
<1>3. CASE WaitForParent(j, g)
  <2>1. \A k \in Jobs, h \in Greenlets : pc'[k][h] = pc[k][h] \/ pc'[k][h] = "waiting"
    BY <1>3 DEF WaitForParent, TypeOK, GreenletTypeOK
  <2>2. state' = state /\ cancelled' = cancelled
    BY <1>3 DEF WaitForParent
  <2>3. QED
    BY <2>1, <2>2, StageKept
<1>4. CASE SkipUndefined(j, g)
  BY <1>1, <1>2, <1>4, JobStepStage DEF SkipUndefined, ParentsMet, Places
<1>5. CASE AbandonStart(j, g)
  <2>1. state[j] # "BLOCKED"
    BY <1>5 DEF AbandonStart, DONE_STATES
  <2>2. QED
    BY <1>1, <1>2, <1>5, <2>1, JobStepStage DEF AbandonStart, ParentsMet, Places
<1>6. state[j] \notin DONE_STATES => j \notin Undefined
  BY <1>1 DEF StageOf, DONE_STATES
<1>8. Admitted(j, g) \/ PassesCheck(j, g)
        \/ pc[j][g] \in {"checked", "acquiring", "script", "subtree"} =>
        j \notin Undefined /\ pc[j][g] # "waiting"
  BY <1>1, <1>6 DEF StageOf, Admitted, PassesCheck, ParentsMet
<1>7. CASE BlockOnResources(j, g)
  BY <1>2, <1>7, <1>8, JobStepStage DEF BlockOnResources, Places, STATES
<1>9. CASE GiveUpResources(j, g)
  BY <1>2, <1>8, <1>9, JobStepStage DEF GiveUpResources, Places, STATES
<1>10. CASE StartScript(j, g)
  BY <1>2, <1>8, <1>10, JobStepStage DEF StartScript, Places, STATES
<1>11. CASE FailToStart(j, g)
  BY <1>2, <1>8, <1>11, JobStepStage DEF FailToStart, Places, STATES
<1>12. CASE ScriptExits(j, g)
  <2>1. PICK s \in {"SUCCESSFULL", "FAILED"} : JobStep(j, g, s, FiredBy(j, s), "none")
    BY <1>12 DEF ScriptExits
  <2>2. pc[j][g] = "script" /\ UNCHANGED <<linked, cancelled, done, run, main>>
    BY <1>12 DEF ScriptExits
  <2>3. s \in STATES /\ s \notin {"IDLE", "UNDEF", "BLOCKED"} /\ "none" \in Places \ {"waiting"}
    BY DEF STATES, Places
  <2>4. QED
    BY <1>2, <1>8, <2>1, <2>2, <2>3, JobStepStage
<1>13. CASE LeaveSubtree(j, g)
  <2>1. SubtreeOutcome(j) \in {"SUCCESSFULL", "FAILED"}
    BY DEF SubtreeOutcome
  <2>2. j \notin Undefined /\ pc[j][g] # "waiting"
    BY <1>8, <1>13 DEF LeaveSubtree, SubtreeReturned
  <2>3. /\ JobStep(j, g, SubtreeOutcome(j), {<<j, SubtreeOutcome(j)>>}, "none")
        /\ UNCHANGED <<linked, cancelled, done, run, main>>
    BY <1>13 DEF LeaveSubtree
  <2>4. /\ SubtreeOutcome(j) \in STATES /\ SubtreeOutcome(j) \notin {"IDLE", "UNDEF", "BLOCKED"}
        /\ "none" \in Places \ {"waiting"}
    BY <2>1 DEF STATES, Places
  <2>5. QED
    BY <1>2, <2>2, <2>3, <2>4, JobStepStage
<1>14. SubtreeReturned(j, g) => SubtreeOf[j] \in Trees /\ j \notin Undefined /\ pc[j][g] # "waiting"
  BY <1>8, ManagerOutside DEF SubtreeReturned
<1>15. ASSUME NEW t \in Trees, Advance(t), NEW u \in Trees, cancelled'[u]
       PROVE  cancelled[u]
  BY <1>15 DEF Advance, TypeOK, TreeTypeOK
<1>16. CASE LastIteration(j, g)
  BY <1>14, <1>15, <1>16, JobStepStage DEF LastIteration, Places, STATES
<1>17. ASSUME NEW st, NEW flags, ManagerStarts(j, g, st, flags),
              \A u \in Trees : cancelled'[u] => cancelled[u],
              j \notin Undefined, pc[j][g] # "waiting",
              \A k \in Jobs : st[k] = state[k] \/ (k \notin Undefined /\ st[k] \in {"RUNNING", "RESET"})
       PROVE  StageInv'
  <2>1. /\ state' = st
        /\ pc'[j][g] = "subtree"
        /\ \A k \in Jobs, h \in Greenlets : ~(k = j /\ h = g) => OnlyRoused(k, h)
    BY <1>17, ManagerStartsEffect
  <2>2. \A k \in Jobs : cancelled'[Root] \/ cancelled'[TreeOf[k]] => cancelled[Root] \/ cancelled[TreeOf[k]]
    BY <1>17 DEF TopologyAssumption
  <2>3. \A k \in Jobs :
          \/ state'[k] = state[k]
          \/ /\ state'[k] \notin {"IDLE", "UNDEF"} /\ k \notin Undefined
             /\ state'[k] = "BLOCKED" => k \in WithResources
    BY <1>17, <2>1
  <2>4. \A k \in Jobs, h \in Greenlets :
          \/ pc'[k][h] = pc[k][h]
          \/ pc'[k][h] \in {"none", "ready", "waiting"}
          \/ k \notin Undefined /\ (pc'[k][h] = "acquiring" => k \in WithResources)
    BY <1>17, <2>1 DEF OnlyRoused
  <2>5. QED
    BY <2>2, <2>3, <2>4, StageKept
<1>18. CASE EnterSubtree(j, g)
  <2> DEFINE st == [state EXCEPT ![j] = "RUNNING"]
  <2>1. /\ ManagerStarts(j, g, st, events)
        /\ Admitted(j, g) /\ SubtreeOf[j] \in Trees /\ cancelled' = cancelled
    BY <1>18, ManagerOutside DEF EnterSubtree, ManagerStarts
  <2>2. \A k \in Jobs : st[k] = state[k] \/ (k \notin Undefined /\ st[k] \in {"RUNNING", "RESET"})
    BY <1>8, <2>1 DEF TypeOK, StateTypeOK
  <2> HIDE DEF st
  <2>3. QED
    BY <1>8, <1>17, <2>1, <2>2
<1>19. CASE NextIteration(j, g)
  <2> DEFINE st == ResetStates(SubtreeOf[j], [state EXCEPT ![j] = "RUNNING"])
  <2>1. /\ ManagerStarts(j, g, st, ResetEvents(SubtreeOf[j]))
        /\ SubtreeReturned(j, g) /\ SubtreeOf[j] \in Trees /\ Advance(SubtreeOf[j])
    BY <1>14, <1>19 DEF NextIteration, ManagerStarts
  <2>2. \A k \in Jobs : st[k] = state[k] \/ (k \notin Undefined /\ st[k] \in {"RUNNING", "RESET"})
    <3>1. \A k \in Jobs : state[k] # "UNDEF" => k \notin Undefined
      BY DEF StageInv, StageOf
    <3>2. QED
      BY <1>14, <2>1, <3>1 DEF TypeOK, StateTypeOK, ResetStates
  <2> HIDE DEF st
  <2>3. QED
    BY <1>14, <1>15, <1>17, <2>1, <2>2
<1>20. QED
  BY <1>3, <1>4, <1>5, <1>7, <1>9, <1>10, <1>11, <1>12, <1>13, <1>16, <1>18, <1>19
     DEF GreenletStep

LEMMA StageCancel ==
  ASSUME TopologyAssumption, TypeOK, StageInv,
         NEW t \in Trees, NEW completed, CancelTree(t, completed),
         \A j \in Jobs, g \in Greenlets :
           pc'[j][g] = pc[j][g] \/ (j \notin Undefined /\ pc'[j][g] = "checked")
  PROVE  StageInv'
<1>1. /\ \A j \in Jobs : \/ state'[j] = state[j]
                         \/ state[j] \notin DONE_STATES \cup {"RUNNING"} /\ state'[j] = "CANCELLED"
      /\ \A u \in Trees : cancelled'[u] <=> cancelled[u] \/ u \in Cancels(t)
      /\ \A j \in Jobs : TreeOf[j] \in Cancels(t) => state'[j] \in DONE_STATES \cup {"RUNNING"}
  BY CancelEffect
<1>2. \A j \in Jobs :
        \/ state'[j] = state[j]
        \/ /\ state'[j] \notin {"IDLE", "UNDEF"} /\ j \notin Undefined
           /\ state'[j] = "BLOCKED" => j \in WithResources
  BY <1>1 DEF StageInv, StageOf, DONE_STATES
<1>3. \A j \in Jobs :
        cancelled'[Root] \/ cancelled'[TreeOf[j]] =>
          cancelled[Root] \/ cancelled[TreeOf[j]] \/ state'[j] # "IDLE"
  <2> SUFFICES ASSUME NEW j \in Jobs, cancelled'[Root] \/ cancelled'[TreeOf[j]],
                      ~cancelled[Root], ~cancelled[TreeOf[j]]
               PROVE  state'[j] # "IDLE"
    OBVIOUS
  <2>1. TreeOf[j] \in Trees /\ Root \in Trees
    BY DEF TopologyAssumption
  <2>2. TreeOf[j] \in Cancels(t)
    <3>1. Root \in Cancels(t) \/ TreeOf[j] \in Cancels(t)
      BY <1>1, <2>1
    <3>2. Root \in Cancels(t) => t = Root
      BY DEF Cancels, Subtrees
    <3>3. QED
      BY <2>1, <3>1, <3>2 DEF Cancels, Subtrees
  <2>3. QED
    BY <1>1, <2>2 DEF DONE_STATES
<1>4. QED
  <2>1. \A j \in Jobs, g \in Greenlets :
          \/ pc'[j][g] = pc[j][g]
          \/ pc'[j][g] \in {"none", "ready", "waiting"}
          \/ j \notin Undefined /\ (pc'[j][g] = "acquiring" => j \in WithResources)
    OBVIOUS
  <2>2. QED
    BY <1>2, <1>3, <2>1, StageKept

LEMMA StageStep ==
  ASSUME TopologyAssumption, TypeOK, StageInv, [Next]_vars
  PROVE  StageInv'
<1>1. Root \in Trees
  BY DEF TopologyAssumption
<1>2. UNCHANGED <<state, pc, cancelled>> => StageInv'
  BY DEF StageInv, StageOf
<1>3. CASE RunTree
  <2>1. CASE cancelled[Root]
    BY <1>2, <1>3, <2>1 DEF RunTree
  <2>2. CASE ~cancelled[Root]
    <3>1. StartJobs(Root, state, events, SpawnedPc(Spawning(Root, state))) /\ cancelled' = cancelled
      BY <1>3, <2>2 DEF RunTree
    <3>2. state' = state
      BY <3>1 DEF StartJobs
    <3>3. \A j \in Jobs, g \in Greenlets : pc'[j][g] = pc[j][g] \/ pc'[j][g] = "ready"
      BY <3>1, StartJobsEffect DEF OnlyRoused
    <3>4. QED
      BY <3>1, <3>2, <3>3, StageKept
  <2>3. QED
    BY <2>1, <2>2
<1>4. CASE RunReturns
  BY <1>2, <1>4 DEF RunReturns
<1>5. CASE RunTimesOut \/ Abort
  BY <1>1, <1>5, StageCancel DEF RunTimesOut, Abort
<1>6. CASE RunningStep
  <2>1. ASSUME NEW t \in Trees, IsDoneEvent(t)
        PROVE  StageInv'
    BY <1>2, <2>1, StageCancel DEF IsDoneEvent
  <2>2. ASSUME NEW j \in Jobs, Reschedule(j) \/ ManualOverride(j)
        PROVE  StageInv'
    <3>1. /\ state[j] \notin {"UNDEF", "IDLE"} /\ cancelled' = cancelled
          /\ \/ state' = [state EXCEPT ![j] = "RESET"]
             \/ state' = [state EXCEPT ![j] = "SUCCESSFULL"]
      BY <2>2 DEF Reschedule, ManualOverride, ERROR_STATES
    <3>2. j \notin Undefined
      BY <3>1 DEF StageInv, StageOf
    <3>3. \A k \in Jobs :
            \/ state'[k] = state[k]
            \/ state'[k] \notin {"IDLE", "UNDEF", "BLOCKED"} /\ k \notin Undefined
      BY <3>1, <3>2 DEF TypeOK, StateTypeOK
    <3>4. \A k \in Jobs, g \in Greenlets : pc'[k][g] = pc[k][g] \/ pc'[k][g] = "ready"
      BY <2>2, RequestEffect DEF OnlyRoused
    <3>5. QED
      BY <3>1, <3>3, <3>4, StageKept
  <2>3. ASSUME NEW j \in Jobs, NEW g \in Greenlets, InterruptStart(j, g)
        PROVE  StageInv'
    <3>1. j \notin Undefined
      BY <2>3, Interrupted DEF StageInv, StageOf, DONE_STATES
    <3>2. \A k \in Jobs, h \in Greenlets :
            pc'[k][h] = pc[k][h] \/ (k \notin Undefined /\ pc'[k][h] = "checked")
      BY <2>3, <3>1, Interrupted
    <3>3. CancelTree(Root, {})
      BY <2>3, Interrupted
    <3>4. QED
      BY <1>1, <3>2, <3>3, StageCancel
  <2>4. QED
    BY <1>6, <2>1, <2>2, <2>3, StageGreenletStep DEF RunningStep
<1>7. CASE UNCHANGED vars
  BY <1>2, <1>7 DEF vars
<1>8. QED
  BY <1>3, <1>4, <1>5, <1>6, <1>7 DEF Next, Terminated

LEMMA StageInvariant == Spec => []StageInv
<1>1. Init => StageInv
  BY TopologyAssumption DEF TopologyAssumption, Init, StageInv, StageOf
<1>2. TypeOK /\ StageInv /\ [Next]_vars => StageInv'
  BY TopologyAssumption, StageStep
<1>3. QED
  BY <1>1, <1>2, TypeCorrect, PTL DEF Spec

\* A step keeps what OnceInv says of a job when the job's state and the places of
\* its greenlets change in one of these ways.
LEMMA OnceKept ==
  ASSUME OnceInv, NEW j \in Once, NeverAdvanced',
         \/ /\ state'[j] = state[j] \/ "RUNNING" \notin {state[j], state'[j]}
            /\ \A g \in Greenlets : Executes(j, g)' <=> Executes(j, g)
         \/ state'[j] = "RUNNING" /\ \E g \in Greenlets : Executes(j, g)'
         \/ state'[j] # "RUNNING" /\ \A g \in Greenlets : ~Executes(j, g)'
         \/ state'[j] = "RUNNING" /\ Once \cap CanRaise # {}
  PROVE  OnceOf(j)'
<1>1. OnceOf(j)
  BY DEF OnceInv
<1>2. Once' = Once
  BY DEF Once, FlatTree
<1>3. run'[TreeOf[j]] = 0
  BY <1>2 DEF NeverAdvanced
<1>4. QED
  BY <1>1, <1>2, <1>3 DEF OnceOf

LEMMA JobStepOnce ==
  ASSUME TypeOK, OneGreenletInv, OnceInv, NeverAdvanced',
         NEW j \in Jobs, NEW g \in Greenlets, pc[j][g] \notin {"none", "waiting"},
         NEW s, NEW fired, NEW p \in Places, JobStep(j, g, s, fired, p),
         \/ p \in {"script", "subtree"} <=> s = "RUNNING"
         \/ s = "RUNNING" /\ (j \in Once => j \in CanRaise)
  PROVE  OnceInv'
<1>1. /\ state'[j] = s
      /\ \A k \in Jobs : k # j => state'[k] = state[k]
      /\ pc'[j][g] = p
      /\ \A k \in Jobs, h \in Greenlets : ~(k = j /\ h = g) => OnlyWoken(k, h)
  BY JobStepEffect
<1>2. ASSUME NEW k \in Once
      PROVE  OnceOf(k)'
  <2>1. k \in Jobs
    BY DEF Once
  <2>2. CASE k # j
    <3>1. \A h \in Greenlets : Executes(k, h)' <=> Executes(k, h)
      BY <1>1, <2>1, <2>2 DEF OnlyWoken, Executes
    <3>2. QED
      BY <1>1, <2>1, <2>2, <3>1, OnceKept
  <2>3. CASE k = j
    <3>1. \A h \in Greenlets : h # g => ~Live(j, h)
      BY <2>3 DEF OneGreenletInv, OneGreenletOf, Live
    <3>2. \A h \in Greenlets : h # g => ~Executes(j, h)'
      BY <1>1, <3>1 DEF OnlyWoken, Executes, Live
    <3>3. Executes(j, g)' <=> p \in {"script", "subtree"}
      BY <1>1 DEF Executes
    <3>4. \/ s = "RUNNING" /\ Executes(j, g)'
          \/ s # "RUNNING" /\ ~Executes(j, g)'
          \/ s = "RUNNING" /\ j \in Once \cap CanRaise
      BY <2>3, <3>3
    <3>5. \/ state'[j] = "RUNNING" /\ \E h \in Greenlets : Executes(j, h)'
          \/ state'[j] # "RUNNING" /\ \A h \in Greenlets : ~Executes(j, h)'
          \/ state'[j] = "RUNNING" /\ Once \cap CanRaise # {}
      BY <1>1, <3>2, <3>4
    <3>6. QED
      BY <2>3, <3>5, OnceKept
  <2>4. QED
    BY <2>2, <2>3
<1>3. QED
  BY <1>2 DEF OnceInv, Once, FlatTree

\* Of the tree's own jobs, st changes the state of j, to RUNNING.
OnlyRuns(j, st) ==
  st[j] = "RUNNING" /\ \A k \in JobsOf(Root) : k # j => st[k] = state[k]

\* A manager that starts its subtree changes no other state of the tree's jobs.
LEMMA ManagerStartsOnce ==
  ASSUME TopologyAssumption, TypeOK, OneGreenletInv, OnceInv,
         NeverAdvanced',
         NEW j \in Jobs, NEW g \in Greenlets, pc[j][g] \notin {"none", "waiting"},
         SubtreeOf[j] # NoTree, NEW st, NEW flags, OnlyRuns(j, st),
         ManagerStarts(j, g, st, flags)
  PROVE  OnceInv'
<1>1. /\ state' = st
      /\ pc'[j][g] = "subtree"
      /\ \A k \in Jobs, h \in Greenlets : ~(k = j /\ h = g) => OnlyRoused(k, h)
  <2>1. pc[j][g] # "waiting"
    OBVIOUS
  <2>2. QED
    BY <2>1, ManagerStartsEffect
<1>2. ASSUME NEW k \in Once
      PROVE  OnceOf(k)'
  <2>1. k \in Jobs /\ k \in JobsOf(Root)
    BY ManagerOutside DEF Once, JobsOf
  <2>2. CASE k # j
    <3>1. \A h \in Greenlets : Executes(k, h)' <=> Executes(k, h)
      BY <1>1, <2>1, <2>2 DEF OnlyRoused, Executes
    <3>2. QED
      BY <1>1, <2>1, <2>2, <3>1, OnceKept DEF OnlyRuns
  <2>3. CASE k = j
    <3>1. state'[k] = "RUNNING" /\ \E h \in Greenlets : Executes(k, h)'
      BY <1>1, <2>3 DEF Executes, OnlyRuns
    <3>2. QED
      BY <3>1, OnceKept
  <2>4. QED
    BY <2>2, <2>3
<1>3. QED
  BY <1>2 DEF OnceInv, Once, FlatTree

LEMMA OnceGreenletStep ==
  ASSUME TopologyAssumption, TypeOK, OneGreenletInv, OnceInv, main = "running",
         NEW j \in Jobs, NEW g \in Greenlets, GreenletStep(j, g)
  PROVE  OnceInv'
<1>1. NeverAdvanced
  BY DEF OnceInv, OnceOf, NeverAdvanced
<1>2. run' = run => NeverAdvanced'
  BY <1>1 DEF NeverAdvanced, Once, FlatTree
<1>3. CASE WaitForParent(j, g)
  <2>1. /\ state' = state /\ run' = run
        /\ \A k \in Jobs, h \in Greenlets : Executes(k, h)' <=> Executes(k, h)
    BY <1>3 DEF WaitForParent, Executes, TypeOK, GreenletTypeOK
  <2>2. ASSUME NEW k \in Once
        PROVE  OnceOf(k)'
    BY <1>2, <1>3, <2>1, OnceKept DEF Once, WaitForParent
  <2>3. QED
    BY <2>2 DEF OnceInv, Once, FlatTree
<1>4. CASE SkipUndefined(j, g)
  BY <1>2, <1>4, JobStepOnce DEF SkipUndefined, ParentsMet, Places
<1>5. CASE AbandonStart(j, g)
  BY <1>2, <1>5, JobStepOnce DEF AbandonStart, ParentsMet, Places, DONE_STATES
<1>6. CASE BlockOnResources(j, g)
  BY <1>2, <1>6, JobStepOnce DEF BlockOnResources, PassesCheck, ParentsMet, Places
<1>7. CASE GiveUpResources(j, g)
  BY <1>2, <1>7, JobStepOnce DEF GiveUpResources, Places
<1>8. Admitted(j, g) => pc[j][g] \notin {"none", "waiting"}
  BY DEF Admitted, PassesCheck, ParentsMet
<1>9. CASE StartScript(j, g)
  BY <1>2, <1>8, <1>9, JobStepOnce DEF StartScript, Places
<1>10. CASE FailToStart(j, g)
  <2>1. j \in Once => j \in CanRaise
    BY <1>1, <1>10 DEF NeverAdvanced, FailToStart, StartRaises, Exhausted, TypeOK, TopologyAssumption
  <2>2. QED
    BY <1>2, <1>8, <1>10, <2>1, JobStepOnce DEF FailToStart, Places
<1>11. CASE ScriptExits(j, g)
  <2>1. PICK s \in {"SUCCESSFULL", "FAILED"} : JobStep(j, g, s, FiredBy(j, s), "none")
    BY <1>11 DEF ScriptExits
  <2>2. pc[j][g] = "script" /\ UNCHANGED <<linked, cancelled, done, run, main>>
    BY <1>11 DEF ScriptExits
  <2>3. s # "RUNNING" /\ "none" \in Places
    BY DEF Places
  <2>4. QED
    BY <1>2, <2>1, <2>2, <2>3, JobStepOnce
<1>12. CASE LeaveSubtree(j, g)
  <2>1. SubtreeOutcome(j) # "RUNNING" /\ "none" \in Places
    BY DEF SubtreeOutcome, Places
  <2>2. /\ JobStep(j, g, SubtreeOutcome(j), {<<j, SubtreeOutcome(j)>>}, "none")
        /\ UNCHANGED <<linked, cancelled, done, run, main>>
        /\ pc[j][g] \notin {"none", "waiting"}
    BY <1>8, <1>12 DEF LeaveSubtree, SubtreeReturned
  <2>3. QED
    BY <1>2, <2>1, <2>2, JobStepOnce
<1>13. SubtreeReturned(j, g) => SubtreeOf[j] # NoTree /\ pc[j][g] \notin {"none", "waiting"}
  BY <1>8 DEF SubtreeReturned
<1>14. ASSUME SubtreeOf[j] # NoTree, Advance(SubtreeOf[j])
       PROVE  NeverAdvanced'
  <2>1. \A k \in Once : TreeOf[k] \in Trees /\ TreeOf[k] # SubtreeOf[j]
    BY <1>14, ManagerOutside DEF TopologyAssumption
  <2>2. \A t \in Trees : t # SubtreeOf[j] => run'[t] = run[t]
    BY <1>14 DEF Advance, TypeOK, TreeTypeOK
  <2>3. \A k \in Once : run'[TreeOf[k]] = 0
    BY <1>1, <2>1, <2>2 DEF NeverAdvanced
  <2>4. QED
    BY <2>3 DEF NeverAdvanced, Once, FlatTree
<1>15. CASE LastIteration(j, g)
  <2>1. /\ JobStep(j, g, "SUCCESSFULL", {<<j, "SUCCESSFULL">>}, "none")
        /\ NeverAdvanced'
        /\ pc[j][g] \notin {"none", "waiting"}
    BY <1>13, <1>14, <1>15 DEF LastIteration
  <2>2. QED
    BY <2>1, JobStepOnce DEF Places
<1>16. CASE EnterSubtree(j, g)
  <2> DEFINE st == [state EXCEPT ![j] = "RUNNING"]
  <2>1. /\ ManagerStarts(j, g, st, events)
        /\ pc[j][g] \notin {"none", "waiting"} /\ SubtreeOf[j] # NoTree /\ run' = run
    BY <1>8, <1>16 DEF EnterSubtree, ManagerStarts
  <2>2. OnlyRuns(j, st)
    BY DEF OnlyRuns, TypeOK, StateTypeOK, JobsOf
  <2> HIDE DEF st
  <2>3. NeverAdvanced'
    BY <1>2, <1>16 DEF EnterSubtree
  <2>4. QED
    BY <2>1, <2>2, <2>3, ManagerStartsOnce
<1>17. CASE NextIteration(j, g)
  <2> DEFINE st == ResetStates(SubtreeOf[j], [state EXCEPT ![j] = "RUNNING"])
  <2>1. /\ ManagerStarts(j, g, st, ResetEvents(SubtreeOf[j]))
        /\ pc[j][g] \notin {"none", "waiting"} /\ SubtreeOf[j] # NoTree
        /\ Advance(SubtreeOf[j])
    BY <1>13, <1>17 DEF NextIteration, ManagerStarts
  <2>2. TreeOf[j] = Root /\ SubtreeOf[j] # Root
    BY <2>1, ManagerOutside
  <2>3. OnlyRuns(j, st)
    BY <2>2 DEF OnlyRuns, TypeOK, StateTypeOK, JobsOf, ResetStates
  <2> HIDE DEF st
  <2>4. NeverAdvanced'
    BY <1>14, <2>1
  <2>5. QED
    BY <2>1, <2>3, <2>4, ManagerStartsOnce
<1>18. QED
  BY <1>3, <1>4, <1>5, <1>6, <1>7, <1>9, <1>10, <1>11, <1>12, <1>15, <1>16, <1>17
     DEF GreenletStep

\* A step that changes no place to or from execution, nor to or from RUNNING.
LEMMA OnceQuiet ==
  ASSUME OnceInv, run' = run,
         \A j \in Jobs : state'[j] = state[j] \/ "RUNNING" \notin {state[j], state'[j]},
         \A j \in Jobs, g \in Greenlets : OnlyRoused(j, g)
  PROVE  OnceInv'
<1>1. \A j \in Jobs, g \in Greenlets : Executes(j, g)' <=> Executes(j, g)
  BY DEF OnlyRoused, Executes
<1>2. NeverAdvanced'
  BY DEF OnceInv, OnceOf, NeverAdvanced, Once, FlatTree
<1>3. ASSUME NEW j \in Once
      PROVE  OnceOf(j)'
  BY <1>1, <1>2, OnceKept DEF Once
<1>4. QED
  BY <1>3 DEF OnceInv, Once, FlatTree

LEMMA OnceStep ==
  ASSUME TopologyAssumption, TypeOK, OneGreenletInv, OnceInv, [Next]_vars
  PROVE  OnceInv'
<1>1. Root \in Trees
  BY DEF TopologyAssumption
<1>2. UNCHANGED <<state, pc, run>> => OnceInv'
  BY OnceQuiet DEF OnlyRoused
<1>3. ASSUME NEW t \in Trees, NEW completed, CancelTree(t, completed), pc' = pc, run' = run
      PROVE  OnceInv'
  <2>1. \A j \in Jobs : state'[j] = state[j] \/ "RUNNING" \notin {state[j], state'[j]}
    BY <1>3, CancelEffect
  <2>2. QED
    BY <1>3, <2>1, OnceQuiet DEF OnlyRoused
<1>4. CASE RunTree
  <2>1. CASE cancelled[Root]
    BY <1>2, <1>4, <2>1 DEF RunTree
  <2>2. CASE ~cancelled[Root]
    <3>1. StartJobs(Root, state, events, SpawnedPc(Spawning(Root, state))) /\ run' = run
      BY <1>4, <2>2 DEF RunTree
    <3>2. state' = state
      BY <3>1 DEF StartJobs
    <3>3. \A j \in Jobs, g \in Greenlets : OnlyRoused(j, g)
      BY <3>1, StartJobsEffect
    <3>4. QED
      BY <3>1, <3>2, <3>3, OnceQuiet
  <2>3. QED
    BY <2>1, <2>2
<1>5. CASE RunReturns
  BY <1>2, <1>5 DEF RunReturns
<1>6. CASE RunTimesOut \/ Abort
  BY <1>1, <1>3, <1>6 DEF RunTimesOut, Abort
<1>7. CASE RunningStep
  <2>1. ASSUME NEW t \in Trees, IsDoneEvent(t)
        PROVE  OnceInv'
    BY <1>2, <1>3, <2>1 DEF IsDoneEvent
  <2>2. ASSUME NEW j \in Jobs, Reschedule(j) \/ ManualOverride(j)
        PROVE  OnceInv'
    <3>1. \A k \in Jobs : state'[k] = state[k] \/ "RUNNING" \notin {state[k], state'[k]}
      BY <2>2 DEF Reschedule, ManualOverride, ERROR_STATES, TypeOK, StateTypeOK
    <3>2. \A k \in Jobs, g \in Greenlets : OnlyRoused(k, g)
      BY <2>2, RequestEffect
    <3>3. run' = run
      BY <2>2 DEF Reschedule, ManualOverride
    <3>4. QED
      BY <3>1, <3>2, <3>3, OnceQuiet
  <2>3. ASSUME NEW j \in Jobs, NEW g \in Greenlets, InterruptStart(j, g)
        PROVE  OnceInv'
    <3>1. \A k \in Jobs, h \in Greenlets : Executes(k, h)' <=> Executes(k, h)
      <4>1. /\ pc[j][g] = "ready" /\ pc'[j][g] = "checked"
            /\ \A k \in Jobs, h \in Greenlets : ~(k = j /\ h = g) => pc'[k][h] = pc[k][h]
        BY <2>3, Interrupted, <1>1
      <4>2. QED
        BY <4>1 DEF Executes
    <3>2. \A k \in Jobs : state'[k] = state[k] \/ "RUNNING" \notin {state[k], state'[k]}
      BY <1>1, <2>3, Interrupted, CancelEffect
    <3>3. NeverAdvanced'
      BY <2>3, Interrupted DEF OnceInv, OnceOf, NeverAdvanced, Once, FlatTree
    <3>4. ASSUME NEW k \in Once
          PROVE  OnceOf(k)'
      BY <3>1, <3>2, <3>3, OnceKept DEF Once
    <3>5. QED
      BY <3>4 DEF OnceInv, Once, FlatTree
  <2>4. QED
    BY <1>7, <2>1, <2>2, <2>3, OnceGreenletStep DEF RunningStep
<1>8. CASE UNCHANGED vars
  BY <1>2, <1>8 DEF vars
<1>9. QED
  BY <1>4, <1>5, <1>6, <1>7, <1>8 DEF Next, Terminated

LEMMA OnceInvariant == Spec => []OnceInv
<1>1. Init => OnceInv
  BY TopologyAssumption DEF TopologyAssumption, Init, OnceInv, OnceOf, Once, Executes
<1>2. TypeOK /\ OneGreenletInv /\ OnceInv /\ [Next]_vars => OnceInv'
  BY TopologyAssumption, OnceStep
<1>3. QED
  BY <1>1, <1>2, TypeCorrect, OneInvariant, PTL DEF Spec

-----------------------------------------------------------------------------
(* What follows of execution and cancelling.                               *)

\* In a flat tree no script is ever run twice at the same time.
THEOREM ExecutedOnce == FlatTree /\ Spec => []OneExecution
<1>1. OneGreenlet => OneExecution
  BY DEF OneGreenlet, OneExecution, Live
<1>2. QED
  BY <1>1, OneGreenletPerJob, PTL

\* In a flat tree whose scripts can always be started, a RUNNING job has a greenlet
\* that waits for its script: none is left RUNNING with nothing to end it, whatever
\* is rescheduled, overridden or cancelled.
THEOREM AliveWhileRunning == FlatTree /\ CanRaise = {} /\ Spec => []RunningIsAlive
<1>1. FlatTree /\ CanRaise = {} /\ OnceInv => RunningIsAlive
  BY DEF OnceInv, OnceOf, Once, RunningIsAlive, Executes
<1>2. FlatTree /\ CanRaise = {} => (FlatTree /\ CanRaise = {})'
  BY DEF FlatTree
<1>3. QED
  BY <1>1, <1>2, OnceInvariant, PTL

\* The only steps after which a job is RUNNING that was not are those that start it.
LEMMA TurnsRunning ==
  ASSUME TopologyAssumption, TypeOK, OnceInv, [Next]_vars,
         NEW j \in Jobs, state[j] # "RUNNING", state'[j] = "RUNNING"
  PROVE  \E g \in Greenlets : Admitted(j, g)
<1>1. Root \in Trees
  BY DEF TopologyAssumption
<1>2. ASSUME NEW t \in Trees, NEW completed, CancelTree(t, completed)
      PROVE  FALSE
  BY <1>2, CancelEffect
<1>3. ~RunTree /\ ~RunReturns /\ ~RunTimesOut /\ ~Abort
  BY <1>1, <1>2 DEF RunTree, RunReturns, RunTimesOut, Abort, StartJobs
<1>4. ~\E t \in Trees : IsDoneEvent(t)
  BY <1>2 DEF IsDoneEvent
<1>5. ~\E k \in Jobs : Reschedule(k) \/ ManualOverride(k)
  BY DEF Reschedule, ManualOverride, TypeOK, StateTypeOK
<1>6. ~\E k \in Jobs, g \in Greenlets : InterruptStart(k, g)
  BY <1>1, <1>2 DEF InterruptStart
<1>7. PICK k \in Jobs, g \in Greenlets : GreenletStep(k, g)
  BY <1>3, <1>4, <1>5, <1>6 DEF Next, RunningStep, Terminated, vars
<1>8. ASSUME NEW s, NEW fired, NEW p, JobStep(k, g, s, fired, p), s # "RUNNING"
      PROVE  FALSE
  BY <1>8 DEF JobStep, TypeOK, StateTypeOK
<1>9. ~WaitForParent(k, g) /\ ~SkipUndefined(k, g) /\ ~BlockOnResources(k, g)
  BY <1>8 DEF WaitForParent, SkipUndefined, BlockOnResources
<1>10. ~AbandonStart(k, g) /\ ~GiveUpResources(k, g)
  BY <1>8 DEF AbandonStart, GiveUpResources, DONE_STATES
<1>11. ~ScriptExits(k, g)
  BY <1>8 DEF ScriptExits
<1>12. ~LeaveSubtree(k, g) /\ ~LastIteration(k, g)
  BY <1>8 DEF LeaveSubtree, LastIteration, SubtreeOutcome
<1>13. CASE StartScript(k, g) \/ FailToStart(k, g)
  BY <1>13 DEF StartScript, FailToStart, JobStep, TypeOK, StateTypeOK
<1>14. CASE EnterSubtree(k, g)
  BY <1>14 DEF EnterSubtree, StartJobs, TypeOK, StateTypeOK
<1>15. CASE NextIteration(k, g)
  <2>1. state' = ResetStates(SubtreeOf[k], [state EXCEPT ![k] = "RUNNING"])
    BY <1>15 DEF NextIteration, StartJobs
  <2>2. j = k
    BY <2>1 DEF ResetStates, TypeOK, StateTypeOK
  <2>3. k \in Once
    BY <1>15, ManagerOutside DEF NextIteration, SubtreeReturned
  <2>4. pc[k][g] # "subtree"
    BY <2>2, <2>3 DEF OnceInv, OnceOf, Executes
  <2>5. QED
    BY <1>15, <2>2, <2>4 DEF NextIteration, SubtreeReturned
<1>16. QED
  BY <1>7, <1>9, <1>10, <1>11, <1>12, <1>13, <1>14, <1>15 DEF GreenletStep

\* In every tree: once it is cancelled, no step starts a job that was not rescheduled
\* and whose start was not under way, acquiring resources or interrupted by the signal
\* that cancelled the tree; neither a job of a subtree whose manager iterates on nor one
\* that an override lets go.
THEOREM CancelledStartsNothing == Spec => CancelStopsStarts
<1> DEFINE Stops ==
      \A j \in Jobs :
        cancelled[Root] /\ state[j] # "RUNNING" /\ state'[j] = "RUNNING" =>
          \/ state[j] = "RESET"
          \/ \E g \in Greenlets : pc[j][g] \in {"checked", "acquiring"}
<1>1. TypeOK /\ StageInv /\ OnceInv /\ [Next]_vars => Stops
  <2> SUFFICES ASSUME TypeOK, StageInv, OnceInv, [Next]_vars, NEW j \in Jobs,
                      cancelled[Root], state[j] # "RUNNING", state'[j] = "RUNNING"
               PROVE  \/ state[j] = "RESET"
                      \/ \E g \in Greenlets : pc[j][g] \in {"checked", "acquiring"}
    OBVIOUS
  <2>1. PICK g \in Greenlets : Admitted(j, g)
    BY TopologyAssumption, TurnsRunning
  <2>2. \/ pc[j][g] \in {"checked", "acquiring"}
        \/ state[j] \notin DONE_STATES /\ j \notin WithResources
    BY <2>1 DEF Admitted, PassesCheck
  <2>3. state[j] # "IDLE" /\ (j \notin WithResources => state[j] # "BLOCKED") /\ state[j] \in STATES
    BY DEF StageInv, StageOf, TypeOK, StateTypeOK
  <2>4. QED
    BY <2>2, <2>3 DEF STATES, DONE_STATES
<1>2. TypeOK /\ StageInv /\ OnceInv /\ [Next]_vars => [Stops]_vars
  BY <1>1
<1> HIDE DEF Stops
<1>3. [][Stops]_vars => CancelStopsStarts
  BY DEF CancelStopsStarts, Stops
<1>4. QED
  BY <1>2, <1>3, TypeCorrect, StageInvariant, OnceInvariant, PTL DEF Spec


-----------------------------------------------------------------------------
(* Iterated trees.                                                         *)

\* Every subtree has at most one manager, and nobody overrides a job: an overridden
\* one may succeed while a greenlet of its own is still on its way to run it.
Owned ==
  /\ "override" \notin Requests
  /\ \A j, k \in Jobs : SubtreeOf[j] # NoTree /\ SubtreeOf[j] = SubtreeOf[k] => j = k

Managers == {j \in Jobs : SubtreeOf[j] # NoTree}

\* The invariant for every job: before its tree is started it has no greenlet; a
\* defined one has one at most, none once it has an outcome, and is RUNNING while
\* its greenlet executes it and, start failures aside, only then.
StartedOf(j) ==
  /\ TreeOf[j] \notin linked =>
       state[j] \in {"IDLE", "CANCELLED", "UNDEF"} /\ \A g \in Greenlets : ~Live(j, g)
  /\ j \notin Undefined =>
       /\ \A g, h \in Greenlets : Live(j, g) /\ Live(j, h) => g = h
       /\ state[j] \in DEPENDENCY_STATES => \A g \in Greenlets : ~Live(j, g)
       /\ \A g \in Greenlets : Executes(j, g) => state[j] = "RUNNING"
       /\ state[j] = "RUNNING" => CanRaise # {} \/ \E g \in Greenlets : Executes(j, g)

StartedInv == \A j \in Jobs : StartedOf(j)

\* The invariant for a manager m of subtree t, which runs no script.  A subtree that
\* was started and that m has left is marked, or m has succeeded; the iterator is
\* used up only then, and a success is one of all iterations.
IteratedOf(m, t) ==
  /\ t \in linked /\ (\A g \in Greenlets : pc[m][g] # "subtree") =>
       cancelled[t] \/ state[m] = "SUCCESSFULL"
  /\ state[m] # "SUCCESSFULL" => ~Exhausted(t)
  /\ ArgCount[t] = 0 => run[t] = 0
  /\ \A g \in Greenlets : pc[m][g] # "script"
  /\ state[m] = "SUCCESSFULL" => run[t] = ArgCount[t] /\ AllSuccess(t, state)

IteratedInv == \A m \in Managers : IteratedOf(m, SubtreeOf[m])

\* The tree itself is not started twice; a tree whose run() may return is marked;
\* only a manager advances an iterator.
MarkedInv ==
  /\ main = "new" => linked = {}
  /\ \A t \in Trees : done[t] => cancelled[t]
  /\ \A t \in Trees : run[t] # 0 => \E m \in Managers : SubtreeOf[m] = t

IterInv == StartedInv /\ IteratedInv /\ MarkedInv

\* A greenlet of a tree that was started: one that lives, or of a job with an outcome.
LEMMA LiveIsStarted ==
  ASSUME TypeOK, StageInv, StartedInv, NEW j \in Jobs,
         (\E g \in Greenlets : Live(j, g)) \/ state[j] \notin {"IDLE", "CANCELLED", "UNDEF"}
  PROVE  TreeOf[j] \in linked
BY DEF StartedInv, StartedOf

\* A greenlet that neither starts or ends, nor starts or ends executing its job.
StaysAlive(j, g) == (Live(j, g)' <=> Live(j, g)) /\ (Executes(j, g)' <=> Executes(j, g))

LEMMA WokenStaysAlive ==
  ASSUME NEW j \in Jobs, NEW g \in Greenlets, OnlyWoken(j, g)
  PROVE  StaysAlive(j, g)
BY DEF OnlyWoken, StaysAlive, Live, Executes

\* A step that leaves a job's state and place alone, but for a wake-up, an interruption
\* or a cancellation, keeps what StartedInv says of it.
LEMMA StartedKept ==
  ASSUME StartedInv, linked \subseteq linked', NEW j \in Jobs,
         \/ state'[j] = state[j]
         \/ state[j] \notin DONE_STATES \cup {"RUNNING"} /\ state'[j] = "CANCELLED",
         \A g \in Greenlets : StaysAlive(j, g)
  PROVE  StartedOf(j)'
<1>1. StartedOf(j)
  BY DEF StartedInv
<1>2. \A g \in Greenlets : (Live(j, g)' <=> Live(j, g)) /\ (Executes(j, g)' <=> Executes(j, g))
  BY DEF StaysAlive
<1>3. TreeOf[j] \notin linked' =>
        state'[j] \in {"IDLE", "CANCELLED", "UNDEF"} /\ \A g \in Greenlets : ~Live(j, g)'
  BY <1>1, <1>2 DEF StartedOf
<1>4. ASSUME j \notin Undefined
      PROVE  /\ \A g, h \in Greenlets : Live(j, g)' /\ Live(j, h)' => g = h
             /\ state'[j] \in DEPENDENCY_STATES => \A g \in Greenlets : ~Live(j, g)'
             /\ \A g \in Greenlets : Executes(j, g)' => state'[j] = "RUNNING"
             /\ state'[j] = "RUNNING" => CanRaise # {} \/ \E g \in Greenlets : Executes(j, g)'
  <2>1. \A g, h \in Greenlets : Live(j, g)' /\ Live(j, h)' => g = h
    BY <1>1, <1>2, <1>4 DEF StartedOf
  <2>2. \A g \in Greenlets : Executes(j, g)' => state'[j] = "RUNNING"
    BY <1>1, <1>2, <1>4 DEF StartedOf
  <2>3. state'[j] \in DEPENDENCY_STATES => \A g \in Greenlets : ~Live(j, g)'
    BY <1>1, <1>2, <1>4 DEF StartedOf, DEPENDENCY_STATES
  <2>4. state'[j] = "RUNNING" => CanRaise # {} \/ \E g \in Greenlets : Executes(j, g)'
    BY <1>1, <1>2, <1>4 DEF StartedOf
  <2>5. QED
    BY <2>1, <2>2, <2>3, <2>4
<1>5. QED
  BY <1>3, <1>4 DEF StartedOf

\* A defined job that had no greenlet has the one that is spawned for it.
LEMMA StartedSpawned ==
  ASSUME TypeOK, NEW j \in Jobs, TreeOf[j] \in linked',
         j \notin Undefined =>
           /\ state'[j] \notin DEPENDENCY_STATES \cup {"RUNNING"}
           /\ \A g \in Greenlets : ~Live(j, g)
           /\ \A g, h \in Greenlets : Live(j, g)' /\ Live(j, h)' => g = h,
         \A g \in Greenlets : OnlyRoused(j, g)
  PROVE  StartedOf(j)'
<1>1. j \notin Undefined => \A g \in Greenlets : ~Executes(j, g)'
  BY DEF OnlyRoused, Live, Executes
<1>2. QED
  BY <1>1 DEF StartedOf

LEMMA JobStepStarted ==
  ASSUME TypeOK, StageInv, StartedInv, linked' = linked,
         NEW j \in Jobs, NEW g \in Greenlets, pc[j][g] \notin {"none", "waiting"},
         NEW s, NEW fired, NEW p \in Places, JobStep(j, g, s, fired, p),
         s \in DEPENDENCY_STATES => p = "none",
         \/ p \in {"script", "subtree"} <=> s = "RUNNING"
         \/ s = "RUNNING" /\ CanRaise # {} /\ p = "none"
  PROVE  StartedInv'
<1>1. /\ state'[j] = s
      /\ \A k \in Jobs : k # j => state'[k] = state[k]
      /\ pc'[j][g] = p
      /\ \A k \in Jobs, h \in Greenlets : ~(k = j /\ h = g) => OnlyWoken(k, h)
  BY JobStepEffect
<1>2. StartedOf(j) /\ TreeOf[j] \in linked
  <2>1. Live(j, g)
    BY DEF Live
  <2>2. QED
    BY <2>1, LiveIsStarted DEF StartedInv
<1>3. ASSUME NEW k \in Jobs, k # j
      PROVE  StartedOf(k)'
  BY <1>1, <1>3, WokenStaysAlive, StartedKept
<1>4. ASSUME j \notin Undefined
      PROVE  /\ \A h, i \in Greenlets : Live(j, h)' /\ Live(j, i)' => h = i
             /\ state'[j] \in DEPENDENCY_STATES => \A h \in Greenlets : ~Live(j, h)'
             /\ \A h \in Greenlets : Executes(j, h)' => state'[j] = "RUNNING"
             /\ state'[j] = "RUNNING" => CanRaise # {} \/ \E h \in Greenlets : Executes(j, h)'
  <2>1. \A h \in Greenlets : h # g => ~Live(j, h)
    BY <1>2, <1>4 DEF StartedOf, Live
  <2>2. \A h \in Greenlets : h # g => ~Live(j, h)' /\ ~Executes(j, h)'
    BY <1>1, <2>1 DEF OnlyWoken, Live, Executes
  <2>3. (Live(j, g)' <=> p # "none") /\ (Executes(j, g)' <=> p \in {"script", "subtree"})
    BY <1>1 DEF Live, Executes
  <2>4. \A h, i \in Greenlets : Live(j, h)' /\ Live(j, i)' => h = i
    BY <2>2
  <2>5. state'[j] \in DEPENDENCY_STATES => \A h \in Greenlets : ~Live(j, h)'
    BY <1>1, <2>2, <2>3
  <2>6. \A h \in Greenlets : Executes(j, h)' => state'[j] = "RUNNING"
    BY <1>1, <2>2, <2>3
  <2>7. state'[j] = "RUNNING" => CanRaise # {} \/ \E h \in Greenlets : Executes(j, h)'
    BY <1>1, <2>3
  <2>8. QED
    BY <2>4, <2>5, <2>6, <2>7
<1>5. StartedOf(j)'
  BY <1>2, <1>4 DEF StartedOf
<1>6. QED
  BY <1>3, <1>5 DEF StartedInv

\* A job that has succeeded, or has nothing to do, and whose greenlet still steps is
\* undefined.
LEMMA SuccessIsOver ==
  ASSUME StageInv, StartedInv, NEW j \in Jobs, NEW g \in Greenlets, Live(j, g),
         j \notin Undefined
  PROVE  state[j] \notin SUCCESS_STATES /\ state[j] # "FAILED"
<1>1. StartedOf(j) /\ StageOf(j)
  BY DEF StartedInv, StageInv
<1>2. QED
  BY <1>1 DEF StartedOf, StageOf, SUCCESS_STATES, DEPENDENCY_STATES

\* A step that leaves the iterator and the manager where they are.
LEMMA IteratedKept ==
  ASSUME NEW m \in Managers, NEW t, t = SubtreeOf[m], IteratedOf(m, t),
         state'[m] = "SUCCESSFULL" <=> state[m] = "SUCCESSFULL",
         run'[t] = run[t], cancelled[t] => cancelled'[t],
         t \in linked' => t \in linked,
         \A g \in Greenlets : pc[m][g] = "subtree" => pc'[m][g] = "subtree",
         \A g \in Greenlets : pc'[m][g] = "script" => pc[m][g] = "script",
         state[m] = "SUCCESSFULL" /\ AllSuccess(t, state) => AllSuccess(t, state')
  PROVE  IteratedOf(m, t)'
<1>1. t' = t /\ AllSuccess(t, state)' = AllSuccess(t, state')
  OBVIOUS
<1>2. QED
  BY <1>1 DEF IteratedOf, Exhausted

\* A step of greenlet g of j leaves the iterations of other managers alone.
LEMMA OtherManagers ==
  ASSUME TopologyAssumption, TypeOK, Owned, StageInv, IterInv,
         NEW j \in Jobs, NEW g \in Greenlets, pc[j][g] \notin {"none", "waiting"},
         NEW s, NEW fired, NEW p \in Places, JobStep(j, g, s, fired, p),
         j \in Undefined => s = state[j], linked' = linked,
         \/ UNCHANGED <<cancelled, run>>
         \/ j \in Managers /\ Advance(SubtreeOf[j]),
         NEW m \in Managers, m # j
  PROVE  IteratedOf(m, SubtreeOf[m])'
<1> DEFINE t == SubtreeOf[m]
<1>1. /\ state'[j] = s
      /\ \A k \in Jobs : k # j => state'[k] = state[k]
      /\ pc'[j][g] = p
      /\ \A k \in Jobs, h \in Greenlets : ~(k = j /\ h = g) => OnlyWoken(k, h)
  BY JobStepEffect
<1>2. m \in Jobs /\ t \in Trees /\ IteratedOf(m, t)
  BY ManagerOutside DEF Managers, IterInv, IteratedInv
<1>3. j \notin Undefined => state[j] \notin SUCCESS_STATES
  BY SuccessIsOver DEF Live, IterInv
<1>4. \A k \in Jobs : state[k] \in SUCCESS_STATES => state'[k] = state[k]
  BY <1>1, <1>3
<1>5. AllSuccess(t, state) => AllSuccess(t, state')
  BY <1>4 DEF AllSuccess, JobsOf
<1>6. run'[t] = run[t] /\ (cancelled[t] => cancelled'[t])
  <2>1. CASE j \in Managers /\ Advance(SubtreeOf[j])
    <3>1. SubtreeOf[j] # t /\ SubtreeOf[j] \in Trees
      BY <2>1, ManagerOutside DEF Owned, Managers
    <3>2. QED
      BY <1>2, <2>1, <3>1 DEF Advance, TypeOK, TreeTypeOK
  <2>2. QED
    BY <2>1
<1>7. \A h \in Greenlets : /\ pc[m][h] = "subtree" => pc'[m][h] = "subtree"
                           /\ pc'[m][h] = "script" => pc[m][h] = "script"
  BY <1>1, <1>2 DEF OnlyWoken
<1>8. state'[m] = state[m]
  BY <1>1, <1>2
<1> HIDE DEF t
<1>9. t = SubtreeOf[m]
  BY DEF t
<1>10. IteratedOf(m, t)'
  BY <1>2, <1>5, <1>6, <1>7, <1>8, <1>9, IteratedKept
<1>11. QED
  BY <1>10 DEF t

\* The steps of a job's greenlet that start or leave no subtree, and the manager's
\* own part of the invariant.
LEMMA JobStepIterated ==
  ASSUME TopologyAssumption, TypeOK, Owned, StageInv, IterInv,
         NEW j \in Jobs, NEW g \in Greenlets, pc[j][g] \notin {"none", "waiting", "subtree"},
         NEW s, NEW fired, NEW p \in Places, JobStep(j, g, s, fired, p),
         UNCHANGED <<linked, cancelled, done, run, main>>,
         s \in DEPENDENCY_STATES => p = "none",
         j \in Undefined => s = state[j],
         \/ p \in {"script", "subtree"} <=> s = "RUNNING"
         \/ s = "RUNNING" /\ CanRaise # {} /\ p = "none",
         j \in Managers => s # "SUCCESSFULL" /\ p # "script"
  PROVE  IterInv'
<1>1. StartedInv'
  BY JobStepStarted DEF IterInv
<1>2. MarkedInv'
  BY DEF IterInv, MarkedInv, Managers
<1>3. \A m \in Managers : m # j => IteratedOf(m, SubtreeOf[m])'
  BY OtherManagers
<1>4. ASSUME j \in Managers
      PROVE  IteratedOf(j, SubtreeOf[j])'
  <2> DEFINE t == SubtreeOf[j]
  <2>1. /\ state'[j] = s
        /\ \A k \in Jobs : k # j => state'[k] = state[k]
        /\ pc'[j][g] = p
        /\ \A k \in Jobs, h \in Greenlets : ~(k = j /\ h = g) => OnlyWoken(k, h)
    BY JobStepEffect
  <2>2. state[j] # "SUCCESSFULL"
    <3>1. j \notin Undefined => state[j] \notin SUCCESS_STATES
      BY SuccessIsOver DEF Live, IterInv
    <3>2. j \in Undefined => state[j] = "UNDEF"
      BY DEF StageInv, StageOf
    <3>3. QED
      BY <3>1, <3>2 DEF SUCCESS_STATES
  <2>3. state'[j] # "SUCCESSFULL"
    BY <1>4, <2>1
  <2>4. \A h \in Greenlets : /\ pc[j][h] = "subtree" => pc'[j][h] = "subtree"
                             /\ pc'[j][h] = "script" => pc[j][h] = "script"
    BY <1>4, <2>1 DEF OnlyWoken
  <2>5. IteratedOf(j, t)
    BY <1>4 DEF IterInv, IteratedInv
  <2>6. run'[t] = run[t] /\ (cancelled[t] => cancelled'[t]) /\ (t \in linked' => t \in linked)
    OBVIOUS
  <2> HIDE DEF t
  <2>7. t = SubtreeOf[j]
    BY DEF t
  <2>8. IteratedOf(j, t)'
    BY <1>4, <2>2, <2>3, <2>4, <2>5, <2>6, <2>7, IteratedKept
  <2>9. QED
    BY <2>8 DEF t
<1>5. IteratedInv'
  BY <1>3, <1>4 DEF IteratedInv, Managers
<1>6. QED
  BY <1>1, <1>2, <1>5 DEF IterInv

\* A greenlet that the step does not spawn is at most woken.
LEMMA RousedAlive ==
  ASSUME NEW j \in Jobs, NEW g \in Greenlets, OnlyRoused(j, g), Live(j, g)' => Live(j, g)
  PROVE  OnlyWoken(j, g)
BY DEF OnlyRoused, OnlyWoken, Live

\* Spawning greenlets for the jobs of S, seen from a job k that starts none of them.
LEMMA SpawnStarted ==
  ASSUME TypeOK, StartedInv, linked \subseteq linked', NEW S, NEW k \in Jobs,
         \A h \in Greenlets : OnlyRoused(k, h),
         \A h \in Greenlets : Live(k, h)' => Live(k, h) \/ (k \in S /\ h = AnyFree(k)),
         k \in S =>
           /\ TreeOf[k] \in linked'
           /\ k \notin Undefined => /\ state'[k] \notin DEPENDENCY_STATES \cup {"RUNNING"}
                                    /\ \A h \in Greenlets : ~Live(k, h),
         k \notin S => state'[k] = state[k]
  PROVE  StartedOf(k)'
<1>1. CASE k \in S
  <2>1. k \notin Undefined => \A g, h \in Greenlets : Live(k, g)' /\ Live(k, h)' => g = h
    BY <1>1
  <2>2. /\ TreeOf[k] \in linked'
        /\ k \notin Undefined => /\ state'[k] \notin DEPENDENCY_STATES \cup {"RUNNING"}
                                 /\ \A h \in Greenlets : ~Live(k, h)
        /\ \A h \in Greenlets : OnlyRoused(k, h)
    BY <1>1
  <2>3. QED
    BY <2>1, <2>2, StartedSpawned
<1>2. CASE k \notin S
  <2>1. \A h \in Greenlets : OnlyWoken(k, h)
    BY <1>2, RousedAlive
  <2>2. state'[k] = state[k]
    BY <1>2
  <2>3. QED
    BY <2>1, <2>2, WokenStaysAlive, StartedKept
<1>3. QED
  BY <1>1, <1>2

\* The jobs of t, but for undefined ones, are idle: they have no greenlet.
Idle(t) == \A k \in JobsOf(t) : k \notin Undefined => \A h \in Greenlets : ~Live(k, h)

\* st is the state in which a manager m starts the jobs of t.
StartsFrom(m, t, st) ==
  /\ st[m] = "RUNNING"
  /\ \A k \in Jobs : k # m /\ TreeOf[k] # t => st[k] = state[k]
  /\ \A k \in JobsOf(t) : k \in Undefined => st[k] = state[k]
  /\ \A k \in JobsOf(t) : k \notin Undefined => st[k] \in {"IDLE", "CANCELLED", "RESET"}

LEMMA ManagerStartsStarted ==
  ASSUME TopologyAssumption, TypeOK, StageInv, StartedInv,
         NEW j \in Jobs, linked' = linked \cup {SubtreeOf[j]}, NEW g \in Greenlets, pc[j][g] \notin {"none", "waiting"},
         j \notin Undefined, SubtreeOf[j] # NoTree, NEW st, NEW flags,
         StartsFrom(j, SubtreeOf[j], st), Idle(SubtreeOf[j]),
         ManagerStarts(j, g, st, flags)
  PROVE  StartedInv'
<1> DEFINE S == Spawning(SubtreeOf[j], st)
<1>1. /\ state' = st
      /\ pc'[j][g] = "subtree"
      /\ \A k \in Jobs, h \in Greenlets : ~(k = j /\ h = g) => OnlyRoused(k, h)
  <2>1. pc[j][g] # "waiting"
    OBVIOUS
  <2>2. QED
    BY <2>1, ManagerStartsEffect
<1>2. PICK fired : pc' = Woken([SpawnedPc(S) EXCEPT ![j][g] = "subtree"], fired)
  BY DEF ManagerStarts, StartJobs
<1>3. \A k \in S : FreeGreenlets(k) # {}
  BY DEF ManagerStarts, StartJobs
<1>4. Live(j, g) /\ TreeOf[j] = Root /\ SubtreeOf[j] # Root
  BY ManagerOutside DEF Live
<1>5. \A k \in Jobs : k \in S => TreeOf[k] = SubtreeOf[j] /\ k \in JobsOf(SubtreeOf[j])
  BY DEF Spawning, JobsOf
<1>6. j \notin S
  BY <1>4, <1>5
<1>7. \A k \in JobsOf(SubtreeOf[j]) : k \notin S => k \in Undefined
  <2>1. \A k \in JobsOf(SubtreeOf[j]) : k \notin Undefined => st[k] \notin {"UNDEF", "SUCCESSFULL"}
    BY DEF StartsFrom
  <2>2. QED
    BY <2>1 DEF Spawning, ShortCircuits
<1> HIDE DEF S
<1>8. \A k \in Jobs, h \in Greenlets : Live(k, h)' => Live(k, h) \/ (k \in S /\ h = AnyFree(k))
  BY <1>2, <1>3, <1>4, ManagerLive
<1>9. \A k \in Jobs : k \notin S /\ k # j => state'[k] = state[k]
  BY <1>1, <1>7 DEF StartsFrom, JobsOf
<1>10. \A k \in Jobs : k \in S =>
         /\ TreeOf[k] \in linked'
         /\ k \notin Undefined => /\ state'[k] \notin DEPENDENCY_STATES \cup {"RUNNING"}
                                  /\ \A h \in Greenlets : ~Live(k, h)
  BY <1>1, <1>5 DEF StartsFrom, Idle, DEPENDENCY_STATES
<1>11. ASSUME NEW k \in Jobs, k # j
       PROVE  StartedOf(k)'
  <2>1. \A h \in Greenlets : OnlyRoused(k, h)
    BY <1>1, <1>11
  <2>2. linked \subseteq linked'
    OBVIOUS
  <2>3. QED
    BY <1>8, <1>9, <1>10, <1>11, <2>1, <2>2, SpawnStarted
<1>12. StartedOf(j)'
  <2>1. StartedOf(j) /\ TreeOf[j] \in linked'
    BY <1>4, LiveIsStarted DEF StartedInv
  <2>2. \A h \in Greenlets : h # g => ~Live(j, h)'
    BY <1>4, <1>6, <1>8, <2>1 DEF StartedOf
  <2>3. state'[j] = "RUNNING" /\ Executes(j, g)'
    BY <1>1 DEF StartsFrom, Executes
  <2>4. QED
    BY <2>1, <2>2, <2>3 DEF StartedOf, DEPENDENCY_STATES
<1>13. QED
  BY <1>11, <1>12 DEF StartedInv

\* The iterations of the other managers, when one starts the jobs of its subtree.
LEMMA ManagerStartsOthers ==
  ASSUME TopologyAssumption, TypeOK, Owned, StageInv, IterInv,
         NEW j \in Managers, linked' = linked \cup {SubtreeOf[j]}, NEW g \in Greenlets, pc[j][g] \notin {"none", "waiting"},
         UNCHANGED <<cancelled, run>> \/ Advance(SubtreeOf[j]),
         NEW st, NEW flags, StartsFrom(j, SubtreeOf[j], st), ManagerStarts(j, g, st, flags),
         NEW m \in Managers, m # j
  PROVE  IteratedOf(m, SubtreeOf[m])'
<1> DEFINE t == SubtreeOf[m]
<1>1. /\ state' = st
      /\ \A k \in Jobs, h \in Greenlets : ~(k = j /\ h = g) => OnlyRoused(k, h)
  <2>1. pc[j][g] # "waiting" /\ j \in Jobs
    BY DEF Managers
  <2>2. QED
    BY <2>1, ManagerStartsEffect
<1>2. m \in Jobs /\ t \in Trees /\ t # Root /\ IteratedOf(m, t) /\ TreeOf[m] = Root
  BY ManagerOutside DEF Managers, IterInv, IteratedInv
<1>3. SubtreeOf[j] # t /\ SubtreeOf[j] \in Trees \ {Root} /\ TreeOf[j] = Root
  BY ManagerOutside DEF Owned, Managers
<1>4. \A k \in JobsOf(t) \cup {m} : state'[k] = state[k]
  BY <1>1, <1>2, <1>3 DEF StartsFrom, JobsOf
<1>5. AllSuccess(t, state) => AllSuccess(t, state')
  BY <1>4 DEF AllSuccess
<1>6. run'[t] = run[t] /\ (cancelled[t] => cancelled'[t])
  BY <1>2, <1>3 DEF Advance, TypeOK, TreeTypeOK
<1>7. \A h \in Greenlets : /\ pc[m][h] = "subtree" => pc'[m][h] = "subtree"
                           /\ pc'[m][h] = "script" => pc[m][h] = "script"
  BY <1>1, <1>2 DEF OnlyRoused
<1>8. state'[m] = state[m] /\ (t \in linked' => t \in linked)
  BY <1>3, <1>4
<1> HIDE DEF t
<1>9. t = SubtreeOf[m]
  BY DEF t
<1>10. IteratedOf(m, t)'
  BY <1>2, <1>5, <1>6, <1>7, <1>8, <1>9, IteratedKept
<1>11. QED
  BY <1>10 DEF t

\* What holds of a manager whose greenlet acts for it.
LEMMA ActingManager ==
  ASSUME TopologyAssumption, TypeOK, StageInv, IterInv,
         NEW j \in Managers, NEW g \in Greenlets, Live(j, g), j \notin Undefined
  PROVE  /\ IteratedOf(j, SubtreeOf[j])
         /\ state[j] # "SUCCESSFULL" /\ ~Exhausted(SubtreeOf[j])
         /\ TreeOf[j] = Root /\ SubtreeOf[j] \in Trees \ {Root}
         /\ \A h \in Greenlets : h # g => ~Live(j, h)
         /\ pc[j][g] # "subtree" => \A h \in Greenlets : pc[j][h] # "subtree"
<1>1. j \in Jobs /\ StartedOf(j) /\ IteratedOf(j, SubtreeOf[j])
  BY DEF Managers, IterInv, IteratedInv, StartedInv
<1>2. state[j] # "SUCCESSFULL"
  BY <1>1 DEF StartedOf, DEPENDENCY_STATES
<1>3. \A h \in Greenlets : h # g => ~Live(j, h)
  BY <1>1 DEF StartedOf
<1>4. pc[j][g] # "subtree" => \A h \in Greenlets : pc[j][h] # "subtree"
  BY <1>3 DEF Live
<1>5. QED
  BY <1>1, <1>2, <1>3, <1>4, ManagerOutside DEF IteratedOf, Managers

\* A manager whose greenlet is in the subtree's run(), or may go on to it, lives.
LEMMA ManagerActs ==
  ASSUME StageInv, NEW j \in Jobs, NEW g \in Greenlets,
         \/ Admitted(j, g)
         \/ SubtreeReturned(j, g)
  PROVE  /\ pc[j][g] \notin {"none", "waiting"} /\ Live(j, g) /\ j \notin Undefined
         /\ SubtreeReturned(j, g) => j \in Managers
         /\ ~Admitted(j, g) => pc[j][g] = "subtree"
         /\ Admitted(j, g) => pc[j][g] # "subtree"
<1>1. StageOf(j)
  BY DEF StageInv
<1>2. Admitted(j, g) => pc[j][g] \in {"ready", "checked", "acquiring"} /\ j \notin Undefined
  BY <1>1 DEF Admitted, PassesCheck, ParentsMet, StageOf, DONE_STATES
<1>3. ~Admitted(j, g) => pc[j][g] = "subtree" /\ j \notin Undefined
  BY <1>1 DEF SubtreeReturned, StageOf
<1>4. QED
  BY <1>2, <1>3 DEF Live, SubtreeReturned, Managers

\* A step of j's greenlet leaves the states of its subtree's jobs.
LEMMA SubtreeStates ==
  ASSUME TopologyAssumption, TypeOK, NEW j \in Managers, NEW g \in Greenlets,
         pc[j][g] # "waiting", NEW s, NEW fired, JobStep(j, g, s, fired, "none"),
         AllSuccess(SubtreeOf[j], state)
  PROVE  AllSuccess(SubtreeOf[j], state')
<1>1. j \in Jobs /\ "none" \in Places
  BY DEF Managers, Places
<1>2. \A k \in Jobs : k # j => state'[k] = state[k]
  BY <1>1, JobStepEffect
<1>3. j \notin JobsOf(SubtreeOf[j])
  BY ManagerOutside DEF JobsOf, Managers
<1>4. QED
  BY <1>2, <1>3 DEF AllSuccess, JobsOf

LEMMA LeaveIterated ==
  ASSUME TopologyAssumption, TypeOK, Owned, StageInv, IterInv,
         NEW j \in Jobs, NEW g \in Greenlets, LeaveSubtree(j, g)
  PROVE  IterInv'
<1> DEFINE t == SubtreeOf[j]
           s == SubtreeOutcome(j)
<1>1. SubtreeReturned(j, g) \/ Admitted(j, g)
  BY DEF LeaveSubtree
<1>2. /\ pc[j][g] \notin {"none", "waiting"} /\ Live(j, g) /\ j \notin Undefined
      /\ ~Admitted(j, g) => pc[j][g] = "subtree"
      /\ Admitted(j, g) => pc[j][g] # "subtree"
  BY <1>1, ManagerActs
<1>3. j \in Managers
  BY DEF LeaveSubtree, SubtreeReturned, Managers
<1>4. /\ JobStep(j, g, s, {<<j, s>>}, "none")
      /\ UNCHANGED <<linked, cancelled, done, run, main>>
  BY DEF LeaveSubtree
<1>5. s \in {"SUCCESSFULL", "FAILED"} /\ (s = "SUCCESSFULL" <=> AllSuccess(t, state))
  BY DEF SubtreeOutcome
<1>6. /\ IteratedOf(j, t) /\ state[j] # "SUCCESSFULL" /\ ~Exhausted(t)
      /\ t \in Trees
      /\ \A h \in Greenlets : h # g => ~Live(j, h)
      /\ pc[j][g] # "subtree" => \A h \in Greenlets : pc[j][h] # "subtree"
  BY <1>2, <1>3, ActingManager
<1>7. SubtreeReturned(j, g) /\ ~MayAdvance(t)
  BY <1>6 DEF LeaveSubtree
<1>8. t \in linked => cancelled[t]
  <2>1. CASE pc[j][g] = "subtree"
    <3>1. done[t]
      BY <1>2, <1>7, <2>1 DEF SubtreeReturned
    <3>2. QED
      BY <1>6, <3>1 DEF IterInv, MarkedInv
  <2>2. CASE pc[j][g] # "subtree"
    BY <1>6, <2>2 DEF IteratedOf
  <2>3. QED
    BY <2>1, <2>2
<1>9. s = "SUCCESSFULL" => run[t] = ArgCount[t]
  <2>1. s = "SUCCESSFULL" => ~(ArgCount[t] > 0)
    BY <1>5, <1>7 DEF MayAdvance
  <2>2. ArgCount[t] \in Nat
    BY <1>6 DEF TopologyAssumption
  <2>3. s = "SUCCESSFULL" => ArgCount[t] = 0
    BY <2>1, <2>2
  <2>4. QED
    BY <1>6, <2>3 DEF IteratedOf
<1>10. /\ state'[j] = s
       /\ pc'[j][g] = "none"
       /\ \A k \in Jobs, h \in Greenlets : ~(k = j /\ h = g) => OnlyWoken(k, h)
  BY <1>2, <1>4, JobStepEffect DEF Places
<1>11. s = "SUCCESSFULL" => AllSuccess(t, state')
  BY <1>2, <1>3, <1>4, <1>5, SubtreeStates
<1>12. IteratedOf(j, t)'
  <2>1. \A h \in Greenlets : pc'[j][h] # "script"
    <3>1. \A h \in Greenlets : pc[j][h] # "script"
      BY <1>6 DEF IteratedOf
    <3>2. \A h \in Greenlets : h # g => OnlyWoken(j, h)
      BY <1>10
    <3>3. \A h \in Greenlets : h # g => pc'[j][h] # "script"
      BY <3>1, <3>2 DEF OnlyWoken
    <3>4. pc'[j][g] # "script"
      BY <1>10
    <3>5. QED
      BY <3>3, <3>4
  <2>2. run'[t] = run[t] /\ cancelled'[t] = cancelled[t] /\ linked' = linked
    BY <1>4
  <2>3. t \in linked' => cancelled'[t]
    BY <1>8, <2>2
  <2>4. ~Exhausted(t)'
    BY <1>6, <2>2 DEF Exhausted
  <2>5. ArgCount[t] = 0 => run'[t] = 0
    BY <1>6, <2>2 DEF IteratedOf
  <2>6. state'[j] = "SUCCESSFULL" => run'[t] = ArgCount[t] /\ AllSuccess(t, state)'
    <3>1. AllSuccess(t, state)' <=> AllSuccess(t, state')
      OBVIOUS
    <3>2. QED
      BY <1>9, <1>10, <1>11, <2>2, <3>1
  <2> HIDE DEF t, s
  <2>7. QED
    BY <2>1, <2>3, <2>4, <2>5, <2>6 DEF IteratedOf
<1>13. StartedInv'
  <2>1. s # "RUNNING" /\ "none" \in Places /\ linked' = linked /\ StartedInv
    BY <1>4, <1>5 DEF Places, IterInv
  <2> HIDE DEF s
  <2>2. QED
    BY <1>2, <1>4, <2>1, JobStepStarted
<1>14. MarkedInv'
  BY <1>4 DEF IterInv, MarkedInv, Managers
<1>15. \A m \in Managers : m # j => IteratedOf(m, SubtreeOf[m])'
  <2>1. "none" \in Places /\ UNCHANGED <<cancelled, run>> /\ linked' = linked
    BY <1>4 DEF Places
  <2> HIDE DEF s
  <2>2. QED
    BY <1>2, <1>4, <2>1, OtherManagers
<1>16. IteratedInv'
  BY <1>12, <1>15 DEF IteratedInv, Managers
<1>17. QED
  BY <1>13, <1>14, <1>16 DEF IterInv

\* advance() moves the iterator of its own tree, which has a manager.
LEMMA AdvanceMarked ==
  ASSUME TopologyAssumption, TypeOK, MarkedInv, main' = main, main = "running",
         NEW j \in Managers, Advance(SubtreeOf[j])
  PROVE  MarkedInv'
<1>1. SubtreeOf[j] \in Trees
  BY ManagerOutside DEF Managers
<1>2. \A u \in Trees : done'[u] => cancelled'[u]
  BY <1>1 DEF Advance, MarkedInv, TypeOK, TreeTypeOK
<1>3. \A u \in Trees : run'[u] # 0 => \E m \in Managers : SubtreeOf[m] = u
  BY <1>1 DEF Advance, MarkedInv, TypeOK, TreeTypeOK
<1>4. Managers' = Managers
  BY DEF Managers
<1>5. QED
  BY <1>2, <1>3, <1>4 DEF MarkedInv

LEMMA LastIterated ==
  ASSUME TopologyAssumption, TypeOK, Owned, StageInv, IterInv, main = "running",
         NEW j \in Jobs, NEW g \in Greenlets, LastIteration(j, g)
  PROVE  IterInv'
<1> DEFINE t == SubtreeOf[j]
<1>1. SubtreeReturned(j, g)
  BY DEF LastIteration
<1>2. pc[j][g] \notin {"none", "waiting"} /\ Live(j, g) /\ j \notin Undefined /\ j \in Managers
  BY <1>1, ManagerActs
<1>3. /\ JobStep(j, g, "SUCCESSFULL", {<<j, "SUCCESSFULL">>}, "none")
      /\ Advance(t) /\ UNCHANGED <<linked, main>>
      /\ MayAdvance(t) /\ run[t] + 1 >= ArgCount[t]
  BY DEF LastIteration
<1>4. /\ IteratedOf(j, t) /\ ~Exhausted(t) /\ t \in Trees
      /\ \A h \in Greenlets : h # g => ~Live(j, h)
  BY <1>2, ActingManager
<1>5. /\ state'[j] = "SUCCESSFULL"
      /\ pc'[j][g] = "none"
      /\ \A k \in Jobs, h \in Greenlets : ~(k = j /\ h = g) => OnlyWoken(k, h)
  BY <1>2, <1>3, JobStepEffect DEF Places
<1>6. run'[t] = ArgCount[t] /\ ArgCount[t] # 0
  <2>1. run[t] \in Nat /\ ArgCount[t] \in Nat /\ run'[t] = run[t] + 1
    BY <1>3, <1>4 DEF Advance, TypeOK, TreeTypeOK, TopologyAssumption
  <2>2. ArgCount[t] > 0 /\ ~(run[t] >= ArgCount[t]) /\ run[t] + 1 >= ArgCount[t]
    BY <1>3, <1>4 DEF MayAdvance, Exhausted
  <2> HIDE DEF t
  <2>3. QED
    BY <2>1, <2>2
<1>7. AllSuccess(t, state')
  BY <1>2, <1>3, SubtreeStates DEF MayAdvance
<1>8. IteratedOf(j, t)'
  <2>1. \A h \in Greenlets : pc'[j][h] # "script"
    <3>1. \A h \in Greenlets : pc[j][h] # "script"
      BY <1>4 DEF IteratedOf
    <3>2. \A h \in Greenlets : h # g => OnlyWoken(j, h)
      BY <1>5
    <3>3. \A h \in Greenlets : h # g => pc'[j][h] # "script"
      BY <3>1, <3>2 DEF OnlyWoken
    <3>4. pc'[j][g] # "script"
      BY <1>5
    <3>5. QED
      BY <3>3, <3>4
  <2>2. AllSuccess(t, state)'
    BY <1>7
  <2> HIDE DEF t
  <2>3. QED
    BY <1>5, <1>6, <2>1, <2>2 DEF IteratedOf
<1>9. StartedInv'
  <2>1. "none" \in Places /\ linked' = linked /\ StartedInv
    BY <1>3 DEF Places, IterInv
  <2>2. QED
    BY <1>2, <1>3, <2>1, JobStepStarted
<1>10. MarkedInv'
  BY <1>2, <1>3, AdvanceMarked DEF IterInv
<1>11. \A m \in Managers : m # j => IteratedOf(m, SubtreeOf[m])'
  <2>1. "none" \in Places
    BY DEF Places
  <2>2. QED
    BY <1>2, <1>3, <2>1, OtherManagers
<1>12. IteratedInv'
  BY <1>8, <1>11 DEF IteratedInv, Managers
<1>13. QED
  BY <1>9, <1>10, <1>12 DEF IterInv

\* What a manager that starts the jobs of its subtree makes of its own iterations.
LEMMA ManagerStartsIterated ==
  ASSUME TopologyAssumption, TypeOK, Owned, StageInv, IterInv,
         NEW j \in Managers, NEW g \in Greenlets, pc[j][g] \notin {"none", "waiting"},
         j \notin Undefined, UNCHANGED <<cancelled, run>> \/ Advance(SubtreeOf[j]), MarkedInv',
         ~Exhausted(SubtreeOf[j])', ArgCount[SubtreeOf[j]] = 0 => run' = run,
         NEW st, NEW flags, StartsFrom(j, SubtreeOf[j], st), Idle(SubtreeOf[j]),
         ManagerStarts(j, g, st, flags)
  PROVE  IterInv'
<1> DEFINE t == SubtreeOf[j]
<1>1. Live(j, g) /\ j \in Jobs
  BY DEF Live, Managers
<1>2. linked' = linked \cup {t}
  BY DEF ManagerStarts, StartJobs
<1>3. StartedInv'
  BY <1>1, <1>2, ManagerStartsStarted DEF IterInv, Managers
<1>4. \A m \in Managers : m # j => IteratedOf(m, SubtreeOf[m])'
  BY <1>2, ManagerStartsOthers
<1>5. /\ state'[j] = "RUNNING"
      /\ pc'[j][g] = "subtree"
      /\ \A h \in Greenlets : h # g => OnlyRoused(j, h)
  <2>1. pc[j][g] # "waiting"
    OBVIOUS
  <2>2. /\ state' = st
        /\ pc'[j][g] = "subtree"
        /\ \A k \in Jobs, h \in Greenlets : ~(k = j /\ h = g) => OnlyRoused(k, h)
    BY <1>1, <2>1, ManagerStartsEffect
  <2>3. QED
    BY <1>1, <2>2 DEF StartsFrom
<1>6. IteratedOf(j, t)
  BY <1>1, ActingManager
<1>7. \A h \in Greenlets : pc'[j][h] # "script"
  <2>1. \A h \in Greenlets : pc[j][h] # "script"
    BY <1>6 DEF IteratedOf
  <2>2. \A h \in Greenlets : h # g => pc'[j][h] # "script"
    BY <1>5, <2>1 DEF OnlyRoused
  <2>3. pc'[j][g] # "script"
    BY <1>5
  <2>4. QED
    BY <2>2, <2>3
<1>8. ArgCount[t] = 0 => run'[t] = 0
  BY <1>6 DEF IteratedOf
<1>9. IteratedOf(j, t)'
  <2>1. state'[j] # "SUCCESSFULL"
    BY <1>5
  <2>2. ~(\A h \in Greenlets : pc'[j][h] # "subtree")
    BY <1>5
  <2>3. ~Exhausted(t)'
    OBVIOUS
  <2> HIDE DEF t
  <2>4. QED
    BY <1>7, <1>8, <2>1, <2>2, <2>3 DEF IteratedOf
<1>10. IteratedInv'
  BY <1>4, <1>9 DEF IteratedInv, Managers
<1>11. QED
  BY <1>3, <1>10 DEF IterInv

\* No job of a subtree that its manager enters has been started.
LEMMA EnterIdle ==
  ASSUME TopologyAssumption, TypeOK, StageInv, IterInv,
         NEW j \in Jobs, NEW g \in Greenlets, EnterSubtree(j, g),
         NEW k \in JobsOf(SubtreeOf[j])
  PROVE  /\ state[k] \in {"IDLE", "CANCELLED", "UNDEF"}
         /\ \A h \in Greenlets : ~Live(k, h)
<1> DEFINE t == SubtreeOf[j]
<1>1. Admitted(j, g) /\ ~cancelled[t] /\ j \in Managers
  BY DEF EnterSubtree, Managers
<1>2. Live(j, g) /\ j \notin Undefined /\ pc[j][g] # "subtree"
  BY <1>1, ManagerActs
<1>3. /\ IteratedOf(j, t) /\ state[j] # "SUCCESSFULL"
      /\ \A h \in Greenlets : pc[j][h] # "subtree"
  BY <1>1, <1>2, ActingManager
<1>4. t \notin linked
  BY <1>1, <1>3 DEF IteratedOf
<1>5. QED
  BY <1>4 DEF IterInv, StartedInv, StartedOf, JobsOf

LEMMA EnterFrom ==
  ASSUME TopologyAssumption, TypeOK, StageInv, IterInv,
         NEW j \in Jobs, NEW g \in Greenlets, EnterSubtree(j, g)
  PROVE  /\ StartsFrom(j, SubtreeOf[j], [state EXCEPT ![j] = "RUNNING"])
         /\ Idle(SubtreeOf[j])
<1> DEFINE t  == SubtreeOf[j]
           st == [state EXCEPT ![j] = "RUNNING"]
<1>1. \A k \in JobsOf(t) : /\ state[k] \in {"IDLE", "CANCELLED", "UNDEF"}
                           /\ \A h \in Greenlets : ~Live(k, h)
  BY EnterIdle
<1>2. TreeOf[j] = Root /\ t # Root
  BY ManagerOutside DEF EnterSubtree
<1>3. st[j] = "RUNNING" /\ \A k \in Jobs : k # j => st[k] = state[k]
  BY DEF TypeOK, StateTypeOK
<1>4. \A k \in JobsOf(t) : k \in Jobs /\ k # j /\ (state[k] = "UNDEF" => k \in Undefined)
  BY <1>2 DEF JobsOf, StageInv, StageOf
<1> HIDE DEF st, t
<1>5. StartsFrom(j, t, st) /\ Idle(t)
  BY <1>1, <1>3, <1>4 DEF StartsFrom, Idle
<1>6. QED
  BY <1>5 DEF st, t

\* Every job of a subtree that goes on to its next iteration has succeeded.
LEMMA NextFrom ==
  ASSUME TopologyAssumption, TypeOK, StageInv, IterInv,
         NEW j \in Jobs, NEW g \in Greenlets, NextIteration(j, g)
  PROVE  /\ StartsFrom(j, SubtreeOf[j],
                       ResetStates(SubtreeOf[j], [state EXCEPT ![j] = "RUNNING"]))
         /\ Idle(SubtreeOf[j])
<1> DEFINE t  == SubtreeOf[j]
           st == ResetStates(t, [state EXCEPT ![j] = "RUNNING"])
<1>1. AllSuccess(t, state)
  BY DEF NextIteration, MayAdvance
<1>2. TreeOf[j] = Root /\ t # Root
  BY ManagerOutside DEF NextIteration, SubtreeReturned
<1>3. Idle(t)
  <2>1. \A k \in JobsOf(t) : k \notin Undefined => state[k] = "SUCCESSFULL"
    BY <1>1 DEF AllSuccess, SUCCESS_STATES, JobsOf, StageInv, StageOf
  <2>2. \A k \in JobsOf(t) : StartedOf(k)
    BY DEF JobsOf, IterInv, StartedInv
  <2>3. QED
    BY <2>1, <2>2 DEF Idle, StartedOf, DEPENDENCY_STATES
<1>4. StartsFrom(j, t, st)
  <2>1. \A k \in Jobs : state[k] = "UNDEF" <=> k \in Undefined
    BY DEF StageInv, StageOf
  <2>2. QED
    BY <1>2, <2>1 DEF StartsFrom, ResetStates, JobsOf, TypeOK, StateTypeOK
<1>5. QED
  BY <1>3, <1>4

LEMMA EnterIterated ==
  ASSUME TopologyAssumption, TypeOK, Owned, StageInv, IterInv, main = "running",
         NEW j \in Jobs, NEW g \in Greenlets, EnterSubtree(j, g)
  PROVE  IterInv'
<1> DEFINE t  == SubtreeOf[j]
           st == [state EXCEPT ![j] = "RUNNING"]
<1>1. Admitted(j, g) /\ ~Exhausted(t) /\ UNCHANGED <<cancelled, done, run, main>>
  BY DEF EnterSubtree
<1>2. pc[j][g] \notin {"none", "waiting"} /\ j \notin Undefined /\ j \in Managers
  BY <1>1, ManagerActs DEF EnterSubtree, Managers
<1>3. ManagerStarts(j, g, st, events)
  BY DEF EnterSubtree, ManagerStarts
<1>4. StartsFrom(j, t, st) /\ Idle(t)
  BY EnterFrom
<1>5. MarkedInv' /\ ~Exhausted(t)'
  BY <1>1 DEF IterInv, MarkedInv, Managers, Exhausted
<1> HIDE DEF st
<1>6. QED
  BY <1>1, <1>2, <1>3, <1>4, <1>5, ManagerStartsIterated

LEMMA NextIterated ==
  ASSUME TopologyAssumption, TypeOK, Owned, StageInv, IterInv, main = "running",
         NEW j \in Jobs, NEW g \in Greenlets, NextIteration(j, g)
  PROVE  IterInv'
<1> DEFINE t  == SubtreeOf[j]
           st == ResetStates(t, [state EXCEPT ![j] = "RUNNING"])
<1>1. SubtreeReturned(j, g) /\ Advance(t) /\ main' = main
  BY DEF NextIteration
<1>2. pc[j][g] \notin {"none", "waiting"} /\ j \notin Undefined /\ j \in Managers
  BY <1>1, ManagerActs
<1>3. ManagerStarts(j, g, st, ResetEvents(t))
  BY DEF NextIteration, ManagerStarts
<1>4. t \in Trees
  BY <1>2, ManagerOutside DEF Managers
<1>5. StartsFrom(j, t, st) /\ Idle(t)
  BY NextFrom
<1>6. MarkedInv'
  BY <1>1, <1>2, AdvanceMarked DEF IterInv
<1>7. ~Exhausted(t)' /\ (ArgCount[t] = 0 => run' = run)
  <2>1. run[t] \in Nat /\ ArgCount[t] \in Nat /\ run'[t] = run[t] + 1
    BY <1>1, <1>4 DEF Advance, TypeOK, TreeTypeOK, TopologyAssumption
  <2>2. ArgCount[t] > 0 /\ run[t] + 1 < ArgCount[t]
    BY DEF NextIteration, MayAdvance
  <2> HIDE DEF t
  <2>3. QED
    BY <2>1, <2>2 DEF Exhausted
<1> HIDE DEF st
<1>8. QED
  BY <1>1, <1>2, <1>3, <1>5, <1>6, <1>7, ManagerStartsIterated

\* A step of a job's greenlet.
LEMMA IterGreenletStep ==
  ASSUME TopologyAssumption, TypeOK, Owned, StageInv, IterInv, main = "running",
         NEW j \in Jobs, NEW g \in Greenlets, GreenletStep(j, g)
  PROVE  IterInv'
<1>1. state[j] = "UNDEF" <=> j \in Undefined
  BY DEF StageInv, StageOf
<1>2. CASE WaitForParent(j, g)
  <2>1. \A k \in Jobs, h \in Greenlets :
          \/ pc'[k][h] = pc[k][h]
          \/ pc[k][h] = "ready" /\ pc'[k][h] = "waiting"
    BY <1>2 DEF WaitForParent, TypeOK, GreenletTypeOK
  <2>2. \A k \in Jobs, h \in Greenlets :
          (Live(k, h)' <=> Live(k, h)) /\ (Executes(k, h)' <=> Executes(k, h))
    BY <2>1 DEF Live, Executes
  <2>3. UNCHANGED <<state, linked, cancelled, done, run, main>>
    BY <1>2 DEF WaitForParent
  <2>4. StartedInv'
    <3>1. ASSUME NEW k \in Jobs
          PROVE  StartedOf(k)'
      <4>1. StartedOf(k)
        BY DEF IterInv, StartedInv
      <4>2. QED
        BY <2>2, <2>3, <4>1 DEF StartedOf
    <3>2. QED
      BY <3>1 DEF StartedInv
  <2>5. MarkedInv'
    BY <2>3 DEF IterInv, MarkedInv, Managers
  <2>6. ASSUME NEW m \in Managers
        PROVE  IteratedOf(m, SubtreeOf[m])'
    <3>1. IteratedOf(m, SubtreeOf[m]) /\ m \in Jobs
      BY DEF IterInv, IteratedInv, Managers
    <3>2. \A h \in Greenlets : /\ pc[m][h] = "subtree" => pc'[m][h] = "subtree"
                               /\ pc'[m][h] = "script" => pc[m][h] = "script"
      BY <2>1, <3>1
    <3>3. QED
      BY <2>3, <3>1, <3>2, IteratedKept
  <2>7. QED
    BY <2>4, <2>5, <2>6 DEF IterInv, IteratedInv, Managers
<1>3. CASE SkipUndefined(j, g)
  BY <1>1, <1>3, JobStepIterated DEF SkipUndefined, ParentsMet, Places, DEPENDENCY_STATES
<1>4. CASE AbandonStart(j, g)
  <2>1. pc[j][g] = "ready" /\ state[j] \in {"SUCCESSFULL", "FAILED", "CANCELLED"}
    BY <1>4 DEF AbandonStart, ParentsMet, DONE_STATES
  <2>2. state[j] = "CANCELLED"
    BY <1>1, <2>1, SuccessIsOver DEF IterInv, Live, SUCCESS_STATES
  <2>3. JobStep(j, g, "CANCELLED", {}, "none")
    BY <1>4, <2>2 DEF AbandonStart
  <2>4. QED
    BY <1>4, <2>1, <2>2, <2>3, JobStepIterated DEF AbandonStart, Places, DEPENDENCY_STATES
<1>5. Admitted(j, g) \/ SubtreeReturned(j, g) =>
        pc[j][g] \notin {"none", "waiting"} /\ j \notin Undefined
  BY ManagerActs DEF IterInv
<1>6. Admitted(j, g) => pc[j][g] # "subtree"
  BY ManagerActs DEF IterInv
<1>7. CASE BlockOnResources(j, g)
  <2>1. j \notin Undefined
    BY <1>1, <1>7 DEF BlockOnResources, PassesCheck, DONE_STATES, IterInv, StageInv, StageOf
  <2>2. pc[j][g] \in {"ready", "checked"}
    BY <1>7 DEF BlockOnResources, PassesCheck, ParentsMet
  <2>3. QED
    BY <1>7, <2>1, <2>2, JobStepIterated DEF BlockOnResources, Places, DEPENDENCY_STATES
<1>8. CASE GiveUpResources(j, g)
  <2>1. Admitted(j, g)
    BY <1>8 DEF GiveUpResources, Admitted
  <2>2. QED
    BY <1>5, <1>8, <2>1, JobStepIterated DEF GiveUpResources, Places, DEPENDENCY_STATES
<1>9. CASE StartScript(j, g)
  BY <1>5, <1>6, <1>9, JobStepIterated DEF StartScript, Places, DEPENDENCY_STATES, Managers
<1>10. CASE FailToStart(j, g)
  <2>1. CanRaise # {}
    <3>1. SUFFICES ASSUME Exhausted(TreeOf[j]) PROVE FALSE
      BY <1>10 DEF FailToStart, StartRaises
    <3>2. TreeOf[j] \in Trees /\ run[TreeOf[j]] # 0
      BY <3>1 DEF Exhausted, TypeOK, TreeTypeOK, TopologyAssumption
    <3>3. PICK m \in Managers : SubtreeOf[m] = TreeOf[j]
      BY <3>2 DEF IterInv, MarkedInv
    <3>4. AllSuccess(TreeOf[j], state)
      <4>1. IteratedOf(m, TreeOf[j])
        BY <3>3 DEF IterInv, IteratedInv
      <4>2. QED
        BY <3>1, <4>1 DEF IteratedOf
    <3>5. state[j] \in SUCCESS_STATES
      BY <3>4 DEF AllSuccess, JobsOf
    <3>6. Live(j, g) /\ j \notin Undefined
      BY <1>5, <1>10 DEF FailToStart, Live
    <3>7. QED
      BY <3>5, <3>6, SuccessIsOver DEF IterInv
  <2>2. QED
    BY <1>5, <1>6, <1>10, <2>1, JobStepIterated
       DEF FailToStart, Places, DEPENDENCY_STATES, Managers
<1>11. CASE ScriptExits(j, g)
  <2>1. PICK s \in {"SUCCESSFULL", "FAILED"} : JobStep(j, g, s, FiredBy(j, s), "none")
    BY <1>11 DEF ScriptExits
  <2>2. pc[j][g] = "script" /\ UNCHANGED <<linked, cancelled, done, run, main>>
    BY <1>11 DEF ScriptExits
  <2>3. j \notin Undefined
    BY <2>2 DEF StageInv, StageOf
  <2>4. j \notin Managers
    BY <2>2 DEF IterInv, IteratedInv, IteratedOf
  <2>5. s # "RUNNING" /\ "none" \in Places
    BY DEF Places
  <2>6. QED
    BY <2>1, <2>2, <2>3, <2>4, <2>5, JobStepIterated
<1>12. QED
  BY <1>2, <1>3, <1>4, <1>7, <1>8, <1>9, <1>10, <1>11, EnterIterated, LeaveIterated,
     LastIterated, NextIterated
     DEF GreenletStep

\* Cancelling marks the trees whose run() it lets return.
LEMMA IterCancel ==
  ASSUME TopologyAssumption, TypeOK, StageInv, IterInv,
         NEW t \in Trees, NEW completed, completed \subseteq {t}, CancelTree(t, completed),
         \A j \in Jobs, g \in Greenlets : OnlyInterrupted(j, g),
         UNCHANGED <<linked, run>>, main' # "new" \/ main' = main
  PROVE  IterInv'
<1>1. /\ \A j \in Jobs : \/ state'[j] = state[j]
                         \/ state[j] \notin DONE_STATES \cup {"RUNNING"} /\ state'[j] = "CANCELLED"
      /\ \A u \in Trees : cancelled'[u] <=> cancelled[u] \/ u \in Cancels(t)
  BY CancelEffect
<1>2. StartedInv'
  <2>1. \A k \in Jobs, h \in Greenlets : StaysAlive(k, h)
    BY DEF OnlyInterrupted, StaysAlive, Live, Executes
  <2>2. linked \subseteq linked' /\ StartedInv
    BY DEF IterInv
  <2>3. ASSUME NEW k \in Jobs
        PROVE  StartedOf(k)'
    BY <1>1, <2>1, <2>2, StartedKept
  <2>4. QED
    BY <2>3 DEF StartedInv
<1>3. MarkedInv'
  <2>1. ASSUME NEW u \in Trees, done'[u]
        PROVE  cancelled'[u]
    <3>1. done[u] \/ u = t \/ u \in Cancels(t)
      BY <2>1 DEF CancelTree
    <3>2. u = t => cancelled[u] \/ u \in Cancels(t)
      BY DEF Cancels
    <3>3. QED
      BY <1>1, <3>1, <3>2 DEF IterInv, MarkedInv
  <2>2. QED
    BY <2>1 DEF IterInv, MarkedInv, Managers
<1>4. ASSUME NEW m \in Managers
      PROVE  IteratedOf(m, SubtreeOf[m])'
  <2> DEFINE u == SubtreeOf[m]
  <2>1. IteratedOf(m, u) /\ m \in Jobs /\ u \in Trees
    BY ManagerOutside DEF IterInv, IteratedInv, Managers
  <2>2. state'[m] = "SUCCESSFULL" <=> state[m] = "SUCCESSFULL"
    BY <1>1, <2>1 DEF DONE_STATES
  <2>3. AllSuccess(u, state) => AllSuccess(u, state')
    BY <1>1 DEF AllSuccess, JobsOf, SUCCESS_STATES, DONE_STATES
  <2>4. /\ run'[u] = run[u] /\ (cancelled[u] => cancelled'[u]) /\ (u \in linked' => u \in linked)
        /\ \A h \in Greenlets : /\ pc[m][h] = "subtree" => pc'[m][h] = "subtree"
                                /\ pc'[m][h] = "script" => pc[m][h] = "script"
    BY <1>1, <2>1 DEF OnlyInterrupted
  <2> HIDE DEF u
  <2>5. u = SubtreeOf[m]
    BY DEF u
  <2>6. IteratedOf(m, u)'
    BY <2>1, <2>2, <2>3, <2>4, <2>5, IteratedKept
  <2>7. QED
    BY <2>6 DEF u
<1>5. QED
  BY <1>2, <1>3, <1>4 DEF IterInv, IteratedInv, Managers

LEMMA IterRunTree ==
  ASSUME TopologyAssumption, TypeOK, StageInv, IterInv, RunTree, ~cancelled[Root]
  PROVE  IterInv'
<1> DEFINE S == Spawning(Root, state)
<1>1. /\ main = "new" /\ main' = "running" /\ UNCHANGED <<cancelled, done, run>>
      /\ StartJobs(Root, state, events, SpawnedPc(S))
  BY DEF RunTree
<1>2. PICK fired : pc' = Woken(SpawnedPc(S), fired)
  BY <1>1 DEF StartJobs
<1>3. state' = state /\ linked' = linked \cup {Root} /\ \A j \in S : FreeGreenlets(j) # {}
  BY <1>1 DEF StartJobs
<1>4. \A k \in Jobs, h \in Greenlets : OnlyRoused(k, h)
  BY <1>1, StartJobsEffect
<1>5. linked = {}
  BY <1>1 DEF IterInv, MarkedInv
<1>6. \A k \in Jobs : /\ state[k] \in {"IDLE", "CANCELLED", "UNDEF"}
                      /\ \A h \in Greenlets : ~Live(k, h)
  BY <1>5 DEF IterInv, StartedInv, StartedOf
<1>7. \A k \in Jobs : k \in S => TreeOf[k] = Root
  BY DEF Spawning, JobsOf
<1> HIDE DEF S
<1>8. \A k \in Jobs, h \in Greenlets : Live(k, h)' => Live(k, h) \/ (k \in S /\ h = AnyFree(k))
  BY <1>2, <1>3, SpawnedLive
<1>9. StartedInv'
  <2>1. \A k \in Jobs : k \in S =>
          /\ TreeOf[k] \in linked'
          /\ k \notin Undefined => /\ state'[k] \notin DEPENDENCY_STATES \cup {"RUNNING"}
                                   /\ \A h \in Greenlets : ~Live(k, h)
    BY <1>3, <1>6, <1>7 DEF DEPENDENCY_STATES
  <2>2. \A k \in Jobs : k \notin S => state'[k] = state[k]
    BY <1>3
  <2>3. StartedInv /\ linked \subseteq linked'
    BY <1>3 DEF IterInv
  <2>4. ASSUME NEW k \in Jobs
        PROVE  StartedOf(k)'
    BY <1>4, <1>8, <2>1, <2>2, <2>3, SpawnStarted
  <2>5. QED
    BY <2>4 DEF StartedInv
<1>10. MarkedInv'
  BY <1>1 DEF IterInv, MarkedInv, Managers
<1>11. ASSUME NEW m \in Managers
       PROVE  IteratedOf(m, SubtreeOf[m])'
  <2>1. /\ IteratedOf(m, SubtreeOf[m]) /\ m \in Jobs /\ SubtreeOf[m] # Root
    BY ManagerOutside DEF IterInv, IteratedInv, Managers
  <2>2. \A h \in Greenlets : /\ pc[m][h] = "subtree" => pc'[m][h] = "subtree"
                             /\ pc'[m][h] = "script" => pc[m][h] = "script"
    BY <1>4, <2>1 DEF OnlyRoused
  <2>3. SubtreeOf[m] \in linked' => SubtreeOf[m] \in linked
    BY <1>3, <2>1
  <2>4. QED
    BY <1>1, <1>3, <2>1, <2>2, <2>3, IteratedKept
<1>12. QED
  BY <1>9, <1>10, <1>11 DEF IterInv, IteratedInv, Managers

LEMMA IterReschedule ==
  ASSUME TopologyAssumption, TypeOK, StageInv, IterInv, NEW j \in Jobs, Reschedule(j)
  PROVE  IterInv'
<1> DEFINE S == {j}
<1>1. /\ state[j] = "FAILED" /\ state' = [state EXCEPT ![j] = "RESET"]
      /\ \A k \in S : FreeGreenlets(k) # {}
      /\ pc' = SpawnedPc(S) /\ UNCHANGED <<linked, cancelled, done, run, main>>
  BY DEF Reschedule
<1>2. state'[j] = "RESET" /\ \A k \in Jobs : k # j => state'[k] = state[k]
  BY <1>1 DEF TypeOK, StateTypeOK
<1>3. StartedOf(j) /\ j \notin Undefined
  BY <1>1 DEF IterInv, StartedInv, StageInv, StageOf
<1>4. TreeOf[j] \in linked /\ \A h \in Greenlets : ~Live(j, h)
  BY <1>1, <1>3 DEF StartedOf, DEPENDENCY_STATES
<1>5. \A k \in Jobs, h \in Greenlets : OnlyRoused(k, h)
  BY RequestEffect
<1>6. \A k \in Jobs, h \in Greenlets : Live(k, h)' => Live(k, h) \/ (k \in S /\ h = AnyFree(k))
  <2>1. pc' = Woken(SpawnedPc(S), {})
    BY <1>1 DEF Woken, Wakes, SpawnedPc, TypeOK, GreenletTypeOK
  <2> HIDE DEF S
  <2>2. QED
    BY <1>1, <2>1, SpawnedLive
<1>7. StartedInv'
  <2>1. \A k \in Jobs : k \in S =>
          /\ TreeOf[k] \in linked'
          /\ k \notin Undefined => /\ state'[k] \notin DEPENDENCY_STATES \cup {"RUNNING"}
                                   /\ \A h \in Greenlets : ~Live(k, h)
    BY <1>1, <1>2, <1>4 DEF DEPENDENCY_STATES
  <2>2. \A k \in Jobs : k \notin S => state'[k] = state[k]
    BY <1>2
  <2>3. StartedInv /\ linked \subseteq linked'
    BY <1>1 DEF IterInv
  <2> HIDE DEF S
  <2>4. ASSUME NEW k \in Jobs
        PROVE  StartedOf(k)'
    BY <1>5, <1>6, <2>1, <2>2, <2>3, SpawnStarted
  <2>5. QED
    BY <2>4 DEF StartedInv
<1>8. MarkedInv'
  BY <1>1 DEF IterInv, MarkedInv, Managers
<1>9. ASSUME NEW m \in Managers
      PROVE  IteratedOf(m, SubtreeOf[m])'
  <2>1. IteratedOf(m, SubtreeOf[m]) /\ m \in Jobs
    BY DEF IterInv, IteratedInv, Managers
  <2>2. \A h \in Greenlets : /\ pc[m][h] = "subtree" => pc'[m][h] = "subtree"
                             /\ pc'[m][h] = "script" => pc[m][h] = "script"
    BY <1>5, <2>1 DEF OnlyRoused
  <2>3. state'[m] = "SUCCESSFULL" <=> state[m] = "SUCCESSFULL"
    BY <1>1, <1>2, <2>1
  <2>4. AllSuccess(SubtreeOf[m], state) => AllSuccess(SubtreeOf[m], state')
    BY <1>1, <1>2 DEF AllSuccess, JobsOf, SUCCESS_STATES
  <2>5. QED
    BY <1>1, <2>1, <2>2, <2>3, <2>4, IteratedKept
<1>10. QED
  BY <1>7, <1>8, <1>9 DEF IterInv, IteratedInv, Managers

LEMMA IterStep ==
  ASSUME TopologyAssumption, TypeOK, Owned, StageInv, IterInv, [Next]_vars
  PROVE  IterInv'
<1>1. Root \in Trees
  BY DEF TopologyAssumption
<1>2. UNCHANGED <<state, pc, linked, cancelled, done, run>> /\ (main' # "new" \/ main' = main) =>
        IterInv'
  <2> SUFFICES ASSUME UNCHANGED <<state, pc, linked, cancelled, done, run>>,
                      main' # "new" \/ main' = main
               PROVE  IterInv'
    OBVIOUS
  <2>1. StartedInv'
    BY DEF IterInv, StartedInv, StartedOf, Live, Executes
  <2>2. IteratedInv'
    BY DEF IterInv, IteratedInv, IteratedOf, Managers, Exhausted, AllSuccess, JobsOf
  <2>3. MarkedInv'
    BY DEF IterInv, MarkedInv, Managers
  <2>4. QED
    BY <2>1, <2>2, <2>3 DEF IterInv
<1>3. CASE RunTree
  <2>1. CASE cancelled[Root]
    BY <1>2, <1>3, <2>1 DEF RunTree, ExitWith
  <2>2. QED
    BY <1>3, <2>1, IterRunTree
<1>4. CASE RunReturns
  BY <1>2, <1>4 DEF RunReturns, ExitWith
<1>5. pc' = pc => \A j \in Jobs, g \in Greenlets : OnlyInterrupted(j, g)
  BY DEF OnlyInterrupted
<1>6. CASE RunTimesOut
  BY <1>1, <1>6, <1>5, IterCancel DEF RunTimesOut, ExitWith
<1>7. CASE Abort
  BY <1>1, <1>7, <1>5, IterCancel DEF Abort
<1>8. CASE RunningStep
  <2>1. main = "running"
    BY <1>8 DEF RunningStep
  <2>2. ASSUME NEW t \in Trees, IsDoneEvent(t)
        PROVE  IterInv'
    BY <1>2, <1>5, <2>2, IterCancel DEF IsDoneEvent
  <2>3. ASSUME NEW j \in Jobs, ManualOverride(j)
        PROVE  FALSE
    BY <2>3 DEF ManualOverride, Owned
  <2>4. ASSUME NEW j \in Jobs, NEW g \in Greenlets, InterruptStart(j, g)
        PROVE  IterInv'
    <3>1. /\ CancelTree(Root, {}) /\ UNCHANGED <<linked, run, main>>
          /\ \A k \in Jobs, h \in Greenlets : OnlyInterrupted(k, h)
      BY <2>4, Interrupted DEF OnlyInterrupted
    <3>2. QED
      BY <1>1, <3>1, IterCancel
  <2>5. QED
    BY <1>8, <2>1, <2>2, <2>3, <2>4, IterGreenletStep, IterReschedule DEF RunningStep
<1>9. CASE UNCHANGED vars
  BY <1>2, <1>9 DEF vars
<1>10. QED
  BY <1>3, <1>4, <1>6, <1>7, <1>8, <1>9 DEF Next, Terminated

LEMMA IterInvariant == Owned /\ Spec => []IterInv
<1>1. Init => IterInv
  <2>1. ASSUME Init, NEW j \in Jobs
        PROVE  StartedOf(j)
    BY <2>1 DEF Init, StartedOf, Live, Executes, DEPENDENCY_STATES
  <2>2. ASSUME Init, NEW m \in Managers
        PROVE  IteratedOf(m, SubtreeOf[m])
    <3>1. m \in Jobs /\ SubtreeOf[m] \in Trees /\ ArgCount[SubtreeOf[m]] \in Nat
      BY TopologyAssumption, ManagerOutside DEF TopologyAssumption, Managers
    <3>2. state[m] # "SUCCESSFULL" /\ \A g \in Greenlets : pc[m][g] # "script"
      BY <2>2, <3>1 DEF Init
    <3>3. run[SubtreeOf[m]] = 0 /\ linked = {}
      BY <2>2, <3>1 DEF Init
    <3>4. ~Exhausted(SubtreeOf[m])
      BY <3>1, <3>3 DEF Exhausted
    <3>5. QED
      BY <3>2, <3>3, <3>4 DEF IteratedOf
  <2>3. Init => MarkedInv
    BY DEF Init, MarkedInv
  <2>4. QED
    BY <2>1, <2>2, <2>3 DEF IterInv, StartedInv, IteratedInv
<1>2. TypeOK /\ Owned /\ StageInv /\ IterInv /\ [Next]_vars => IterInv'
  BY TopologyAssumption, IterStep
<1>3. Owned => Owned'
  BY DEF Owned
<1>4. QED
  BY <1>1, <1>2, <1>3, TypeCorrect, StageInvariant, PTL DEF Spec

\* A manager's job succeeds only when every iteration of its subtree has run and
\* every job of it has succeeded, and stays so, whatever fails, is rescheduled,
\* cancelled or times out: iterrun() counts no iteration twice, skips none, and
\* none of its jobs starts again afterwards.
THEOREM IterationsComplete == Owned /\ Spec => []AllIterationsRan
<1>1. IterInv => AllIterationsRan
  BY DEF IterInv, IteratedInv, IteratedOf, Managers, AllIterationsRan
<1>2. QED
  BY <1>1, IterInvariant, PTL

\* In a tree with iterated subtrees no script runs, and no subtree is entered, twice
\* at the same time: an iteration starts only jobs that have no greenlet left.
THEOREM IteratedOnce == Owned /\ Spec => []OneExecution
<1>1. StageInv /\ IterInv => OneExecution
  <2> SUFFICES ASSUME StageInv, IterInv, NEW j \in Jobs, NEW g \in Greenlets, NEW h \in Greenlets,
                      {pc[j][g], pc[j][h]} \subseteq {"checked", "acquiring", "script", "subtree"}
               PROVE  g = h
    BY DEF OneExecution
  <2>1. j \notin Undefined /\ Live(j, g) /\ Live(j, h)
    BY DEF StageInv, StageOf, Live
  <2>2. QED
    BY <2>1 DEF IterInv, StartedInv, StartedOf
<1>2. QED
  BY <1>1, IterInvariant, StageInvariant, PTL

\* In a tree with iterated subtrees whose scripts can always be started, a RUNNING
\* job has a greenlet that will end it: no job is started once the iterator of its
\* subtree is used up, where ExecIter.argument would raise.
THEOREM IteratedAlive == Owned /\ CanRaise = {} /\ Spec => []RunningIsAlive
<1>1. CanRaise = {} /\ StageInv /\ IterInv => RunningIsAlive
  <2> SUFFICES ASSUME CanRaise = {}, StageInv, IterInv, NEW j \in Jobs, state[j] = "RUNNING"
               PROVE  \E g \in Greenlets : pc[j][g] \in {"script", "subtree"}
    BY DEF RunningIsAlive
  <2>1. j \notin Undefined
    BY DEF StageInv, StageOf
  <2>2. QED
    BY <2>1 DEF IterInv, StartedInv, StartedOf, Executes
<1>2. CanRaise = {} => (CanRaise = {})'
  OBVIOUS
<1>3. QED
  BY <1>1, <1>2, IterInvariant, StageInvariant, PTL
-----------------------------------------------------------------------------
(* The order of execution.                                                 *)

\* A job that is overridden while it acquires its resources goes on, runs, and may
\* fail and be rescheduled, which takes back what its override let go: no order is
\* promised to a tree that has both resources and overrides.  An iteration leaves the
\* events of undefined jobs set (the run LoopStaleUndefined): none is promised to a
\* subtree where such a job has dependencies.
Settled ==
  \/ FlatTree /\ (WithResources = {} \/ "override" \notin Requests)
  \/ Owned /\ \A j \in Undefined : TreeOf[j] = Root \/ Orphan(j)

\* What both kinds of trees promise of a defined job's greenlet.
AloneOf(j) ==
  j \notin Undefined =>
    /\ \A g, h \in Greenlets : Live(j, g) /\ Live(j, h) => g = h
    /\ state[j] = "FAILED" => \A g \in Greenlets : ~Live(j, g)
    /\ \A g \in Greenlets : Executes(j, g) => state[j] = "RUNNING"

AloneInv == \A j \in Jobs : AloneOf(j)

LEMMA AloneFollows ==
  ASSUME Settled, OneGreenletInv, OnceInv, Owned => IterInv
  PROVE  AloneInv
<1>1. CASE FlatTree
  BY <1>1 DEF AloneInv, AloneOf, OneGreenletInv, OneGreenletOf, OnceInv, OnceOf, Once
<1>2. CASE Owned
  BY <1>2 DEF AloneInv, AloneOf, IterInv, StartedInv, StartedOf, DEPENDENCY_STATES
<1>3. QED
  BY <1>1, <1>2 DEF Settled

\* An event that stays set: reschedule() clears that of a failure.
Lasting(s) == s = "SUCCESSFULL" \/ "reschedule" \notin Requests

\* Those of j's first n dependencies whose events last are met.
MetUpTo(j, n) ==
  \A i \in 1..Len(ParentDeps[j]) :
    i <= n /\ Lasting(ParentDeps[j][i].state) =>
      ParentDeps[j][i].state \in events[ParentDeps[j][i].parent]

AllMet(j) == MetUpTo(j, Len(ParentDeps[j]))

\* j's start is under way: interrupted, or acquiring resources.
Underway(j, g) == pc[j][g] \in {"checked", "acquiring"}

\* What greenlet g of j has waited for.
PlaceOrder(j, g) ==
  /\ pc[j][g] \in {"ready", "waiting"} => MetUpTo(j, at[j][g] - 1)
  /\ pc[j][g] \in {"checked", "acquiring", "script", "subtree"} => AllMet(j)

\* What j's state says of its events and of its dependencies.
StateOrder(j) ==
  /\ Passed(j) => state[j] \in SUCCESS_STATES
  /\ state[j] = "RUNNING" \/ (j \in Undefined /\ Passed(j)) => AllMet(j)
  /\ \A g \in Greenlets : Underway(j, g) => state[j] \notin SUCCESS_STATES

\* The invariant.
OrderInv ==
  \A j \in Jobs : StateOrder(j) /\ \A g \in Greenlets : PlaceOrder(j, g)

\* No event of t's jobs that lasts is cleared.
EventsLastIn(t) ==
  \A j \in JobsOf(t) : \A s \in events[j] : Lasting(s) => s \in events'[j]

LEMMA MetKept ==
  ASSUME TopologyAssumption, NEW j \in Jobs, EventsLastIn(TreeOf[j]), NEW n, MetUpTo(j, n)
  PROVE  MetUpTo(j, n)'
<1>1. \A i \in 1..Len(ParentDeps[j]) : ParentDeps[j][i].parent \in JobsOf(TreeOf[j])
  BY DependencyType DEF TopologyAssumption, JobsOf
<1>2. QED
  BY <1>1 DEF MetUpTo, EventsLastIn, Lasting

\* A greenlet that a step leaves where it is before any is woken, has just
\* spawned, or has ended.
Placed(places, index, j, g) ==
  \/ places[j][g] = pc[j][g] /\ index[j][g] = at[j][g]
  \/ places[j][g] = "ready" /\ index[j][g] = 1
  \/ places[j][g] = "none"

\* The event that wakes a greenlet is the dependency it waited for.
LEMMA WokenOrder ==
  ASSUME TopologyAssumption, TypeOK, NEW j \in Jobs, NEW g \in Greenlets,
         EventsLastIn(TreeOf[j]), PlaceOrder(j, g), NEW fired, NEW flags, NEW places, NEW index,
         pc' = Woken(places, fired), at' = WokenAt(index, fired),
         events' = EventsWith(flags, fired),
         Placed(places, index, j, g)
  PROVE  PlaceOrder(j, g)'
<1>1. CASE Wakes(fired, j, g)
  <2> DEFINE d == ParentDeps[j][at[j][g]]
  <2>1. pc[j][g] = "waiting" /\ <<d.parent, d.state>> \in fired
    BY <1>1 DEF Wakes
  <2>2. at[j][g] \in 1..Len(ParentDeps[j]) /\ at[j][g] \in Nat
    BY <2>1 DEF TypeOK, GreenletTypeOK
  <2>3. d.parent \in Jobs /\ d.state \in DEPENDENCY_STATES
    BY <2>2, DependencyType
  <2>4. d.state \in events'[d.parent]
    BY <2>1, <2>3 DEF EventsWith
  <2>5. PICK n : n = at[j][g] - 1
    OBVIOUS
  <2>6. MetUpTo(j, n)'
    <3>1. MetUpTo(j, n)
      BY <2>1, <2>5 DEF PlaceOrder
    <3>2. QED
      BY <3>1, MetKept
  <2>7. pc'[j][g] = "ready" /\ at'[j][g] - 1 = n + 1
    BY <1>1, <2>2, <2>5 DEF Woken, WokenAt
  <2>8. ASSUME NEW i \in 1..Len(ParentDeps[j]), i <= n + 1, Lasting(ParentDeps[j][i].state)
        PROVE  ParentDeps[j][i].state \in events'[ParentDeps[j][i].parent]
    <3>1. CASE i = at[j][g]
      BY <2>4, <3>1
    <3>2. CASE i <= n
      BY <2>6, <2>8, <3>2 DEF MetUpTo
    <3>3. i = at[j][g] \/ i <= n
      BY <2>2, <2>5, <2>8
    <3>4. QED
      BY <3>1, <3>2, <3>3
  <2>9. QED
    BY <2>7, <2>8 DEF PlaceOrder, MetUpTo
<1>2. CASE ~Wakes(fired, j, g)
  <2>1. pc'[j][g] = places[j][g] /\ at'[j][g] = index[j][g]
    BY <1>2 DEF Woken, WokenAt
  <2>2. CASE places[j][g] = pc[j][g] /\ index[j][g] = at[j][g]
    BY <2>1, <2>2, MetKept DEF PlaceOrder, AllMet
  <2>3. CASE places[j][g] = "ready" /\ index[j][g] = 1
    BY <2>1, <2>3 DEF PlaceOrder, MetUpTo
  <2>4. CASE places[j][g] = "none"
    BY <2>1, <2>4 DEF PlaceOrder
  <2>5. QED
    BY <2>2, <2>3, <2>4 DEF Placed
<1>3. QED
  BY <1>1, <1>2

\* A job whose state a step does not change keeps its order.
LEMMA StateOrderKept ==
  ASSUME TopologyAssumption, NEW j \in Jobs, EventsLastIn(TreeOf[j]), StateOrder(j),
         \/ state'[j] = state[j]
         \/ state[j] \notin SUCCESS_STATES /\ state'[j] = "CANCELLED",
         Passed(j)' => Passed(j),
         \A g \in Greenlets : Underway(j, g)' => Underway(j, g)
  PROVE  StateOrder(j)'
<1>1. AllMet(j) => AllMet(j)'
  BY MetKept DEF AllMet
<1>2. QED
  BY <1>1 DEF StateOrder, SUCCESS_STATES

EventsOf(j, S) == {<<j, s>> : s \in S}

LEMMA JobStepOrder ==
  ASSUME TopologyAssumption, TypeOK, StageInv, AloneInv, OrderInv,
         NEW j \in Jobs, NEW g \in Greenlets, pc[j][g] \notin {"none", "waiting"},
         NEW s, NEW S \in SUBSET DEPENDENCY_STATES, NEW p \in {"none", "acquiring", "script"},
         JobStep(j, g, s, EventsOf(j, S), p),
         Passed(j) \/ "SUCCESSFULL" \in S => s \in SUCCESS_STATES,
         s = "RUNNING" \/ p # "none" \/ (j \in Undefined /\ "SUCCESSFULL" \in S) => AllMet(j),
         p = "acquiring" => s = "BLOCKED"
  PROVE  OrderInv'
<1> DEFINE places == [pc EXCEPT ![j][g] = p]
           fired  == EventsOf(j, S)
<1>1. /\ pc' = Woken(places, fired) /\ at' = WokenAt(at, fired)
      /\ events' = EventsWith(events, fired)
  BY DEF JobStep
<1>2. \A t : EventsLastIn(t)
  BY <1>1 DEF EventsLastIn, JobsOf, EventsWith, TypeOK, StateTypeOK
<1>3. /\ state'[j] = s
      /\ \A k \in Jobs : k # j => state'[k] = state[k]
      /\ pc'[j][g] = p
      /\ \A k \in Jobs, h \in Greenlets : ~(k = j /\ h = g) => OnlyWoken(k, h)
  <2>1. p \in Places
    BY DEF Places
  <2>2. QED
    BY <2>1, JobStepEffect
<1>4. \A h \in Greenlets : h # g => ~Underway(j, h)
  BY DEF AloneInv, AloneOf, Live, Underway, StageInv, StageOf
<1>5. \A k \in Jobs : Passed(k)' <=> Passed(k) \/ (k = j /\ "SUCCESSFULL" \in S)
  BY <1>1 DEF EventsOf, Passed, EventsWith, DEPENDENCY_STATES, TypeOK, StateTypeOK
<1>6. AllMet(j) => AllMet(j)'
  BY <1>2, MetKept DEF AllMet
<1>7. ASSUME NEW k \in Jobs
      PROVE  StateOrder(k)'
  <2>1. StateOrder(k)
    BY DEF OrderInv
  <2>2. CASE k # j
    <3>1. \A h \in Greenlets : Underway(k, h)' => Underway(k, h)
      BY <1>3, <2>2 DEF OnlyWoken, Underway
    <3>2. QED
      BY <1>2, <1>3, <1>5, <2>1, <2>2, <3>1, StateOrderKept
  <2>3. CASE k = j
    <3>1. \A h \in Greenlets : Underway(j, h)' => h = g /\ p = "acquiring"
      BY <1>3, <1>4 DEF OnlyWoken, Underway
    <3>2. Passed(j)' => s \in SUCCESS_STATES
      BY <1>5
    <3>3. s = "RUNNING" \/ (j \in Undefined /\ Passed(j)') => AllMet(j)'
      BY <1>5, <1>6, <2>1, <2>3 DEF StateOrder
    <3>4. QED
      BY <1>3, <2>3, <3>1, <3>2, <3>3 DEF StateOrder, SUCCESS_STATES
  <2>4. QED
    BY <2>2, <2>3
<1>8. ASSUME NEW k \in Jobs, NEW h \in Greenlets
      PROVE  PlaceOrder(k, h)'
  <2>1. CASE k = j /\ h = g
    BY <1>3, <1>6, <2>1 DEF PlaceOrder
  <2>2. CASE ~(k = j /\ h = g)
    <3>1. Placed(places, at, k, h)
      BY <2>2 DEF Placed, TypeOK, GreenletTypeOK
    <3>2. PlaceOrder(k, h)
      BY DEF OrderInv
    <3> HIDE DEF places, fired
    <3>3. QED
      BY <1>1, <1>2, <3>1, <3>2, WokenOrder
  <2>3. QED
    BY <2>1, <2>2
<1>9. QED
  BY <1>7, <1>8 DEF OrderInv

\* Once no dependency is unmet, all that last are met.
LEMMA ParentsMetOrder ==
  ASSUME TopologyAssumption, TypeOK, OrderInv, NEW j \in Jobs, NEW g \in Greenlets,
         ParentsMet(j, g)
  PROVE  AllMet(j)
<1>1. MetUpTo(j, at[j][g] - 1) /\ Unmet(j, g) = {} /\ at[j][g] \in Nat
  BY DEF ParentsMet, OrderInv, PlaceOrder, TypeOK, GreenletTypeOK
<1>2. Len(ParentDeps[j]) \in Nat
  BY DEF TopologyAssumption
<1>3. ASSUME NEW i \in 1..Len(ParentDeps[j]), Lasting(ParentDeps[j][i].state)
      PROVE  ParentDeps[j][i].state \in events[ParentDeps[j][i].parent]
  <2>1. CASE i <= at[j][g] - 1
    BY <1>1, <1>3, <2>1 DEF MetUpTo
  <2>2. CASE i \in at[j][g]..Len(ParentDeps[j])
    BY <1>1, <2>2 DEF Unmet
  <2>3. QED
    BY <1>1, <1>2, <2>1, <2>2
<1>4. QED
  BY <1>3 DEF AllMet, MetUpTo

\* The dependency a greenlet blocks on is the first that is not met.
LEMMA WaitOrder ==
  ASSUME TopologyAssumption, TypeOK, OrderInv, NEW j \in Jobs, NEW g \in Greenlets,
         WaitForParent(j, g)
  PROVE  OrderInv'
<1>1. Unmet(j, g) \subseteq Nat /\ Unmet(j, g) # {} /\ at[j][g] \in Nat
  <2>1. at[j][g] \in Nat /\ Len(ParentDeps[j]) \in Nat
    BY DEF TypeOK, GreenletTypeOK, TopologyAssumption
  <2>2. QED
    <3>1. Unmet(j, g) # {}
      BY DEF WaitForParent
    <3>2. Unmet(j, g) \subseteq Nat
      BY <2>1 DEF Unmet
    <3>3. QED
      BY <2>1, <3>1, <3>2
<1>2. PICK first \in Unmet(j, g) :
        /\ \A k \in Unmet(j, g) : first <= k
        /\ at' = [at EXCEPT ![j][g] = first]
  BY <1>1, FirstPosition DEF WaitForParent
<1>3. first \in at[j][g]..Len(ParentDeps[j]) /\ first \in Nat /\ Len(ParentDeps[j]) \in Nat
  BY <1>1 DEF Unmet, TopologyAssumption
<1>4. ASSUME NEW i \in 1..Len(ParentDeps[j]), i <= first - 1, Lasting(ParentDeps[j][i].state)
      PROVE  ParentDeps[j][i].state \in events[ParentDeps[j][i].parent]
  <2>1. CASE i <= at[j][g] - 1
    BY <1>4, <2>1 DEF WaitForParent, OrderInv, PlaceOrder, MetUpTo
  <2>2. CASE i \in at[j][g]..Len(ParentDeps[j])
    <3>1. i \notin Unmet(j, g)
      BY <1>2, <1>3, <1>4
    <3>2. QED
      BY <2>2, <3>1 DEF Unmet
  <2>3. i <= at[j][g] - 1 \/ i \in at[j][g]..Len(ParentDeps[j])
    BY <1>1, <1>3
  <2>4. QED
    BY <2>1, <2>2, <2>3
<1>5. MetUpTo(j, first - 1)
  BY <1>4 DEF MetUpTo
<1>6. /\ events' = events /\ state' = state
      /\ pc' = [pc EXCEPT ![j][g] = "waiting"]
  BY DEF WaitForParent
<1>7. ASSUME NEW k \in Jobs
      PROVE  StateOrder(k)'
  <2>1. StateOrder(k)
    BY DEF OrderInv
  <2>2. \A h \in Greenlets : Underway(k, h)' => Underway(k, h)
    BY <1>6 DEF Underway, TypeOK, GreenletTypeOK
  <2>3. QED
    BY <1>6, <2>1, <2>2 DEF StateOrder, Passed, AllMet, MetUpTo
<1>8. ASSUME NEW k \in Jobs, NEW h \in Greenlets
      PROVE  PlaceOrder(k, h)'
  <2>1. CASE k = j /\ h = g
    <3>1. pc'[j][g] = "waiting" /\ at'[j][g] = first
      BY <1>2, <1>6 DEF TypeOK, GreenletTypeOK
    <3>2. QED
      BY <1>5, <1>6, <2>1, <3>1 DEF PlaceOrder, MetUpTo
  <2>2. CASE ~(k = j /\ h = g)
    <3>1. pc'[k][h] = pc[k][h] /\ at'[k][h] = at[k][h]
      BY <1>2, <1>6, <2>2 DEF TypeOK, GreenletTypeOK
    <3>2. QED
      BY <1>6, <3>1 DEF OrderInv, PlaceOrder, MetUpTo, AllMet
  <2>3. QED
    BY <2>1, <2>2
<1>9. QED
  BY <1>7, <1>8 DEF OrderInv

\* Where spawning leaves a greenlet.
LEMMA SpawnedPlaceAt ==
  ASSUME GreenletTypeOK, NEW S, \A j \in S : FreeGreenlets(j) # {},
         NEW j \in Jobs, NEW g \in Greenlets
  PROVE  Placed(SpawnedPc(S), SpawnedAt(S), j, g)
<1>1. CASE j \in S
  BY <1>1, AnyFreeType DEF Placed, SpawnedPc, SpawnedAt, GreenletTypeOK
<1>2. CASE j \notin S
  BY <1>2 DEF Placed, SpawnedPc, SpawnedAt
<1>3. QED
  BY <1>1, <1>2

\* flags are the events with which a manager starts the jobs of t: those of other
\* trees untouched, and none left of a success of a defined job.
ClearsOnly(t, flags) ==
  /\ flags \in [Jobs -> SUBSET DEPENDENCY_STATES]
  /\ \A k \in Jobs : TreeOf[k] # t => flags[k] = events[k]
  /\ \A k \in JobsOf(t) : k \notin Undefined => "SUCCESSFULL" \notin flags[k]

\* Starting an iteration takes the order back in the subtree, where no defined job has
\* a greenlet, and keeps it elsewhere.
LEMMA ManagerStartsOrder ==
  ASSUME TopologyAssumption, Settled, TypeOK, StageInv, AloneInv, OrderInv,
         NEW j \in Jobs, NEW g \in Greenlets, SubtreeOf[j] # NoTree,
         pc[j][g] \notin {"none", "waiting"}, j \notin Undefined, AllMet(j), ~Passed(j),
         NEW st, NEW flags, StartsFrom(j, SubtreeOf[j], st), Idle(SubtreeOf[j]),
         ClearsOnly(SubtreeOf[j], flags), ManagerStarts(j, g, st, flags)
  PROVE  OrderInv'
<1> DEFINE t      == SubtreeOf[j]
           S      == Spawning(t, st)
           places == [SpawnedPc(S) EXCEPT ![j][g] = "subtree"]
           fired  == {<<k, "SUCCESSFULL">> : k \in {i \in JobsOf(t) : ShortCircuits(i, st)}}
<1>1. /\ events' = EventsWith(flags, fired)
      /\ pc' = Woken(places, fired)
      /\ at' = WokenAt(SpawnedAt(S), fired)
      /\ \A k \in S : FreeGreenlets(k) # {}
  BY DEF ManagerStarts, StartJobs
<1>2. /\ state' = st
      /\ pc'[j][g] = "subtree"
      /\ \A k \in Jobs, h \in Greenlets : ~(k = j /\ h = g) => OnlyRoused(k, h)
  <2>1. pc[j][g] # "waiting"
    OBVIOUS
  <2>2. QED
    BY <2>1, ManagerStartsEffect
<1>3. TreeOf[j] = Root /\ t # Root
  BY ManagerOutside
<1>4. \A k \in Jobs : TreeOf[k] # t => events'[k] = events[k]
  BY <1>1 DEF ClearsOnly, EventsWith, JobsOf
<1>5. \A k \in Jobs : TreeOf[k] # t => EventsLastIn(TreeOf[k]) /\ (Passed(k)' <=> Passed(k))
  BY <1>4 DEF EventsLastIn, JobsOf, Passed
<1>6. \A k \in JobsOf(t) : k \in Undefined => ParentDeps[k] = <<>>
  BY <1>3 DEF Settled, FlatTree, Orphan, JobsOf
<1>7. \A k \in JobsOf(t) : k \notin Undefined => ~Passed(k)' /\ \A h \in Greenlets : pc[k][h] = "none"
  <2>1. \A k \in JobsOf(t) : k \notin Undefined => ~ShortCircuits(k, st)
    BY DEF StartsFrom, ShortCircuits
  <2>2. \A k \in JobsOf(t) : k \notin Undefined => ~Passed(k)'
    BY <1>1, <2>1 DEF Passed, EventsWith, ClearsOnly, JobsOf
  <2>3. QED
    BY <2>2 DEF Idle, Live
<1>8. \A k \in Jobs, h \in Greenlets : Underway(k, h)' => Underway(k, h)
  BY <1>2 DEF OnlyRoused, Underway
<1>9. AllMet(j)'
  BY <1>3, <1>5, MetKept DEF AllMet
<1>10. ASSUME NEW k \in Jobs
       PROVE  StateOrder(k)'
  <2>1. StateOrder(k) /\ StageOf(k)
    BY DEF OrderInv, StageInv
  <2>2. CASE k = j
    <3>1. \A h \in Greenlets : ~Underway(j, h)'
      BY <1>2 DEF OnlyRoused, AloneInv, AloneOf, Live, Underway
    <3>2. ~Passed(j)'
      BY <1>3, <1>5
    <3>3. QED
      BY <1>9, <2>2, <3>1, <3>2 DEF StateOrder
  <2>3. CASE k # j /\ TreeOf[k] # t
    <3>1. state'[k] = state[k]
      BY <1>2, <2>3 DEF StartsFrom
    <3>2. QED
      BY <1>5, <1>8, <2>1, <2>3, <3>1, StateOrderKept
  <2>4. CASE TreeOf[k] = t /\ k \in Undefined
    <3>1. state'[k] = "UNDEF" /\ AllMet(k)'
      BY <1>2, <1>6, <2>1, <2>4 DEF StartsFrom, JobsOf, StageOf, AllMet, MetUpTo
    <3>2. \A h \in Greenlets : ~Underway(k, h)'
      BY <1>8, <2>1, <2>4 DEF Underway, StageOf
    <3>3. QED
      BY <3>1, <3>2 DEF StateOrder, SUCCESS_STATES
  <2>5. CASE TreeOf[k] = t /\ k \notin Undefined
    <3>1. k \in JobsOf(t)
      BY <2>5 DEF JobsOf
    <3>2. state'[k] # "RUNNING" /\ ~Passed(k)'
      BY <1>2, <1>7, <2>5, <3>1 DEF StartsFrom
    <3>3. \A h \in Greenlets : ~Underway(k, h)'
      BY <1>7, <1>8, <2>5, <3>1 DEF Underway
    <3>4. QED
      BY <2>5, <3>2, <3>3 DEF StateOrder
  <2>6. QED
    BY <2>2, <2>3, <2>4, <2>5
<1>11. ASSUME NEW k \in Jobs, NEW h \in Greenlets
       PROVE  PlaceOrder(k, h)'
  <2>1. CASE k = j /\ h = g
    BY <1>2, <1>9, <2>1 DEF PlaceOrder
  <2>2. CASE ~(k = j /\ h = g)
    <3>1. Placed(places, SpawnedAt(S), k, h)
      <4>1. GreenletTypeOK /\ \A i \in S : FreeGreenlets(i) # {}
        BY <1>1 DEF TypeOK
      <4> HIDE DEF S
      <4>2. Placed(SpawnedPc(S), SpawnedAt(S), k, h)
        BY <4>1, SpawnedPlaceAt
      <4>3. SpawnedPc(S) \in [Jobs -> [Greenlets -> Places]]
        BY <4>1, SpawnType
      <4>4. places[k][h] = SpawnedPc(S)[k][h]
        BY <2>2, <4>3
      <4> HIDE DEF places
      <4>5. QED
        BY <4>2, <4>4 DEF Placed
    <3> HIDE DEF places, S, fired
    <3>2. CASE TreeOf[k] # t
      <4>1. PlaceOrder(k, h) /\ EventsLastIn(TreeOf[k])
        BY <1>5, <3>2 DEF OrderInv
      <4>2. QED
        BY <1>1, <3>1, <4>1, WokenOrder
    <3>3. CASE TreeOf[k] = t /\ k \in Undefined
      <4>1. ParentDeps[k] = <<>>
        BY <1>6, <3>3 DEF JobsOf
      <4>2. QED
        BY <4>1 DEF PlaceOrder, AllMet, MetUpTo
    <3>4. CASE TreeOf[k] = t /\ k \notin Undefined
      <4>1. pc[k][h] = "none"
        BY <1>7, <3>4 DEF JobsOf
      <4>2. pc'[k][h] = places[k][h] /\ at'[k][h] = SpawnedAt(S)[k][h]
        BY <1>1, <4>1 DEF Woken, WokenAt, Wakes
      <4>3. pc'[k][h] = "none" \/ (pc'[k][h] = "ready" /\ at'[k][h] = 1)
        BY <3>1, <4>1, <4>2 DEF Placed
      <4>4. QED
        BY <4>3 DEF PlaceOrder, MetUpTo
    <3>5. QED
      BY <3>2, <3>3, <3>4
  <2>3. QED
    BY <2>1, <2>2
<1>12. QED
  BY <1>10, <1>11 DEF OrderInv

\* How a manager enters its subtree.
LEMMA EnterStarts ==
  ASSUME TopologyAssumption, TypeOK, StageInv, IterInv, OrderInv,
         NEW j \in Jobs, NEW g \in Greenlets, EnterSubtree(j, g)
  PROVE  \E st, flags :
           /\ ManagerStarts(j, g, st, flags)
           /\ StartsFrom(j, SubtreeOf[j], st) /\ Idle(SubtreeOf[j])
           /\ ClearsOnly(SubtreeOf[j], flags)
<1> DEFINE st == [state EXCEPT ![j] = "RUNNING"]
<1>1. ManagerStarts(j, g, st, events)
  BY DEF EnterSubtree, ManagerStarts
<1>2. StartsFrom(j, SubtreeOf[j], st) /\ Idle(SubtreeOf[j])
  BY EnterFrom
<1>3. ClearsOnly(SubtreeOf[j], events)
  <2>1. \A k \in JobsOf(SubtreeOf[j]) : k \notin Undefined => state[k] \notin SUCCESS_STATES
    BY EnterIdle DEF SUCCESS_STATES, JobsOf, StageInv, StageOf
  <2>2. \A k \in JobsOf(SubtreeOf[j]) : k \notin Undefined => "SUCCESSFULL" \notin events[k]
    BY <2>1 DEF OrderInv, StateOrder, Passed, JobsOf
  <2>3. QED
    BY <2>2 DEF ClearsOnly, TypeOK, StateTypeOK
<1> HIDE DEF st
<1>4. QED
  BY <1>1, <1>2, <1>3

\* How it goes on to the next iteration.
LEMMA NextStarts ==
  ASSUME TopologyAssumption, TypeOK, StageInv, IterInv,
         NEW j \in Jobs, NEW g \in Greenlets, NextIteration(j, g)
  PROVE  \E st, flags :
           /\ ManagerStarts(j, g, st, flags)
           /\ StartsFrom(j, SubtreeOf[j], st) /\ Idle(SubtreeOf[j])
           /\ ClearsOnly(SubtreeOf[j], flags)
<1> DEFINE st    == ResetStates(SubtreeOf[j], [state EXCEPT ![j] = "RUNNING"])
           flags == ResetEvents(SubtreeOf[j])
<1>1. ManagerStarts(j, g, st, flags)
  BY DEF NextIteration, ManagerStarts
<1>2. StartsFrom(j, SubtreeOf[j], st) /\ Idle(SubtreeOf[j])
  BY NextFrom
<1>3. ClearsOnly(SubtreeOf[j], flags)
  BY DEF ClearsOnly, ResetEvents, JobsOf, StageInv, StageOf, TypeOK, StateTypeOK
<1> HIDE DEF st, flags
<1>4. QED
  BY <1>1, <1>2, <1>3

LEMMA OrderGreenletStep ==
  ASSUME TopologyAssumption, Settled, TypeOK, StageInv, AloneInv, Owned => IterInv, OrderInv,
         NEW j \in Jobs, NEW g \in Greenlets, GreenletStep(j, g)
  PROVE  OrderInv'
<1>1. /\ StateOrder(j) /\ PlaceOrder(j, g) /\ StageOf(j)
      /\ ParentsMet(j, g) => AllMet(j)
  BY ParentsMetOrder DEF OrderInv, StageInv
<1>3. EventsOf(j, {}) = {} /\ \A s : EventsOf(j, {s}) = {<<j, s>>}
  BY DEF EventsOf
<1>4. ParentsMet(j, g) => pc[j][g] \notin {"none", "waiting"}
  BY DEF ParentsMet
<1>9. Underway(j, g) =>
        ~Passed(j) /\ AllMet(j) /\ j \notin Undefined /\ pc[j][g] \notin {"none", "waiting"}
  BY <1>1 DEF Underway, StateOrder, PlaceOrder, StageOf
<1>2. PassesCheck(j, g) => ~Passed(j) /\ AllMet(j) /\ pc[j][g] \notin {"none", "waiting"}
  BY <1>1, <1>4 DEF PassesCheck, StateOrder, SUCCESS_STATES, DONE_STATES
<1>5. CASE WaitForParent(j, g)
  BY <1>5, WaitOrder
<1>6. CASE SkipUndefined(j, g)
  <2>1. JobStep(j, g, "UNDEF", EventsOf(j, {"SUCCESSFULL"}), "none") /\ ParentsMet(j, g)
    BY <1>3, <1>6 DEF SkipUndefined
  <2>2. {"SUCCESSFULL"} \in SUBSET DEPENDENCY_STATES /\ "UNDEF" \in SUCCESS_STATES
    BY DEF DEPENDENCY_STATES, SUCCESS_STATES
  <2>3. QED
    BY <1>1, JobStepOrder, <1>4, <2>1, <2>2
<1>7. CASE AbandonStart(j, g)
  <2>1. JobStep(j, g, state[j], EventsOf(j, {}), "none") /\ ParentsMet(j, g) /\ state[j] # "RUNNING"
    BY <1>3, <1>7 DEF AbandonStart, DONE_STATES
  <2>2. Passed(j) => state[j] \in SUCCESS_STATES
    BY <1>1 DEF StateOrder
  <2>3. QED
    BY <1>1, JobStepOrder, <1>4, <2>1, <2>2
<1>8. CASE BlockOnResources(j, g)
  <2>1. JobStep(j, g, "BLOCKED", EventsOf(j, {}), "acquiring")
    BY <1>3, <1>8 DEF BlockOnResources
  <2>2. ~Passed(j) /\ AllMet(j) /\ pc[j][g] \notin {"none", "waiting"}
    BY <1>2, <1>8, <1>9 DEF BlockOnResources, Underway
  <2>3. QED
    BY JobStepOrder, <2>1, <2>2
<1>10. CASE GiveUpResources(j, g)
  <2>1. JobStep(j, g, "FAILED", EventsOf(j, {"FAILED"}), "none") /\ pc[j][g] = "acquiring"
    BY <1>3, <1>10 DEF GiveUpResources
  <2>2. {"FAILED"} \in SUBSET DEPENDENCY_STATES
    BY DEF DEPENDENCY_STATES
  <2>3. QED
    BY JobStepOrder, <1>9, <2>1, <2>2 DEF Underway
<1>11. Admitted(j, g) => ~Passed(j) /\ AllMet(j) /\ pc[j][g] \notin {"none", "waiting"}
  BY <1>2, <1>9 DEF Admitted, Underway
<1>12. CASE StartScript(j, g)
  <2>1. JobStep(j, g, "RUNNING", EventsOf(j, {}), "script") /\ Admitted(j, g)
    BY <1>3, <1>12 DEF StartScript
  <2>2. QED
    BY <1>1, JobStepOrder, <1>11, <2>1
<1>13. CASE FailToStart(j, g)
  <2>1. JobStep(j, g, "RUNNING", EventsOf(j, {}), "none") /\ Admitted(j, g)
    BY <1>3, <1>13 DEF FailToStart
  <2>2. QED
    BY <1>1, JobStepOrder, <1>11, <2>1
<1>14. CASE ScriptExits(j, g)
  <2>1. PICK s \in {"SUCCESSFULL", "FAILED"} : JobStep(j, g, s, FiredBy(j, s), "none")
    BY <1>14 DEF ScriptExits
  <2>2. pc[j][g] = "script" /\ state[j] = "RUNNING" /\ j \notin Undefined
    BY <1>1, <1>14 DEF ScriptExits, AloneInv, AloneOf, Executes, StageOf
  <2>3. FiredBy(j, s) = EventsOf(j, {s}) /\ {s} \in SUBSET DEPENDENCY_STATES
    BY <1>3, <2>2 DEF FiredBy, DEPENDENCY_STATES
  <2>4. ~Passed(j)
    BY <1>1, <2>2 DEF StateOrder, SUCCESS_STATES
  <2>5. "SUCCESSFULL" \in {s} => s \in SUCCESS_STATES
    BY DEF SUCCESS_STATES
  <2>6. JobStep(j, g, s, EventsOf(j, {s}), "none") /\ s # "RUNNING"
    BY <2>1, <2>3
  <2>7. QED
    BY <1>1, <2>2, <2>3, <2>4, <2>5, <2>6, JobStepOrder
<1>15. SubtreeOf[j] # NoTree => Owned /\ IterInv
  BY DEF Settled, FlatTree
<1>16. Admitted(j, g) \/ SubtreeReturned(j, g) =>
         /\ pc[j][g] \notin {"none", "waiting"} /\ j \notin Undefined
         /\ ~Passed(j) /\ AllMet(j)
  <2>1. Admitted(j, g) \/ SubtreeReturned(j, g) => pc[j][g] = "subtree" \/ Admitted(j, g)
    BY DEF SubtreeReturned
  <2>2. pc[j][g] = "subtree" => state[j] = "RUNNING" /\ j \notin Undefined
    BY <1>1 DEF AloneInv, AloneOf, Executes, StageOf
  <2>3. pc[j][g] = "subtree" => ~Passed(j) /\ AllMet(j)
    BY <1>1, <2>2 DEF StateOrder, PlaceOrder, SUCCESS_STATES
  <2>4. Admitted(j, g) => j \notin Undefined
    BY <1>1, <1>9 DEF Admitted, PassesCheck, Underway, DONE_STATES, StageOf
  <2>5. QED
    BY <1>11, <2>1, <2>2, <2>3, <2>4
<1>17. CASE LeaveSubtree(j, g)
  <2>1. PICK s \in {"SUCCESSFULL", "FAILED"} : JobStep(j, g, s, {<<j, s>>}, "none")
    BY <1>17 DEF LeaveSubtree, SubtreeOutcome
  <2>2. Admitted(j, g) \/ SubtreeReturned(j, g)
    BY <1>17 DEF LeaveSubtree
  <2>3. {s} \in SUBSET DEPENDENCY_STATES /\ s # "RUNNING"
        /\ ("SUCCESSFULL" \in {s} => s \in SUCCESS_STATES)
    BY DEF DEPENDENCY_STATES, SUCCESS_STATES
  <2>4. JobStep(j, g, s, EventsOf(j, {s}), "none")
    BY <1>3, <2>1
  <2>5. QED
    BY <1>16, <2>2, <2>3, <2>4, JobStepOrder
<1>18. CASE LastIteration(j, g)
  <2>1. JobStep(j, g, "SUCCESSFULL", EventsOf(j, {"SUCCESSFULL"}), "none") /\ SubtreeReturned(j, g)
    BY <1>3, <1>18 DEF LastIteration
  <2>2. {"SUCCESSFULL"} \in SUBSET DEPENDENCY_STATES /\ "SUCCESSFULL" \in SUCCESS_STATES
    BY DEF DEPENDENCY_STATES, SUCCESS_STATES
  <2>3. QED
    BY <1>16, <2>1, <2>2, JobStepOrder
<1>19. CASE EnterSubtree(j, g) \/ NextIteration(j, g)
  <2>1. SubtreeOf[j] # NoTree /\ (Admitted(j, g) \/ SubtreeReturned(j, g))
    BY <1>19 DEF EnterSubtree, NextIteration, SubtreeReturned
  <2>2. Owned /\ IterInv /\ j \in Managers
    BY <1>15, <2>1 DEF Managers
  <2>3. PICK st, flags :
          /\ ManagerStarts(j, g, st, flags)
          /\ StartsFrom(j, SubtreeOf[j], st) /\ Idle(SubtreeOf[j])
          /\ ClearsOnly(SubtreeOf[j], flags)
    BY <1>19, <2>2, EnterStarts, NextStarts
  <2>4. QED
    BY <1>16, <2>1, <2>2, <2>3, ManagerStartsOrder
<1>20. QED
  BY <1>5, <1>6, <1>7, <1>8, <1>10, <1>12, <1>13, <1>14, <1>17, <1>18, <1>19 DEF GreenletStep

LEMMA OrderCancel ==
  ASSUME TopologyAssumption, TypeOK, OrderInv, NEW t \in Trees, NEW completed,
         CancelTree(t, completed), UNCHANGED <<events, at>>,
         \A j \in Jobs, g \in Greenlets :
           \/ pc'[j][g] = pc[j][g]
           \/ ParentsMet(j, g) /\ state[j] \notin DONE_STATES /\ pc'[j][g] = "checked"
  PROVE  OrderInv'
<1>1. \A u : EventsLastIn(u)
  BY DEF EventsLastIn, JobsOf
<1>2. ASSUME NEW j \in Jobs
      PROVE  StateOrder(j)'
  <2>1. \/ state'[j] = state[j]
        \/ state[j] \notin SUCCESS_STATES /\ state'[j] = "CANCELLED"
    BY CancelEffect DEF DONE_STATES, SUCCESS_STATES
  <2>2. StateOrder(j) /\ Passed(j)' = Passed(j) /\ (AllMet(j) => AllMet(j)')
    BY <1>1, MetKept DEF OrderInv, Passed, AllMet
  <2>3. ASSUME NEW g \in Greenlets, Underway(j, g)'
        PROVE  state'[j] \notin SUCCESS_STATES
    BY <2>1, <2>2, <2>3 DEF Underway, StateOrder, SUCCESS_STATES, DONE_STATES
  <2>4. QED
    BY <2>1, <2>2, <2>3 DEF StateOrder, SUCCESS_STATES
<1>3. ASSUME NEW j \in Jobs, NEW g \in Greenlets
      PROVE  PlaceOrder(j, g)'
  <2>1. PlaceOrder(j, g) /\ (ParentsMet(j, g) => AllMet(j))
    BY ParentsMetOrder DEF OrderInv
  <2>2. at'[j][g] = at[j][g] /\ events' = events
    OBVIOUS
  <2>3. CASE pc'[j][g] = pc[j][g]
    BY <2>1, <2>2, <2>3 DEF PlaceOrder, MetUpTo, AllMet
  <2>4. CASE ParentsMet(j, g) /\ pc'[j][g] = "checked"
    BY <2>1, <2>2, <2>4 DEF PlaceOrder, MetUpTo, AllMet
  <2>5. QED
    BY <2>3, <2>4
<1>4. QED
  BY <1>2, <1>3 DEF OrderInv

LEMMA OrderRunTree ==
  ASSUME TopologyAssumption, TypeOK, StageInv, OrderInv,
         StartJobs(Root, state, events, SpawnedPc(Spawning(Root, state)))
  PROVE  OrderInv'
<1> DEFINE S     == Spawning(Root, state)
           fired == {<<j, "SUCCESSFULL">> : j \in {k \in JobsOf(Root) : ShortCircuits(k, state)}}
<1>1. /\ state' = state
      /\ events' = EventsWith(events, fired)
      /\ pc' = Woken(SpawnedPc(S), fired)
      /\ at' = WokenAt(SpawnedAt(S), fired)
      /\ \A j \in S : FreeGreenlets(j) # {}
  BY DEF StartJobs
<1>2. \A t : EventsLastIn(t)
  BY <1>1 DEF EventsLastIn, JobsOf, EventsWith, TypeOK, StateTypeOK
<1>3. \A j \in Jobs, g \in Greenlets : Underway(j, g)' => Underway(j, g)
  BY StartJobsEffect DEF OnlyRoused, Underway
<1>4. ASSUME NEW j \in Jobs
      PROVE  Passed(j)' => Passed(j) \/ (state[j] = "UNDEF" /\ ParentDeps[j] = <<>>)
  BY <1>1 DEF Passed, EventsWith, ShortCircuits, Orphan, TypeOK, StateTypeOK
<1>5. ASSUME NEW j \in Jobs
      PROVE  StateOrder(j)'
  <2>1. StateOrder(j)
    BY DEF OrderInv
  <2>2. CASE Passed(j)' => Passed(j)
    BY <1>1, <1>2, <1>3, <2>1, <2>2, StateOrderKept
  <2>3. CASE state[j] = "UNDEF" /\ ParentDeps[j] = <<>>
    <3>1. AllMet(j)'
      BY <2>3 DEF AllMet, MetUpTo
    <3>2. QED
      BY <1>1, <1>3, <2>1, <2>3, <3>1 DEF StateOrder, SUCCESS_STATES
  <2>4. QED
    BY <1>4, <2>2, <2>3
<1> HIDE DEF S, fired
<1>6. ASSUME NEW j \in Jobs, NEW g \in Greenlets
      PROVE  PlaceOrder(j, g)'
  <2>1. Placed(SpawnedPc(S), SpawnedAt(S), j, g)
    <3>1. GreenletTypeOK /\ \A k \in S : FreeGreenlets(k) # {}
      BY <1>1 DEF TypeOK
    <3>2. QED
      BY <3>1, SpawnedPlaceAt
  <2>2. PlaceOrder(j, g)
    BY DEF OrderInv
  <2>3. QED
    BY <1>1, <1>2, <2>1, <2>2, WokenOrder
<1>7. QED
  BY <1>5, <1>6 DEF OrderInv

LEMMA OrderReschedule ==
  ASSUME TopologyAssumption, TypeOK, StageInv, AloneInv, OrderInv,
         NEW j \in Jobs, Reschedule(j)
  PROVE  OrderInv'
<1>1. /\ "reschedule" \in Requests /\ state[j] = "FAILED"
      /\ state' = [state EXCEPT ![j] = "RESET"] /\ events' = [events EXCEPT ![j] = {}]
      /\ pc' = SpawnedPc({j}) /\ at' = SpawnedAt({j})
      /\ \A k \in {j} : FreeGreenlets(k) # {}
  BY DEF Reschedule
<1>2. ~Passed(j) /\ \A g \in Greenlets : pc[j][g] = "none"
  BY <1>1 DEF OrderInv, StateOrder, SUCCESS_STATES, AloneInv, AloneOf, StageInv, StageOf, Live
<1>3. \A t : EventsLastIn(t)
  BY <1>1, <1>2 DEF EventsLastIn, JobsOf, Passed, Lasting, TypeOK, StateTypeOK
<1>4. \A k \in Jobs : Passed(k)' <=> Passed(k)
  BY <1>1, <1>2 DEF Passed, TypeOK, StateTypeOK
<1>5. ASSUME NEW k \in Jobs, NEW g \in Greenlets
      PROVE  Placed(pc', at', k, g)
  <2> DEFINE S == {j}
  <2>1. GreenletTypeOK /\ pc' = SpawnedPc(S) /\ at' = SpawnedAt(S) /\ \A i \in S : FreeGreenlets(i) # {}
    BY <1>1 DEF TypeOK
  <2> HIDE DEF S
  <2>2. Placed(SpawnedPc(S), SpawnedAt(S), k, g)
    BY <2>1, SpawnedPlaceAt
  <2>3. QED
    BY <2>1, <2>2
<1>6. ASSUME NEW k \in Jobs, NEW g \in Greenlets
      PROVE  PlaceOrder(k, g)'
  <2>1. CASE pc'[k][g] = pc[k][g] /\ at'[k][g] = at[k][g]
    BY <1>3, <2>1, MetKept DEF OrderInv, PlaceOrder, AllMet
  <2>2. CASE pc'[k][g] = "ready" /\ at'[k][g] = 1
    BY <2>2 DEF PlaceOrder, MetUpTo
  <2>3. CASE pc'[k][g] = "none"
    BY <2>3 DEF PlaceOrder
  <2>4. QED
    BY <1>5, <2>1, <2>2, <2>3 DEF Placed
<1>7. ASSUME NEW k \in Jobs
      PROVE  StateOrder(k)'
  <2>1. StateOrder(k) /\ \A g \in Greenlets : Underway(k, g)' => Underway(k, g)
    BY <1>5 DEF OrderInv, Placed, Underway
  <2>2. CASE k # j
    <3>1. state'[k] = state[k]
      BY <1>1, <2>2 DEF TypeOK, StateTypeOK
    <3>2. QED
      BY <1>3, <1>4, <2>1, <3>1, StateOrderKept
  <2>3. CASE k = j
    <3>1. state'[j] = "RESET"
      BY <1>1 DEF TypeOK, StateTypeOK
    <3>2. QED
      BY <1>2, <1>4, <2>1, <2>3, <3>1 DEF StateOrder, SUCCESS_STATES
  <2>4. QED
    BY <2>2, <2>3
<1>8. QED
  BY <1>6, <1>7 DEF OrderInv

LEMMA OrderOverride ==
  ASSUME TopologyAssumption, Settled, TypeOK, StageInv, OrderInv,
         NEW j \in Jobs, ManualOverride(j)
  PROVE  OrderInv'
<1> DEFINE fired == {<<j, "SUCCESSFULL">>}
<1>1. /\ "override" \in Requests /\ state[j] \in ERROR_STATES
      /\ state' = [state EXCEPT ![j] = "SUCCESSFULL"]
      /\ events' = EventsWith(events, fired)
      /\ pc' = Woken(pc, fired) /\ at' = WokenAt(at, fired)
      /\ Yielded
  BY DEF ManualOverride
<1> HIDE DEF fired
<1>2. \A t : EventsLastIn(t)
  BY <1>1 DEF EventsLastIn, JobsOf, EventsWith, TypeOK, StateTypeOK
<1>3. WithResources = {} /\ j \notin Undefined
  BY <1>1 DEF Settled, Owned, StageInv, StageOf, ERROR_STATES
<1>4. \A k \in Jobs, g \in Greenlets : ~Underway(k, g)'
  <2>1. \A k \in Jobs, g \in Greenlets : ~Underway(k, g)
    BY <1>1, <1>3 DEF Underway, Yielded, StageInv, StageOf
  <2>2. QED
    BY <1>1, <2>1 DEF Underway, Woken, TypeOK, GreenletTypeOK
<1>5. \A k \in Jobs : k # j => (Passed(k)' => Passed(k)) /\ state'[k] = state[k]
  BY <1>1 DEF fired, Passed, EventsWith, TypeOK, StateTypeOK
<1>6. state'[j] = "SUCCESSFULL"
  BY <1>1 DEF TypeOK, StateTypeOK
<1>7. ASSUME NEW k \in Jobs
      PROVE  StateOrder(k)'
  <2>1. StateOrder(k)
    BY DEF OrderInv
  <2>2. CASE k # j
    BY <1>2, <1>4, <1>5, <2>1, <2>2, StateOrderKept
  <2>3. CASE k = j
    BY <1>3, <1>4, <1>6, <2>3 DEF StateOrder, SUCCESS_STATES
  <2>4. QED
    BY <2>2, <2>3
<1>8. ASSUME NEW k \in Jobs, NEW g \in Greenlets
      PROVE  PlaceOrder(k, g)'
  <2>1. PlaceOrder(k, g)
    BY DEF OrderInv
  <2>2. Placed(pc, at, k, g)
    BY DEF Placed
  <2>3. QED
    BY <1>1, <1>2, <2>1, <2>2, WokenOrder
<1>9. QED
  BY <1>7, <1>8 DEF OrderInv

LEMMA OrderStep ==
  ASSUME TopologyAssumption, Settled, TypeOK, StageInv, AloneInv, Owned => IterInv, OrderInv,
         [Next]_vars
  PROVE  OrderInv'
<1>1. Root \in Trees
  BY DEF TopologyAssumption
<1>2. UNCHANGED <<state, events, pc, at>> => OrderInv'
  BY DEF OrderInv, StateOrder, PlaceOrder, Underway, MetUpTo, AllMet, Passed
<1>3. CASE RunTree
  BY <1>2, <1>3, OrderRunTree DEF RunTree
<1>4. CASE RunReturns
  BY <1>2, <1>4 DEF RunReturns
<1>5. CASE RunTimesOut \/ Abort
  BY <1>1, <1>5, OrderCancel DEF RunTimesOut, Abort
<1>6. CASE RunningStep
  <2>1. ASSUME NEW t \in Trees, IsDoneEvent(t)
        PROVE  OrderInv'
    BY <1>2, <2>1, OrderCancel DEF IsDoneEvent
  <2>2. ASSUME NEW j \in Jobs, NEW g \in Greenlets, InterruptStart(j, g)
        PROVE  OrderInv'
    <3>1. CancelTree(Root, {}) /\ UNCHANGED <<events, at>>
      BY <2>2, Interrupted
    <3>2. \A k \in Jobs, h \in Greenlets :
            \/ pc'[k][h] = pc[k][h]
            \/ ParentsMet(k, h) /\ state[k] \notin DONE_STATES /\ pc'[k][h] = "checked"
      BY <2>2, Interrupted
    <3>3. QED
      BY <1>1, <3>1, <3>2, OrderCancel
  <2>3. QED
    BY <1>6, <2>1, <2>2, OrderGreenletStep, OrderReschedule, OrderOverride DEF RunningStep
<1>7. CASE UNCHANGED vars
  BY <1>2, <1>7 DEF vars
<1>8. QED
  BY <1>3, <1>4, <1>5, <1>6, <1>7 DEF Next, Terminated

LEMMA OrderInvariant == Settled /\ Spec => []OrderInv
<1>1. Init => OrderInv
  BY DEF Init, OrderInv, StateOrder, PlaceOrder, Underway, MetUpTo, Passed
<1>2. /\ Settled /\ TypeOK /\ OneGreenletInv /\ StageInv /\ OnceInv /\ (Owned => IterInv)
      /\ OrderInv /\ [Next]_vars
      => OrderInv'
  BY TopologyAssumption, AloneFollows, OrderStep
<1>3. Settled => Settled'
  BY DEF Settled, FlatTree, Owned, Orphan
<1>4. ~Owned => ~Owned'
  BY DEF Owned
<1>5. Spec => [](Owned => IterInv)
  BY <1>4, IterInvariant, PTL
<1>6. QED
  BY <1>1, <1>2, <1>3, <1>5, TypeCorrect, OneInvariant, StageInvariant, OnceInvariant, PTL DEF Spec

LEMMA MetPassed ==
  ASSUME NEW j \in Jobs, AllMet(j), NEW i \in 1..Len(ParentDeps[j]),
         ParentDeps[j][i].state = "SUCCESSFULL"
  PROVE  Passed(ParentDeps[j][i].parent)
<1>1. Len(ParentDeps[j]) \in Nat
  BY TopologyAssumption DEF TopologyAssumption
<1>2. QED
  BY <1>1 DEF AllMet, MetUpTo, Lasting, Passed

LEMMA OrderFollows == StageInv /\ OrderInv => DependencyOrder
<1> SUFFICES ASSUME StageInv, OrderInv, NEW j \in Jobs,
                    state[j] = "RUNNING" \/ (state[j] = "UNDEF" /\ Passed(j)),
                    NEW i \in 1..Len(ParentDeps[j]), ParentDeps[j][i].state = "SUCCESSFULL"
             PROVE  Passed(ParentDeps[j][i].parent)
  BY DEF DependencyOrder
<1>1. AllMet(j)
  BY DEF StageInv, StageOf, OrderInv, StateOrder
<1>2. QED
  BY <1>1, MetPassed

\* In a flat tree without both resources and overrides, and in every iteration of the
\* subtrees of a tree without overrides and without undefined jobs there that depend
\* on others, whatever else is requested, a job runs only when every job it needs has
\* succeeded, and an undefined one lets its children go only then.
THEOREM DependenciesRespected == Settled /\ Spec => []DependencyOrder
<1>1. Settled => Settled'
  BY DEF Settled, FlatTree, Owned, Orphan
<1>2. QED
  BY <1>1, OrderFollows, StageInvariant, OrderInvariant, PTL

\* The jobs that have let their children go hold all that a job needs whose own
\* dependencies are met, through any chain of undefined jobs: each of its prerequisites
\* has succeeded.
LEMMA PrerequisitesPassed ==
  ASSUME StageInv, OrderInv, NEW j \in Jobs, AllMet(j), NEW p \in Prerequisites[j]
  PROVE  state[p] = "SUCCESSFULL"
<1> DEFINE S == {k \in Jobs : Passed(k)}
<1>1. ASSUME NEW k \in {j} \cup (S \cap Undefined), NEW q \in Direct(k)
      PROVE  q \in S
  <2>1. k \in Jobs /\ AllMet(k)
    BY DEF OrderInv, StateOrder
  <2>2. PICK i \in 1..Len(ParentDeps[k]) :
          ParentDeps[k][i].state = "SUCCESSFULL" /\ q = ParentDeps[k][i].parent
    BY DEF Direct
  <2>3. q \in Jobs
    BY <2>1, <2>2, TopologyAssumption, DependencyType
  <2>4. QED
    BY <2>1, <2>2, <2>3, MetPassed
<1>2. Covers(S, j)
  BY <1>1 DEF Covers
<1>3. p \in Jobs \ Undefined /\ \A T \in SUBSET Jobs : Covers(T, j) => p \in T
  BY DEF Prerequisites
<1>4. Passed(p)
  BY <1>2, <1>3
<1>5. QED
  BY <1>3, <1>4 DEF StageInv, StageOf, OrderInv, StateOrder, SUCCESS_STATES

\* A script runs only while every script it needs, undefined jobs skipped over, has
\* succeeded: in the same trees, and within an iteration in that same iteration.
THEOREM ScriptsRunInOrder == Settled /\ Spec => []RunsInOrder
<1>1. StageInv /\ OrderInv => RunsInOrder
  BY PrerequisitesPassed DEF RunsInOrder, OrderInv, StateOrder
<1>2. Settled => Settled'
  BY DEF Settled, FlatTree, Owned, Orphan
<1>3. QED
  BY <1>1, <1>2, StageInvariant, OrderInvariant, PTL
=============================================================================
