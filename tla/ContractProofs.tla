---------------------------- MODULE ContractProofs ----------------------------
(***************************************************************************)
(* A tree without subtrees and resources implements TreeContract, for any  *)
(* jobs and dependencies, and its run() never returns early, a signal that *)
(* falls into the start of one job aside.                                  *)
(***************************************************************************)
EXTENDS ExecTreeRefinement, ExecTreeProofs

\* Nothing takes back what a job has done, or makes run() return before is_done()
\* says so: no iteration, no reschedule, no timeout, and no job that a cancel finds
\* between IDLE and RUNNING.
Unforced ==
  /\ Trees = {Root}
  /\ WithResources = {}
  /\ {"reschedule", "timeout"} \cap Requests = {}

\* What the tree's marks say of each job.
JobContract(j) ==
  /\ "override" \notin Requests /\ "FAILED" \in events[j] => state[j] = "FAILED"
  /\ state[j] \notin {"RESET", "BLOCKED"}
  /\ cancelled[Root] => state[j] \in DONE_STATES \cup {"RUNNING"}
  /\ main = "new" => state[j] \in {"IDLE", "UNDEF", "CANCELLED"} /\ ~Starting(j)
  /\ \A g \in Greenlets : pc[j][g] \in {"ready", "waiting"} => state[j] # "RUNNING"
  /\ Starting(j) => cancelled[Root] /\ state[j] = "CANCELLED"

\* A job that run() should wait for and that is not done or, interrupted in its start,
\* will not stay so.
Loose(j) == j \in MustComplete /\ (Starting(j) \/ state[j] \notin DONE_STATES)

\* There is one such job at most, and none without a signal.
OneLoose == \A j, k \in Jobs : Loose(j) /\ Loose(k) => j = k /\ "signal" \in Requests

\* The invariant: what is loose when done_event is set is what an interrupted start
\* has left behind, and nothing becomes loose after that.
ContractInv ==
  /\ \A j \in Jobs : JobContract(j)
  /\ done[Root] => cancelled[Root] /\ OneLoose
  /\ main = "new" /\ cancelled[Root] => done[Root]
  /\ LeavesAtMostOne

LEMMA UnforcedFlat ==
  ASSUME TopologyAssumption, Unforced
  PROVE  FlatTree /\ Settled
<1>1. FlatTree
  BY DEF TopologyAssumption, Unforced, FlatTree
<1>2. QED
  BY <1>1 DEF Unforced, Settled

\* What holds in every state of an unforced tree.
TreeInv == TypeOK /\ OneGreenletInv /\ StageInv /\ OnceInv /\ OrderInv /\ ContractInv

LEMMA NoneAcquires ==
  ASSUME Unforced, TreeInv, NEW j \in Jobs, NEW g \in Greenlets
  PROVE  pc[j][g] # "acquiring"
BY DEF Unforced, TreeInv, StageInv, StageOf

\* A job passes the check of its state only if it is pending, and then the tree is not
\* cancelled.
LEMMA CheckedPending ==
  ASSUME Unforced, TreeInv, NEW j \in Jobs, NEW g \in Greenlets, PassesCheck(j, g)
  PROVE  /\ ParentsMet(j, g)
         /\ state[j] \notin DONE_STATES \cup {"RUNNING"}
         /\ ~cancelled[Root] /\ ~done[Root]
<1>1. ParentsMet(j, g) /\ state[j] \notin DONE_STATES
  BY DEF PassesCheck
<1>2. JobContract(j) /\ (done[Root] => cancelled[Root])
  BY DEF TreeInv, ContractInv
<1>3. state[j] # "RUNNING"
  BY <1>1, <1>2 DEF JobContract, ParentsMet
<1>4. ~cancelled[Root]
  BY <1>1, <1>2, <1>3 DEF JobContract
<1>5. QED
  BY <1>1, <1>2, <1>3, <1>4

\* What is admitted has just passed it, or was interrupted after it.
LEMMA AdmittedPending ==
  ASSUME Unforced, TreeInv, NEW j \in Jobs, NEW g \in Greenlets, Admitted(j, g)
  PROVE  PassesCheck(j, g) \/ pc[j][g] = "checked"
BY NoneAcquires DEF Admitted

\* A step that makes no job loose keeps OneLoose.
LEMMA LooseKept ==
  ASSUME ContractInv, done'[Root] => done[Root], cancelled'[Root] = cancelled[Root],
         done[Root] => \A k \in Jobs : Loose(k)' => Loose(k)
  PROVE  done'[Root] => cancelled'[Root] /\ OneLoose'
BY DEF ContractInv, OneLoose

-----------------------------------------------------------------------------
(* The invariant is kept.                                                  *)

\* Once done_event is set, only a job that was interrupted in its start turns RUNNING.
MayTurn(j, g, s) == s = "RUNNING" /\ done[Root] => pc[j][g] = "checked"

LEMMA JobStepContract ==
  ASSUME Unforced, TreeInv, main = "running",
         NEW j \in Jobs, NEW g \in Greenlets, pc[j][g] \notin {"none", "waiting"},
         NEW s \in DONE_STATES \cup {"RUNNING"}, NEW S, NEW p \in {"none", "script"},
         JobStep(j, g, s, EventsOf(j, S), p),
         "FAILED" \in S => s = "FAILED",
         MayTurn(j, g, s),
         UNCHANGED <<linked, cancelled, done, run, main>>
  PROVE  ContractInv'
<1>1. FlatTree
  BY TopologyAssumption, UnforcedFlat
<1>2. /\ state'[j] = s
      /\ \A k \in Jobs : k # j => state'[k] = state[k]
      /\ pc'[j][g] = p
      /\ \A k \in Jobs, h \in Greenlets : ~(k = j /\ h = g) => OnlyWoken(k, h)
  <2>1. p \in Places
    BY DEF Places
  <2>2. QED
    BY <2>1, JobStepEffect DEF TreeInv
<1>3. \A k \in Jobs : "FAILED" \in events'[k] => "FAILED" \in events[k] \/ (k = j /\ "FAILED" \in S)
  BY DEF JobStep, EventsWith, EventsOf, TreeInv, TypeOK, StateTypeOK
<1>4. /\ state[j] # "FAILED"
      /\ \A h \in Greenlets : h # g => pc[j][h] = "none"
  BY <1>1 DEF TreeInv, OneGreenletInv, OneGreenletOf, Once, Live
<1>5. ASSUME NEW k \in Jobs
      PROVE  JobContract(k)'
  <2>1. JobContract(k)
    BY DEF TreeInv, ContractInv
  <2>2. CASE k = j
    <3>1. "override" \notin Requests /\ "FAILED" \in events'[j] => s = "FAILED"
      BY <1>3, <1>4, <2>1, <2>2 DEF JobContract
    <3>2. \A h \in Greenlets : pc'[j][h] \notin {"ready", "waiting", "checked"}
      BY <1>2, <1>4 DEF OnlyWoken
    <3>3. QED
      BY <1>2, <2>2, <3>1, <3>2 DEF JobContract, Starting, DONE_STATES
  <2>3. CASE k # j
    <3>1. state'[k] = state[k] /\ ("FAILED" \in events'[k] => "FAILED" \in events[k])
      BY <1>2, <1>3, <2>3
    <3>2. \A h \in Greenlets : pc'[k][h] \in {"ready", "waiting"} => state[k] # "RUNNING"
      BY <1>2, <2>1, <2>3 DEF OnlyWoken, JobContract
    <3>3. \A h \in Greenlets : pc'[k][h] = "checked" => pc[k][h] = "checked"
      BY <1>2, <2>3 DEF OnlyWoken
    <3>4. Starting(k)' => Starting(k)
      BY <3>3 DEF Starting
    <3>5. QED
      BY <2>1, <3>1, <3>2, <3>4 DEF JobContract
  <2>4. QED
    BY <2>2, <2>3
<1>6. ASSUME NEW k \in Jobs, done[Root], Loose(k)'
      PROVE  Loose(k)
  <2>1. \A h \in Greenlets : pc'[k][h] = "checked" => k # j /\ pc[k][h] = "checked"
    BY <1>2, <1>4 DEF OnlyWoken
  <2>2. Starting(k)' => k # j /\ Starting(k)
    BY <2>1 DEF Starting
  <2>3. k = j /\ state'[k] \notin DONE_STATES => Starting(k)
    BY <1>2, <1>6 DEF Starting, MayTurn
  <2>4. QED
    BY <1>2, <1>6, <2>2, <2>3 DEF Loose
<1>7. ~Exited /\ ~Exited'
  BY DEF Exited, Outcomes
<1>8. QED
  BY <1>5, <1>6, <1>7, LooseKept DEF TreeInv, ContractInv, LeavesAtMostOne

LEMMA ContractGreenletStep ==
  ASSUME TopologyAssumption, Unforced, TreeInv, main = "running",
         NEW j \in Jobs, NEW g \in Greenlets, GreenletStep(j, g)
  PROVE  ContractInv'
<1>1. /\ FlatTree
      /\ EventsOf(j, {}) = {}
      /\ \A s : EventsOf(j, {s}) = {<<j, s>>}
      /\ ParentsMet(j, g) => pc[j][g] \notin {"none", "waiting"}
      /\ \A s : s # "RUNNING" => MayTurn(j, g, s)
  <2>1. FlatTree
    BY UnforcedFlat
  <2>2. EventsOf(j, {}) = {} /\ \A s : EventsOf(j, {s}) = {<<j, s>>}
    BY DEF EventsOf
  <2>3. ParentsMet(j, g) => pc[j][g] \notin {"none", "waiting"}
    BY DEF ParentsMet
  <2>4. \A s : s # "RUNNING" => MayTurn(j, g, s)
    BY DEF MayTurn
  <2>5. QED
    BY <2>1, <2>2, <2>3, <2>4
<1>2. CASE WaitForParent(j, g)
  <2>1. /\ pc[j][g] = "ready" /\ pc' = [pc EXCEPT ![j][g] = "waiting"]
        /\ UNCHANGED <<state, events, cancelled, done, main>>
    BY <1>2 DEF WaitForParent
  <2>2. ASSUME NEW k \in Jobs
        PROVE  JobContract(k)'
    <3>1. JobContract(k)
      BY DEF TreeInv, ContractInv
    <3>2. \A h \in Greenlets : pc'[k][h] \in {"ready", "waiting"} => pc[k][h] \in {"ready", "waiting"}
      BY <2>1 DEF TreeInv, TypeOK, GreenletTypeOK
    <3>3. Starting(k)' => Starting(k)
      BY <2>1 DEF Starting, TreeInv, TypeOK, GreenletTypeOK
    <3>4. QED
      BY <2>1, <3>1, <3>2, <3>3 DEF JobContract
  <2>3. \A k \in Jobs : Loose(k)' => Loose(k)
    BY <2>1 DEF Loose, Starting, TreeInv, TypeOK, GreenletTypeOK
  <2>4. ~Exited /\ ~Exited'
    BY <2>1 DEF Exited, Outcomes
  <2>5. QED
    BY <2>1, <2>2, <2>3, <2>4, LooseKept DEF TreeInv, ContractInv, LeavesAtMostOne
<1>3. CASE SkipUndefined(j, g)
  <2>1. JobStep(j, g, "UNDEF", EventsOf(j, {"SUCCESSFULL"}), "none") /\ ParentsMet(j, g)
    BY <1>1, <1>3 DEF SkipUndefined
  <2>2. /\ "UNDEF" \in DONE_STATES \cup {"RUNNING"} /\ "UNDEF" # "RUNNING"
        /\ "FAILED" \notin {"SUCCESSFULL"}
    BY DEF DONE_STATES
  <2>3. UNCHANGED <<linked, cancelled, done, run, main>>
    BY <1>3 DEF SkipUndefined
  <2>4. QED
    BY <1>1, <2>1, <2>2, <2>3, JobStepContract
<1>4. CASE AbandonStart(j, g)
  <2>1. /\ JobStep(j, g, state[j], EventsOf(j, {}), "none") /\ ParentsMet(j, g)
        /\ state[j] \in DONE_STATES /\ state[j] # "RUNNING"
    BY <1>1, <1>4 DEF AbandonStart, DONE_STATES
  <2>2. QED
    BY <1>1, <1>4, <2>1, JobStepContract DEF AbandonStart
<1>5. ~BlockOnResources(j, g) /\ ~GiveUpResources(j, g)
  BY NoneAcquires DEF Unforced, BlockOnResources, GiveUpResources
<1>6. ASSUME Admitted(j, g)
      PROVE  /\ pc[j][g] \notin {"none", "waiting"}
             /\ MayTurn(j, g, "RUNNING")
  <2>1. CASE PassesCheck(j, g)
    BY <1>1, <2>1, CheckedPending DEF MayTurn
  <2>2. QED
    BY <1>6, <2>1, AdmittedPending DEF MayTurn
<1>7. CASE StartScript(j, g)
  <2>1. JobStep(j, g, "RUNNING", EventsOf(j, {}), "script") /\ Admitted(j, g)
    BY <1>1, <1>7 DEF StartScript
  <2>2. "RUNNING" \in DONE_STATES \cup {"RUNNING"} /\ "FAILED" \notin {}
    OBVIOUS
  <2>3. QED
    BY <1>6, <1>7, <2>1, <2>2, JobStepContract DEF StartScript
<1>8. CASE FailToStart(j, g)
  <2>1. JobStep(j, g, "RUNNING", EventsOf(j, {}), "none") /\ Admitted(j, g)
    BY <1>1, <1>8 DEF FailToStart
  <2>2. "RUNNING" \in DONE_STATES \cup {"RUNNING"} /\ "FAILED" \notin {}
    OBVIOUS
  <2>3. QED
    BY <1>6, <1>8, <2>1, <2>2, JobStepContract DEF FailToStart
<1>9. CASE ScriptExits(j, g)
  <2>1. PICK s \in {"SUCCESSFULL", "FAILED"} : JobStep(j, g, s, FiredBy(j, s), "none")
    BY <1>9 DEF ScriptExits
  <2>2. pc[j][g] = "script" /\ state[j] = "RUNNING"
    BY <1>1, <1>9 DEF ScriptExits, TreeInv, OnceInv, OnceOf, Once, Executes
  <2>3. JobStep(j, g, s, EventsOf(j, {s}), "none")
    BY <1>1, <2>1, <2>2 DEF FiredBy
  <2>4. s \in DONE_STATES \cup {"RUNNING"} /\ s # "RUNNING" /\ ("FAILED" \in {s} => s = "FAILED")
    BY DEF DONE_STATES
  <2>5. UNCHANGED <<linked, cancelled, done, run, main>>
    BY <1>9 DEF ScriptExits
  <2>6. MayTurn(j, g, s)
    BY <1>1, <2>4
  <2>7. QED
    BY <2>2, <2>3, <2>4, <2>5, <2>6, JobStepContract
<1>10. ~EnterSubtree(j, g) /\ ~LeaveSubtree(j, g) /\ ~LastIteration(j, g) /\ ~NextIteration(j, g)
  BY <1>1 DEF FlatTree, EnterSubtree, LeaveSubtree, LastIteration, NextIteration, SubtreeReturned
<1>11. QED
  BY <1>2, <1>3, <1>4, <1>5, <1>7, <1>8, <1>9, <1>10 DEF GreenletStep

LEMMA ContractStays ==
  ASSUME TreeInv, UNCHANGED <<state, events, pc, cancelled, done, main>>
  PROVE  ContractInv'
<1>1. ASSUME NEW j \in Jobs
      PROVE  JobContract(j)'
  <2>1. JobContract(j)
    BY DEF TreeInv, ContractInv
  <2>2. QED
    BY <2>1 DEF JobContract, Starting
<1>2. OneLoose' <=> OneLoose
  BY DEF OneLoose, Loose, Starting
<1>3. LeavesAtMostOne' <=> LeavesAtMostOne
  BY DEF LeavesAtMostOne, Unfinished, JobsOf, Exited
<1>4. QED
  BY <1>1, <1>2, <1>3 DEF TreeInv, ContractInv

\* A cancel() that sets done_event finds every job that must complete done.
LEMMA CancelFinds ==
  ASSUME TopologyAssumption, Unforced, TreeInv, NEW completed,
         completed = {} \/ (completed = {Root} /\ Complete(Root, state, cancelled)),
         CancelTree(Root, completed), done'[Root], ~done[Root],
         NEW j \in Jobs, j \in MustComplete
  PROVE  state'[j] \in DONE_STATES
<1>1. Root \in Trees /\ TreeOf[j] = Root
  BY DEF TopologyAssumption, Unforced
<1>2. state[j] \in DONE_STATES => state'[j] \in DONE_STATES
  BY <1>1, CancelEffect DEF TreeInv
<1>3. Complete(Root, state, cancelled) \/ Complete(Root, state', cancelled')
  BY <1>1 DEF CancelTree
<1>4. QED
  BY <1>1, <1>2, <1>3 DEF Complete, JobsOf

\* What is loose after a cancel() that sets done_event is starting.
LEMMA ContractCancel ==
  ASSUME TopologyAssumption, Unforced, TreeInv, NEW completed,
         completed = {} \/ (completed = {Root} /\ Complete(Root, state, cancelled)),
         CancelTree(Root, completed), UNCHANGED <<events, at, linked, run, main>>,
         main \in {"new", "running"},
         \A j \in Jobs, g \in Greenlets : pc'[j][g] \in {pc[j][g], "checked"},
         \A j \in Jobs : Starting(j)' =>
           \/ Starting(j)
           \/ main = "running" /\ ~cancelled[Root] /\ state[j] \notin DONE_STATES \cup {"RUNNING"},
         done'[Root] /\ ~done[Root] =>
           \A j, k \in Jobs : Starting(j)' /\ Starting(k)' => j = k /\ "signal" \in Requests
  PROVE  ContractInv'
<1>1. Root \in Trees /\ \A j \in Jobs : TreeOf[j] = Root
  BY DEF TopologyAssumption, Unforced
<1>2. /\ \A j \in Jobs :
           \/ state'[j] = state[j]
           \/ state[j] \notin DONE_STATES \cup {"RUNNING"} /\ state'[j] = "CANCELLED"
      /\ \A u \in Trees : cancelled'[u] <=> cancelled[u] \/ u \in Cancels(Root)
      /\ \A j \in Jobs : TreeOf[j] \in Cancels(Root) => state'[j] \in DONE_STATES \cup {"RUNNING"}
  BY <1>1, CancelEffect DEF TreeInv
<1>3. cancelled'[Root] /\ (~cancelled[Root] => Root \in Cancels(Root))
  BY <1>1, <1>2 DEF Cancels
<1>4. \A j \in Jobs : state'[j] \in DONE_STATES \cup {"RUNNING"}
  BY <1>1, <1>2, <1>3 DEF TreeInv, ContractInv, JobContract
<1>5. done'[Root] <=> \/ done[Root]
                      \/ Root \in completed
                      \/ Root \in Cancels(Root) /\ Complete(Root, state', cancelled')
  BY <1>1 DEF CancelTree
<1>6. ASSUME NEW j \in Jobs, done'[Root], ~done[Root], j \in MustComplete
      PROVE  state'[j] \in DONE_STATES
  BY <1>6, CancelFinds
<1>7. ASSUME NEW j \in Jobs
      PROVE  JobContract(j)'
  <2>1. JobContract(j) /\ (state'[j] = state[j] \/ (state[j] # "FAILED" /\ state'[j] = "CANCELLED"))
    BY <1>2 DEF TreeInv, ContractInv, DONE_STATES
  <2>2. state'[j] \notin {"RESET", "BLOCKED"} /\ (main = "new" => state'[j] \in {"IDLE", "UNDEF", "CANCELLED"})
    BY <2>1 DEF JobContract
  <2>3. Starting(j)' => cancelled'[Root] /\ state'[j] = "CANCELLED" /\ main # "new"
    <3>1. CASE Starting(j)
      BY <1>2, <1>3, <2>1, <3>1 DEF JobContract, DONE_STATES
    <3>2. CASE ~cancelled[Root] /\ state[j] \notin DONE_STATES \cup {"RUNNING"} /\ main = "running"
      BY <1>2, <1>3, <1>4, <3>2
    <3>3. QED
      BY <3>1, <3>2
  <2>4. \A g \in Greenlets : pc'[j][g] \in {"ready", "waiting"} => pc[j][g] \in {"ready", "waiting"}
    OBVIOUS
  <2>5. QED
    BY <1>4, <2>1, <2>2, <2>3, <2>4 DEF JobContract
<1>8. ASSUME done'[Root]
      PROVE  OneLoose'
  <2>1. CASE done[Root]
    <3>1. cancelled[Root] /\ OneLoose
      BY <2>1 DEF TreeInv, ContractInv
    <3>2. \A j \in Jobs : Loose(j)' => Loose(j)
      BY <1>2, <3>1 DEF Loose
    <3>3. QED
      BY <3>1, <3>2 DEF OneLoose
  <2>2. CASE ~done[Root]
    <3>1. \A j \in Jobs : Loose(j)' => Starting(j)'
      BY <1>6, <1>8, <2>2 DEF Loose
    <3>2. QED
      BY <1>8, <2>2, <3>1 DEF OneLoose
  <2>3. QED
    BY <2>1, <2>2
<1>9. ASSUME main' = "new"
      PROVE  done'[Root]
  <2>1. CASE cancelled[Root]
    BY <1>5, <1>9, <2>1 DEF TreeInv, ContractInv
  <2>2. CASE ~cancelled[Root]
    <3>1. \A j \in Jobs : state'[j] \in {"UNDEF", "CANCELLED"}
      BY <1>4, <1>7, <1>9 DEF JobContract, DONE_STATES
    <3>2. Complete(Root, state', cancelled')
      BY <1>3, <3>1 DEF Complete, JobsOf, DONE_STATES
    <3>3. QED
      BY <1>3, <1>5, <2>2, <3>2
  <2>3. QED
    BY <2>1, <2>2
<1>10. ~Exited'
  BY DEF Exited, Outcomes
<1>11. QED
  BY <1>3, <1>7, <1>8, <1>9, <1>10 DEF ContractInv, LeavesAtMostOne

\* A run that ends leaves what is loose behind, and nothing else.
LEMMA ContractExit ==
  ASSUME TopologyAssumption, Unforced, TreeInv,
         UNCHANGED <<state, events, pc, cancelled, done>>, main' \in Outcomes,
         \/ main = "new" /\ cancelled[Root]
         \/ done[Root]
  PROVE  ContractInv'
<1>1. cancelled[Root] /\ done[Root] /\ OneLoose
  BY DEF TreeInv, ContractInv
<1>2. ASSUME NEW k \in Jobs
      PROVE  JobContract(k)'
  <2>1. JobContract(k)
    BY DEF TreeInv, ContractInv
  <2>2. QED
    BY <2>1 DEF JobContract, Starting, Outcomes
<1>3. OneLoose'
  BY <1>1 DEF OneLoose, Loose, Starting
<1>4. LeavesAtMostOne'
  <2>1. \A j \in Unfinished' : j \in Jobs /\ Loose(j)'
    BY DEF Unfinished, JobsOf, Loose
  <2>2. QED
    BY <1>3, <2>1 DEF OneLoose, LeavesAtMostOne
<1>5. QED
  BY <1>1, <1>2, <1>3, <1>4 DEF ContractInv, Outcomes

LEMMA ContractMain ==
  ASSUME TopologyAssumption, Unforced, TreeInv, RunTree \/ RunReturns \/ Abort
  PROVE  ContractInv'
<1>1. CASE RunTree /\ ~cancelled[Root]
  <2>1. /\ StartJobs(Root, state, events, SpawnedPc(Spawning(Root, state)))
        /\ main = "new" /\ main' = "running" /\ UNCHANGED <<cancelled, done>>
    BY <1>1 DEF RunTree
  <2>2. /\ state' = state
        /\ \A k \in Jobs : "FAILED" \in events'[k] => "FAILED" \in events[k]
    BY <2>1 DEF StartJobs, EventsWith
  <2>3. ASSUME NEW k \in Jobs
        PROVE  JobContract(k)' /\ ~Starting(k)'
    <3>1. JobContract(k)
      BY DEF TreeInv, ContractInv
    <3>2. \A g \in Greenlets : OnlyRoused(k, g)
      BY <2>1, StartJobsEffect DEF TreeInv
    <3>3. ~Starting(k)'
      BY <2>1, <3>1, <3>2 DEF JobContract, Starting, OnlyRoused
    <3>4. QED
      BY <2>1, <2>2, <3>1, <3>3 DEF JobContract
  <2>4. ~done[Root] /\ ~done'[Root]
    BY <1>1, <2>1 DEF TreeInv, ContractInv
  <2>5. ~Exited'
    BY <2>1 DEF Exited, Outcomes
  <2>6. QED
    BY <2>1, <2>3, <2>4, <2>5 DEF ContractInv, LeavesAtMostOne
<1>2. CASE RunTree /\ cancelled[Root]
  <2>1. main' \in Outcomes
    BY <1>2 DEF RunTree, ExitWith, Outcomes
  <2>2. QED
    BY <1>2, <2>1, ContractExit DEF RunTree
<1>3. CASE RunReturns
  <2>1. main' \in Outcomes
    BY <1>3 DEF RunReturns, ExitWith, Outcomes
  <2>2. QED
    BY <1>3, <2>1, ContractExit DEF RunReturns
<1>4. CASE Abort
  <2>1. /\ CancelTree(Root, {}) /\ UNCHANGED <<events, pc, at, linked, run, main>>
        /\ main \in {"new", "running"} /\ ~cancelled[Root]
    BY <1>4 DEF Abort
  <2>2. \A j \in Jobs : Starting(j)' <=> Starting(j)
    BY <2>1 DEF Starting
  <2>3. \A j \in Jobs : ~Starting(j)
    BY <2>1 DEF TreeInv, ContractInv, JobContract
  <2>4. QED
    BY <2>1, <2>2, <2>3, ContractCancel
<1>5. QED
  BY <1>1, <1>2, <1>3, <1>4

\* A signal that falls into a start makes one job loose: its own.
LEMMA ContractInterrupt ==
  ASSUME TopologyAssumption, Unforced, TreeInv, main = "running",
         NEW j \in Jobs, NEW g \in Greenlets, InterruptStart(j, g)
  PROVE  ContractInv'
<1>1. PassesCheck(j, g) /\ ~cancelled[Root] /\ Yielded
  BY DEF InterruptStart
<1>2. /\ CancelTree(Root, {}) /\ "signal" \in Requests
      /\ UNCHANGED <<events, at, linked, run, main>>
  BY Interrupted DEF TreeInv
<1>3. /\ pc'[j][g] = "checked"
      /\ \A k \in Jobs, h \in Greenlets : ~(k = j /\ h = g) => pc'[k][h] = pc[k][h]
  BY Interrupted DEF TreeInv
<1>4. \A k \in Jobs : ~Starting(k) /\ (Starting(k)' => k = j)
  <2>1. \A k \in Jobs, h \in Greenlets : pc[k][h] # "checked"
    BY <1>1 DEF Yielded
  <2>2. ASSUME NEW k \in Jobs, NEW h \in Greenlets, k # j
        PROVE  pc'[k][h] # "checked"
    <3>1. pc'[k][h] = pc[k][h]
      BY <1>3, <2>2
    <3>2. QED
      BY <2>1, <3>1
  <2>3. QED
    BY <2>1, <2>2 DEF Starting
<1>5. state[j] \notin DONE_STATES \cup {"RUNNING"}
  BY <1>1, CheckedPending
<1>6. \A k \in Jobs, h \in Greenlets : pc'[k][h] \in {pc[k][h], "checked"}
  BY <1>3
<1>7. QED
  BY <1>1, <1>2, <1>4, <1>5, <1>6, ContractCancel

LEMMA ContractIsDoneEvent ==
  ASSUME TopologyAssumption, Unforced, TreeInv, main = "running", NEW t \in Trees, IsDoneEvent(t)
  PROVE  ContractInv'
<1>1. t = Root
  BY DEF Unforced
<1>2. CASE Complete(Root, state, cancelled)
  <2>1. CancelTree(Root, {Root}) /\ UNCHANGED <<events, pc, at, linked, run, main>> /\ Yielded
    BY <1>1, <1>2 DEF IsDoneEvent
  <2>2. \A j \in Jobs : ~Starting(j) /\ ~Starting(j)'
    BY <2>1 DEF Starting, Yielded
  <2>3. QED
    BY <1>2, <2>1, <2>2, ContractCancel
<1>3. CASE ~Complete(Root, state, cancelled)
  <2>1. UNCHANGED <<state, events, pc, cancelled, done, main>>
    BY <1>1, <1>3 DEF IsDoneEvent
  <2>2. QED
    BY <2>1, ContractStays
<1>4. QED
  BY <1>2, <1>3

\* An override ends what the job was cancelled or failed from.
LEMMA ContractOverride ==
  ASSUME TopologyAssumption, Unforced, TreeInv, main = "running", NEW j \in Jobs, ManualOverride(j)
  PROVE  ContractInv'
<1>1. /\ "override" \in Requests
      /\ state' = [state EXCEPT ![j] = "SUCCESSFULL"]
      /\ UNCHANGED <<cancelled, done, main>>
      /\ Yielded
  BY DEF ManualOverride
<1>2. ASSUME NEW k \in Jobs, NEW g \in Greenlets
      PROVE  OnlyWoken(k, g)
  <2>1. PICK fired : pc' = Woken(pc, fired)
    BY DEF ManualOverride
  <2>2. pc \in [Jobs -> [Greenlets -> Places]]
    BY DEF TreeInv, TypeOK, GreenletTypeOK
  <2>3. \/ Woken(pc, fired)[k][g] = pc[k][g]
        \/ pc[k][g] = "waiting" /\ Woken(pc, fired)[k][g] = "ready"
    BY <2>2 DEF Woken, Wakes
  <2>4. QED
    BY <2>1, <2>3 DEF OnlyWoken
<1>3. \A k \in Jobs : ~Starting(k)'
  <2>1. \A k \in Jobs, g \in Greenlets : pc[k][g] # "checked"
    BY <1>1 DEF Yielded
  <2>2. ASSUME NEW k \in Jobs, NEW g \in Greenlets
        PROVE  pc'[k][g] # "checked"
    <3>1. pc'[k][g] \in {pc[k][g], "ready"}
      BY <1>2 DEF OnlyWoken
    <3>2. pc[k][g] # "checked"
      BY <2>1
    <3>3. QED
      BY <3>1, <3>2
  <2>3. QED
    BY <2>2 DEF Starting
<1>4. ASSUME NEW k \in Jobs
      PROVE  JobContract(k)'
  <2>1. JobContract(k) /\ state \in [Jobs -> STATES]
    BY DEF TreeInv, ContractInv, TypeOK, StateTypeOK
  <2>2. CASE k = j
    <3>1. state'[k] = "SUCCESSFULL"
      BY <1>1, <2>1, <2>2
    <3>2. QED
      BY <1>1, <1>3, <3>1 DEF JobContract, DONE_STATES
  <2>3. CASE k # j
    <3>1. state'[k] = state[k]
      BY <1>1, <2>1, <2>3
    <3>2. \A g \in Greenlets : pc'[k][g] \in {"ready", "waiting"} => state[k] # "RUNNING"
      BY <1>2, <2>1 DEF OnlyWoken, JobContract
    <3>3. QED
      BY <1>1, <1>3, <2>1, <3>1, <3>2 DEF JobContract
  <2>4. QED
    BY <2>2, <2>3
<1>5. \A k \in Jobs : Loose(k)' => Loose(k)
  <2>1. state \in [Jobs -> STATES] /\ "SUCCESSFULL" \in DONE_STATES
    BY DEF TreeInv, TypeOK, StateTypeOK, DONE_STATES
  <2>2. QED
    BY <1>1, <1>3, <2>1 DEF Loose
<1>6. ~Exited /\ ~Exited'
  BY <1>1 DEF Exited, Outcomes
<1>7. QED
  BY <1>1, <1>4, <1>5, <1>6, LooseKept DEF TreeInv, ContractInv, LeavesAtMostOne

LEMMA ContractStep ==
  ASSUME TopologyAssumption, Unforced, TreeInv, [Next]_vars
  PROVE  ContractInv'
<1>1. CASE RunTree \/ RunReturns \/ Abort
  BY <1>1, ContractMain
<1>2. ~RunTimesOut /\ \A j \in Jobs : ~Reschedule(j)
  BY DEF Unforced, RunTimesOut, Reschedule
<1>3. CASE RunningStep
  <2>1. main = "running"
    BY <1>3 DEF RunningStep
  <2>2. ASSUME NEW j \in Jobs, NEW g \in Greenlets, GreenletStep(j, g)
        PROVE  ContractInv'
    BY <2>1, <2>2, ContractGreenletStep
  <2>3. ASSUME NEW t \in Trees, IsDoneEvent(t)
        PROVE  ContractInv'
    BY <2>1, <2>3, ContractIsDoneEvent
  <2>4. ASSUME NEW j \in Jobs, ManualOverride(j)
        PROVE  ContractInv'
    BY <2>1, <2>4, ContractOverride
  <2>5. ASSUME NEW j \in Jobs, NEW g \in Greenlets, InterruptStart(j, g)
        PROVE  ContractInv'
    BY <2>1, <2>5, ContractInterrupt
  <2>6. QED
    BY <1>2, <1>3, <2>2, <2>3, <2>4, <2>5 DEF RunningStep
<1>4. CASE UNCHANGED vars
  BY <1>4, ContractStays DEF vars
<1>5. QED
  BY <1>1, <1>2, <1>3, <1>4 DEF Next, Terminated

LEMMA ContractInit ==
  ASSUME TopologyAssumption, Init
  PROVE  ContractInv
<1>1. Root \in Trees /\ ~done[Root] /\ ~cancelled[Root] /\ main = "new"
  BY DEF TopologyAssumption, Init
<1>2. ASSUME NEW j \in Jobs
      PROVE  JobContract(j)
  <2>1. /\ state[j] \in {"IDLE", "UNDEF"} /\ events[j] = {}
        /\ \A g \in Greenlets : pc[j][g] = "none"
    BY DEF Init
  <2>2. QED
    BY <1>1, <2>1 DEF JobContract, Starting
<1>3. QED
  BY <1>1, <1>2 DEF ContractInv, LeavesAtMostOne, Exited, Outcomes

LEMMA ContractInvariant == Unforced /\ Spec => []TreeInv
<1> DEFINE Known == TypeOK /\ OneGreenletInv /\ StageInv /\ OnceInv /\ OrderInv
<1>1. Init => ContractInv
  BY TopologyAssumption, ContractInit
<1>2. Unforced /\ Known /\ ContractInv /\ [Next]_vars => ContractInv'
  BY TopologyAssumption, ContractStep DEF TreeInv
<1>3. Unforced => Settled /\ Unforced'
  BY TopologyAssumption, UnforcedFlat DEF Unforced
<1>4. Known /\ ContractInv => TreeInv
  BY DEF TreeInv
<1>5. Known <=> TypeOK /\ OneGreenletInv /\ StageInv /\ OnceInv /\ OrderInv
  OBVIOUS
<1> HIDE DEF Known
<1>6. QED
  BY <1>1, <1>2, <1>3, <1>4, <1>5, TypeCorrect, OneInvariant, StageInvariant, OnceInvariant,
     OrderInvariant, PTL DEF Spec

\* run() of a tree without subtrees and resources never returns while a job it should
\* wait for is unfinished, whatever is cancelled or overridden meanwhile, but for one
\* whose start a signal fell into.  Code: abort, is_done, cancel and run of ExecTree.
THEOREM ReturnsComplete == Unforced /\ Spec => []LeavesAtMostOne
<1>1. TreeInv => LeavesAtMostOne
  BY DEF TreeInv, ContractInv
<1>2. QED
  BY <1>1, ContractInvariant, PTL

-----------------------------------------------------------------------------
(* The contract is kept.                                                   *)

\* Nobody corrects what the tree makes of its jobs.
Undisturbed == Unforced /\ "override" \notin Requests

LEMMA StatusOf ==
  ASSUME NEW s
  PROVE  /\ Status(s) = "running" <=> s = "RUNNING"
         /\ Status(s) = "succeeded" <=> s = "SUCCESSFULL"
         /\ Status(s) = "failed" <=> s = "FAILED"
         /\ Status(s) = "dropped" <=> s = "CANCELLED"
         /\ Status(s) = "pending" <=> s \notin {"RUNNING", "SUCCESSFULL", "FAILED", "CANCELLED"}
BY DEF Status

\* A step that leaves what the contract shows alone.
LEMMA ContractStutters ==
  ASSUME UNCHANGED <<cancelled, done>>, \A j \in Defined : Shown(j)' = Shown(j),
         main' = main \/ {main, main'} \subseteq {"new", "running"}
  PROVE  UNCHANGED Contract!vars
<1>1. Exited' <=> Exited
  BY DEF Exited, Outcomes
<1>2. (IF Exited THEN main ELSE "none")' = (IF Exited THEN main ELSE "none")
  BY <1>1 DEF Exited, Outcomes
<1>3. QED
  BY <1>2 DEF Contract!vars

\* Nothing is starting as long as the tree is not cancelled, nor once it has yielded.
LEMMA NoneStarting ==
  ASSUME TreeInv, ~cancelled[Root] \/ Yielded \/ main = "new", NEW j \in Jobs
  PROVE  ~Starting(j) /\ Shown(j) = Status(state[j])
<1>1. ~Starting(j)
  BY DEF TreeInv, ContractInv, JobContract, Starting, Yielded
<1>2. QED
  BY <1>1 DEF Shown

\* A script that starts has every script it needs succeeded, and every one whose
\* failure it is for failed.
LEMMA StartAllowed ==
  ASSUME TopologyAssumption, Undisturbed, TreeInv,
         NEW j \in Jobs, NEW g \in Greenlets, ParentsMet(j, g)
  PROVE  /\ \A p \in Prerequisites[j] : p \in Defined /\ state[p] = "SUCCESSFULL"
         /\ \A p \in FailedDirect(j) : p \in Defined /\ state[p] = "FAILED"
<1>1. AllMet(j)
  BY ParentsMetOrder DEF TreeInv
<1>2. ASSUME NEW p \in Prerequisites[j]
      PROVE  p \in Defined /\ state[p] = "SUCCESSFULL"
  <2>1. p \in Jobs \ Undefined
    BY <1>2 DEF Prerequisites
  <2>2. QED
    BY <1>1, <1>2, <2>1, PrerequisitesPassed DEF Defined, TreeInv
<1>3. ASSUME NEW p \in FailedDirect(j)
      PROVE  p \in Defined /\ state[p] = "FAILED"
  <2>1. PICK i \in 1..Len(ParentDeps[j]) :
          ParentDeps[j][i].state = "FAILED" /\ p = ParentDeps[j][i].parent
    BY <1>3 DEF FailedDirect
  <2>2. p \in Jobs
    BY <2>1, DependencyType
  <2>3. "FAILED" \in events[p]
    <3>1. Lasting("FAILED") /\ ParentDeps[j] \in Seq([parent : Jobs, state : DEPENDENCY_STATES])
      BY DEF Lasting, Undisturbed, Unforced, TopologyAssumption
    <3>2. PICK n : n = Len(ParentDeps[j])
      OBVIOUS
    <3>3. n \in Nat /\ i <= n /\ MetUpTo(j, n)
      BY <1>1, <2>1, <3>1, <3>2 DEF AllMet
    <3>4. QED
      BY <2>1, <3>1, <3>3 DEF MetUpTo
  <2>4. state[p] = "FAILED"
    BY <2>2, <2>3 DEF Undisturbed, TreeInv, ContractInv, JobContract
  <2>5. QED
    BY <2>2, <2>4 DEF Defined, TreeInv, StageInv, StageOf
<1>4. QED
  BY <1>2, <1>3

\* What passes the check of its state may start by the contract.
LEMMA ChecksByContract ==
  ASSUME TopologyAssumption, Undisturbed, TreeInv, main = "running",
         NEW j \in Jobs, NEW g \in Greenlets, PassesCheck(j, g)
  PROVE  j \in Defined /\ Contract!MayStart(j)
<1>1. /\ ~cancelled[Root] /\ state[j] \notin DONE_STATES \cup {"RUNNING"}
      /\ ParentsMet(j, g)
  BY CheckedPending DEF Undisturbed
<1>2. j \in Defined
  BY <1>1 DEF Defined, DONE_STATES, TreeInv, StageInv, StageOf
<1>3. \A k \in Jobs : Shown(k) = Status(state[k])
  BY <1>1, NoneStarting
<1>4. Shown(j) = "pending"
  BY <1>1, <1>3, StatusOf DEF DONE_STATES
<1>5. /\ \A p \in Prerequisites[j] : p \in Defined /\ Shown(p) = "succeeded"
      /\ \A p \in FailedDirect(j) : p \in Defined /\ Shown(p) = "failed"
  <2>1. \A p \in Defined : p \in Jobs
    BY DEF Defined
  <2>2. /\ \A p \in Prerequisites[j] : p \in Defined /\ state[p] = "SUCCESSFULL"
        /\ \A p \in FailedDirect(j) : p \in Defined /\ state[p] = "FAILED"
    BY <1>1, StartAllowed
  <2>3. Status("SUCCESSFULL") = "succeeded" /\ Status("FAILED") = "failed"
    BY DEF Status
  <2>4. QED
    BY <1>3, <2>1, <2>2, <2>3
<1>6. ~Exited
  BY DEF Exited, Outcomes
<1>7. QED
  BY <1>1, <1>2, <1>4, <1>5, <1>6 DEF Contract!MayStart

\* Greenlet g of j has the thread.
HasThread(j, g) == pc[j][g] # "waiting" /\ (Yielded \/ pc[j][g] = "checked")

\* How a greenlet's step on its job changes what the contract shows.
LEMMA ShownByStep ==
  ASSUME TreeInv, NEW j \in Jobs, NEW g \in Greenlets, HasThread(j, g),
         NEW s, NEW fired, NEW p \in {"none", "script"}, JobStep(j, g, s, fired, p)
  PROVE  /\ \A k \in Jobs : k # j => Shown(k)' = Shown(k)
         /\ s = "RUNNING" => Shown(j)' = "running"
         /\ Yielded => Shown(j)' = Status(s)
<1>1. /\ state'[j] = s
      /\ \A k \in Jobs : k # j => state'[k] = state[k]
      /\ pc'[j][g] = p
      /\ \A k \in Jobs, h \in Greenlets : ~(k = j /\ h = g) => OnlyWoken(k, h)
  <2>1. p \in Places
    BY DEF Places
  <2>2. QED
    BY <2>1, JobStepEffect DEF TreeInv, HasThread
<1>2. ASSUME NEW k \in Jobs, NEW h \in Greenlets, ~(k = j /\ h = g)
      PROVE  pc'[k][h] = "checked" <=> pc[k][h] = "checked"
  BY <1>1, <1>2 DEF OnlyWoken
<1>3. ASSUME NEW k \in Jobs, k # j
      PROVE  Shown(k)' = Shown(k)
  <2>1. Starting(k)' <=> Starting(k)
    BY <1>2, <1>3 DEF Starting
  <2>2. QED
    BY <1>1, <1>3, <2>1 DEF Shown
<1>4. s = "RUNNING" => Shown(j)' = "running"
  BY <1>1, StatusOf DEF Shown
<1>5. ASSUME Yielded
      PROVE  Shown(j)' = Status(s)
  <2>1. \A h \in Greenlets : pc[j][h] # "checked"
    BY <1>5 DEF Yielded
  <2>2. \A h \in Greenlets : pc'[j][h] # "checked"
    BY <1>1, <1>2, <2>1
  <2>3. ~Starting(j)'
    BY <2>2 DEF Starting
  <2>4. QED
    BY <1>1, <2>3 DEF Shown
<1>6. QED
  BY <1>3, <1>4, <1>5

\* The start of a job begins with the check; one that was interrupted is already shown.
LEMMA StartsByContract ==
  ASSUME TopologyAssumption, Undisturbed, TreeInv, main = "running",
         NEW j \in Jobs, NEW g \in Greenlets, Yielded \/ pc[j][g] = "checked",
         StartScript(j, g) \/ FailToStart(j, g)
  PROVE  [Contract!Next]_(Contract!vars)
<1>1. Admitted(j, g) /\ UNCHANGED <<cancelled, done, main>>
  BY DEF StartScript, FailToStart
<1>2. PICK p \in {"none", "script"} : JobStep(j, g, "RUNNING", {}, p)
  BY DEF StartScript, FailToStart
<1>3. HasThread(j, g)
  BY <1>1, NoneAcquires DEF HasThread, Admitted, PassesCheck, ParentsMet, Undisturbed
<1>4. (\A k \in Jobs : k # j => Shown(k)' = Shown(k)) /\ Shown(j)' = "running"
  <2>1. PICK s, fired : s = "RUNNING" /\ JobStep(j, g, s, fired, p)
    BY <1>2
  <2>2. /\ \A k \in Jobs : k # j => Shown(k)' = Shown(k)
        /\ s = "RUNNING" => Shown(j)' = "running"
    BY <1>3, <2>1, ShownByStep
  <2>3. QED
    BY <2>1, <2>2
<1>5. \A k \in Defined : k \in Jobs
  BY DEF Defined
<1>6. CASE PassesCheck(j, g)
  <2>1. j \in Defined /\ Contract!MayStart(j)
    BY <1>6, ChecksByContract
  <2>2. [k \in Defined |-> Shown(k)]' = [[k \in Defined |-> Shown(k)] EXCEPT ![j] = "running"]
    BY <1>4, <1>5, <2>1
  <2>3. ~Exited /\ ~Exited'
    BY <1>1 DEF Exited, Outcomes
  <2>4. Contract!Start(j)
    BY <1>1, <2>1, <2>2, <2>3 DEF Contract!Start
  <2>5. QED
    BY <2>1, <2>4 DEF Contract!Next
<1>7. CASE pc[j][g] = "checked"
  <2>1. Shown(j) = "running"
    BY <1>7 DEF Shown, Starting
  <2>2. QED
    BY <1>1, <1>4, <1>5, <2>1, ContractStutters
<1>8. QED
  BY <1>1, <1>6, <1>7, AdmittedPending DEF Undisturbed

LEMMA EndsByContract ==
  ASSUME TopologyAssumption, Undisturbed, TreeInv, main = "running", Yielded,
         NEW j \in Jobs, NEW g \in Greenlets, ScriptExits(j, g)
  PROVE  j \in Defined /\ Contract!End(j)
<1>1. PICK s \in {"SUCCESSFULL", "FAILED"} : JobStep(j, g, s, FiredBy(j, s), "none")
  BY DEF ScriptExits
<1>2. pc[j][g] = "script" /\ UNCHANGED <<cancelled, done, main>>
  BY DEF ScriptExits
<1>3. j \in Defined
  BY <1>2 DEF Defined, TreeInv, StageInv, StageOf
<1>4. state[j] = "RUNNING"
  BY <1>2, UnforcedFlat DEF Undisturbed, TreeInv, OnceInv, OnceOf, Once, Executes
<1>5. Shown(j) = "running" /\ Status(s) \in {"succeeded", "failed"}
  BY <1>1, <1>4, NoneStarting, StatusOf
<1>6. ~Exited /\ ~Exited'
  BY <1>2 DEF Exited, Outcomes
<1>7. [k \in Defined |-> Shown(k)]' = [[k \in Defined |-> Shown(k)] EXCEPT ![j] = Status(s)]
  <2>1. \A k \in Defined : k \in Jobs /\ Shown(k)' = IF k = j THEN Status(s) ELSE Shown(k)
    BY <1>1, <1>2, ShownByStep DEF Defined, HasThread
  <2>2. QED
    BY <1>3, <2>1
<1>8. QED
  BY <1>2, <1>3, <1>5, <1>6, <1>7 DEF Contract!End

\* What cancel() makes of the jobs, the first time.
LEMMA CancelShown ==
  ASSUME TopologyAssumption, Undisturbed, TreeInv, ~cancelled[Root],
         NEW completed, CancelTree(Root, completed), NEW k \in Defined
  PROVE  /\ Status(state'[k]) = IF Status(state[k]) = "pending" THEN "dropped"
                                ELSE Status(state[k])
         /\ Status(state'[k]) = "running" => state'[k] = "RUNNING"
         /\ k \in Jobs
<1>1. state' = StatesCancelled(Cancels(Root)) /\ TreeOf[k] = Root /\ k \in Jobs
  BY DEF CancelTree, Undisturbed, Unforced, TopologyAssumption, Defined
<1>2. Root \in Cancels(Root)
  BY DEF Cancels
<1>3. state'[k] = IF state[k] # "RUNNING" /\ state[k] \notin DONE_STATES
                  THEN "CANCELLED" ELSE state[k]
  BY <1>1, <1>2 DEF StatesCancelled
<1>4. state[k] # "UNDEF"
  BY <1>1 DEF Defined, TreeInv, StageInv, StageOf
<1>5. QED
  BY <1>1, <1>3, <1>4, StatusOf DEF DONE_STATES

LEMMA CancelMarks ==
  ASSUME TopologyAssumption, TreeInv, ~cancelled[Root],
         NEW completed, CancelTree(Root, completed)
  PROVE  /\ cancelled'[Root] /\ done'[Root] \in BOOLEAN
         /\ ~done[Root]
<1>1. cancelled' = FlagsCancelled(Cancels(Root)) /\ Root \in Trees
  BY DEF CancelTree, TopologyAssumption
<1>2. Root \in Cancels(Root)
  BY DEF Cancels
<1>3. done'[Root] \in BOOLEAN
  BY <1>1 DEF CancelTree
<1>4. QED
  BY <1>1, <1>2, <1>3 DEF FlagsCancelled, TreeInv, ContractInv

\* A cancel() closes the run the first time.
LEMMA ClosesByContract ==
  ASSUME TopologyAssumption, Undisturbed, TreeInv, main \in {"new", "running"}, main' = main,
         pc' = pc, ~cancelled[Root], NEW completed,
         completed = {} \/ (completed = {Root} /\ Complete(Root, state, cancelled)),
         CancelTree(Root, completed)
  PROVE  Contract!Close
<1>1. ~Exited /\ ~Exited'
  BY DEF Exited, Outcomes
<1>2. cancelled'[Root] /\ done'[Root] \in BOOLEAN /\ ~done[Root]
  BY CancelMarks
<1>3. ASSUME NEW k \in Defined
      PROVE  /\ Shown(k)' = IF Shown(k) = "pending" THEN "dropped" ELSE Shown(k)
             /\ Shown(k)' = Status(state'[k])
  <2>1. k \in Jobs
    BY DEF Defined
  <2>2. ~Starting(k) /\ Shown(k) = Status(state[k])
    BY <2>1, NoneStarting
  <2>3. ~Starting(k)'
    BY <2>2 DEF Starting
  <2>4. QED
    BY <2>2, <2>3, CancelShown DEF Shown
<1>4. ASSUME done'[Root], NEW k \in Defined \cap MustComplete
      PROVE  Shown(k)' # "running"
  <2>1. state'[k] \in DONE_STATES
    BY <1>2, <1>4, CancelFinds DEF Undisturbed, Defined
  <2>2. QED
    BY <1>3, <1>4, <2>1, StatusOf DEF DONE_STATES
<1>5. [k \in Defined |-> Shown(k)]' = Contract!Dropped([k \in Defined |-> Shown(k)])
  BY <1>3 DEF Contract!Dropped
<1>6. done'[Root] \in {FALSE, Contract!NothingRuns([k \in Defined |-> Shown(k)]')}
  BY <1>2, <1>4 DEF Contract!NothingRuns
<1>7. QED
  BY <1>1, <1>2, <1>5, <1>6 DEF Contract!Close

\* One that falls into a start closes it, too, and starts that job.
LEMMA InterruptsByContract ==
  ASSUME TopologyAssumption, Undisturbed, TreeInv, main = "running",
         NEW j \in Jobs, NEW g \in Greenlets, InterruptStart(j, g)
  PROVE  j \in Defined /\ Contract!Interrupt(j)
<1>1. PassesCheck(j, g) /\ ~cancelled[Root] /\ CancelTree(Root, {}) /\ "signal" \in Requests
      /\ main' = main
  BY DEF InterruptStart
<1>2. /\ pc'[j][g] = "checked"
      /\ \A k \in Jobs, h \in Greenlets : ~(k = j /\ h = g) => pc'[k][h] = pc[k][h]
  BY Interrupted DEF TreeInv
<1>3. j \in Defined /\ Contract!MayStart(j)
  BY <1>1, ChecksByContract
<1>4. cancelled'[Root] /\ done'[Root] \in BOOLEAN /\ ~done[Root]
  BY <1>1, CancelMarks
<1>5. Shown(j)' = "running"
  BY <1>2 DEF Shown, Starting
<1>6. ASSUME NEW k \in Defined, k # j
      PROVE  /\ Shown(k)' = IF Shown(k) = "pending" THEN "dropped" ELSE Shown(k)
             /\ Shown(k)' = Status(state'[k])
  <2>1. k \in Jobs
    BY DEF Defined
  <2>2. ~Starting(k) /\ Shown(k) = Status(state[k])
    BY <1>1, <2>1, NoneStarting
  <2>3. \A h \in Greenlets : pc'[k][h] = pc[k][h]
    BY <1>2, <1>6, <2>1
  <2>4. ~Starting(k)'
    BY <2>2, <2>3 DEF Starting
  <2>5. QED
    BY <1>1, <2>2, <2>4, CancelShown DEF Shown
<1>7. ASSUME done'[Root], NEW k \in (Defined \cap MustComplete) \ {j}
      PROVE  Shown(k)' # "running"
  <2>1. state'[k] \in DONE_STATES
    BY <1>1, <1>4, <1>7, CancelFinds DEF Undisturbed, Defined
  <2>2. QED
    BY <1>6, <1>7, <2>1, StatusOf DEF DONE_STATES
<1>8. [k \in Defined |-> Shown(k)]'
        = Contract!Dropped([[k \in Defined |-> Shown(k)] EXCEPT ![j] = "running"])
  <2>1. \A k \in Defined :
          Shown(k)' = IF k = j THEN "running"
                      ELSE IF Shown(k) = "pending" THEN "dropped" ELSE Shown(k)
    BY <1>5, <1>6
  <2>2. QED
    BY <1>3, <2>1 DEF Contract!Dropped
<1>9. done'[Root] \in {FALSE, Contract!NothingRunsBut(j, [k \in Defined |-> Shown(k)]')}
  BY <1>4, <1>7 DEF Contract!NothingRunsBut
<1>10. ~Exited /\ ~Exited'
  BY <1>1 DEF Exited, Outcomes
<1>11. QED
  BY <1>1, <1>3, <1>4, <1>8, <1>9, <1>10 DEF Contract!Interrupt

\* Once it is closed and nothing required runs, is_done() settles it.
LEMMA SettlesByContract ==
  ASSUME TopologyAssumption, Undisturbed, TreeInv, main = "running", main' = main, pc' = pc,
         Yielded, cancelled[Root], Complete(Root, state, cancelled), CancelTree(Root, {Root})
  PROVE  Contract!Settle
<1>1. Root \in Trees /\ \A j \in Jobs : TreeOf[j] = Root
  BY DEF Undisturbed, Unforced, TopologyAssumption
<1>2. Cancels(Root) = {}
  BY DEF Cancels
<1>3. state' = state /\ cancelled' = cancelled /\ done'[Root] = TRUE
  BY <1>1, <1>2
  DEF CancelTree, StatesCancelled, FlagsCancelled, TreeInv, TypeOK, StateTypeOK, TreeTypeOK
<1>4. ~Exited /\ ~Exited'
  BY DEF Exited, Outcomes
<1>5. \A k \in Defined : Shown(k)' = Shown(k)
  BY <1>3 DEF Shown, Starting
<1>6. ASSUME NEW k \in Defined \cap MustComplete
      PROVE  Shown(k) # "running"
  <2>1. k \in Jobs /\ state[k] \in DONE_STATES
    BY <1>1 DEF Complete, JobsOf, Defined
  <2>2. Shown(k) = Status(state[k])
    BY <2>1, NoneStarting
  <2>3. QED
    BY <2>1, <2>2, StatusOf DEF DONE_STATES
<1>7. QED
  BY <1>3, <1>4, <1>5, <1>6 DEF Contract!Settle, Contract!NothingRuns

\* run() returns when it is over, with the verdict of the contract.
LEMMA ReturnsByContract ==
  ASSUME TopologyAssumption, Undisturbed, TreeInv, ExitWith(state, cancelled),
         UNCHANGED <<state, pc, cancelled, done>>,
         \/ main = "new" /\ cancelled[Root]
         \/ main = "running" /\ done[Root] /\ Yielded
  PROVE  Contract!Return
<1>1. cancelled[Root] /\ done[Root] = TRUE /\ done'[Root] = TRUE
  BY DEF TreeInv, ContractInv, TypeOK, TreeTypeOK, TopologyAssumption
<1>2. \A j \in Jobs : TreeOf[j] = Root /\ Shown(j) = Status(state[j])
  BY NoneStarting DEF Undisturbed, Unforced, TopologyAssumption
<1>3. \A k \in Defined : Shown(k)' = Shown(k)
  BY DEF Shown, Starting
<1>4. Complete(Root, state, cancelled)
        <=> \A k \in Defined \cap MustComplete : Shown(k) # "running"
  <2>1. \A j \in Jobs : state[j] \in DONE_STATES \cup {"RUNNING"} /\ (j \notin Defined => state[j] = "UNDEF")
    BY <1>1 DEF TreeInv, ContractInv, JobContract, StageInv, StageOf, Defined
  <2>2. \A j \in Jobs : state[j] \in DONE_STATES <=> Shown(j) # "running"
    BY <1>2, <2>1, StatusOf DEF DONE_STATES
  <2>3. \A j \in Jobs : j \notin Defined => state[j] \in DONE_STATES
    BY <2>1 DEF DONE_STATES
  <2>4. QED
    BY <1>1, <1>2, <2>2, <2>3 DEF Complete, JobsOf, Defined
<1>5. AllSuccess(Root, state) <=> \A j \in Defined : Shown(j) = "succeeded"
  <2>1. \A j \in Jobs : state[j] \in SUCCESS_STATES <=> state[j] = "SUCCESSFULL" \/ j \notin Defined
    BY DEF SUCCESS_STATES, Defined, TreeInv, StageInv, StageOf
  <2>2. QED
    BY <1>2, <2>1, StatusOf DEF AllSuccess, JobsOf, Defined
<1>6. ~Exited /\ Exited'
  BY DEF ExitWith, Exited, Outcomes
<1>7. QED
  BY <1>1, <1>3, <1>4, <1>5, <1>6 DEF ExitWith, Contract!Return, Contract!NothingRuns

LEMMA GreenletByContract ==
  ASSUME TopologyAssumption, Undisturbed, TreeInv, main = "running",
         NEW j \in Jobs, NEW g \in Greenlets, GreenletStep(j, g)
  PROVE  [Contract!Next]_(Contract!vars)
<1>1. Yielded \/ pc[j][g] = "checked"
  BY DEF GreenletStep
<1>2. CASE StartScript(j, g) \/ FailToStart(j, g)
  BY <1>1, <1>2, StartsByContract
<1>3. CASE ScriptExits(j, g)
  <2>1. Yielded
    BY <1>1, <1>3 DEF ScriptExits
  <2>2. j \in Defined /\ Contract!End(j)
    BY <1>3, <2>1, EndsByContract
  <2>3. QED
    BY <2>2 DEF Contract!Next
<1>4. CASE WaitForParent(j, g)
  <2>1. /\ UNCHANGED <<state, cancelled, done, main>>
        /\ pc[j][g] = "ready" /\ pc' = [pc EXCEPT ![j][g] = "waiting"]
    BY <1>4 DEF WaitForParent
  <2>2. \A k \in Jobs, h \in Greenlets : pc'[k][h] = "checked" <=> pc[k][h] = "checked"
    BY <2>1 DEF TreeInv, TypeOK, GreenletTypeOK
  <2>3. \A k \in Defined : Shown(k)' = Shown(k)
    BY <2>1, <2>2 DEF Shown, Starting, Defined
  <2>4. QED
    BY <2>1, <2>3, ContractStutters
<1>5. CASE SkipUndefined(j, g) \/ AbandonStart(j, g)
  <2>1. /\ UNCHANGED <<cancelled, done, main>> /\ ParentsMet(j, g)
        /\ \E fired : JobStep(j, g, state[j], fired, "none")
    BY <1>5 DEF SkipUndefined, AbandonStart
  <2>2. Yielded /\ pc[j][g] # "waiting"
    BY <1>1, <2>1 DEF ParentsMet
  <2>3. PICK fired : JobStep(j, g, state[j], fired, "none")
    BY <2>1
  <2>4. (\A k \in Jobs : k # j => Shown(k)' = Shown(k)) /\ Shown(j)' = Status(state[j])
    BY <2>2, <2>3, ShownByStep DEF HasThread
  <2>5. Shown(j) = Status(state[j])
    BY <2>2, NoneStarting
  <2>6. \A k \in Defined : Shown(k)' = Shown(k)
    BY <2>4, <2>5 DEF Defined
  <2>7. QED
    BY <2>1, <2>6, ContractStutters
<1>6. ~BlockOnResources(j, g) /\ ~GiveUpResources(j, g)
  BY NoneAcquires DEF Undisturbed, Unforced, BlockOnResources, GiveUpResources
<1>7. ~EnterSubtree(j, g) /\ ~LeaveSubtree(j, g) /\ ~LastIteration(j, g) /\ ~NextIteration(j, g)
  BY UnforcedFlat
  DEF Undisturbed, FlatTree, EnterSubtree, LeaveSubtree, LastIteration, NextIteration,
      SubtreeReturned
<1>8. QED
  BY <1>2, <1>3, <1>4, <1>5, <1>6, <1>7 DEF GreenletStep

LEMMA IsDoneByContract ==
  ASSUME TopologyAssumption, Undisturbed, TreeInv, main = "running",
         NEW t \in Trees, IsDoneEvent(t)
  PROVE  [Contract!Next]_(Contract!vars)
<1>1. t = Root /\ main' = main /\ pc' = pc /\ Yielded
  BY DEF IsDoneEvent, Undisturbed, Unforced
<1>2. CASE ~Complete(Root, state, cancelled)
  <2>1. UNCHANGED <<state, cancelled, done>>
    BY <1>1, <1>2 DEF IsDoneEvent
  <2>2. \A k \in Defined : Shown(k)' = Shown(k)
    BY <1>1, <2>1 DEF Shown, Starting
  <2>3. QED
    BY <1>1, <2>1, <2>2, ContractStutters
<1>3. CASE Complete(Root, state, cancelled)
  <2>1. CancelTree(Root, {Root})
    BY <1>1, <1>3 DEF IsDoneEvent
  <2>2. CASE cancelled[Root]
    <3>1. Contract!Settle
      BY <1>1, <1>3, <2>1, <2>2, SettlesByContract
    <3>2. QED
      BY <3>1 DEF Contract!Next
  <2>3. CASE ~cancelled[Root]
    <3>1. Contract!Close
      BY <1>1, <1>3, <2>1, <2>3, ClosesByContract
    <3>2. QED
      BY <3>1 DEF Contract!Next
  <2>4. QED
    BY <2>2, <2>3
<1>4. QED
  BY <1>2, <1>3

LEMMA StepByContract ==
  ASSUME TopologyAssumption, Undisturbed, TreeInv, [Next]_vars
  PROVE  [Contract!Next]_(Contract!vars)
<1>1. CASE RunTree
  <2>1. UNCHANGED <<cancelled, done>> /\ main = "new"
    BY <1>1 DEF RunTree
  <2>2. CASE cancelled[Root]
    <3>1. Contract!Return
      BY <1>1, <2>1, <2>2, ReturnsByContract DEF RunTree
    <3>2. QED
      BY <3>1 DEF Contract!Next
  <2>3. CASE ~cancelled[Root]
    <3>1. main' = "running" /\ StartJobs(Root, state, events, SpawnedPc(Spawning(Root, state)))
      BY <1>1, <2>3 DEF RunTree
    <3>2. state' = state
      BY <3>1 DEF StartJobs
    <3>3. ASSUME NEW k \in Jobs
          PROVE  ~Starting(k) /\ ~Starting(k)'
      <4>1. ~Starting(k)
        BY <2>3, NoneStarting
      <4>2. \A g \in Greenlets : OnlyRoused(k, g)
        BY <3>1, StartJobsEffect DEF TreeInv
      <4>3. \A g \in Greenlets : pc'[k][g] = "checked" => pc[k][g] = "checked"
        BY <4>2 DEF OnlyRoused
      <4>4. QED
        BY <4>1, <4>3 DEF Starting
    <3>4. \A k \in Defined : Shown(k)' = Shown(k)
      BY <3>2, <3>3 DEF Shown, Defined
    <3>5. QED
      BY <2>1, <3>1, <3>4, ContractStutters
  <2>4. QED
    BY <2>2, <2>3
<1>2. CASE RunReturns
  <2>1. Contract!Return
    BY <1>2, ReturnsByContract DEF RunReturns
  <2>2. QED
    BY <2>1 DEF Contract!Next
<1>3. CASE Abort
  <2>1. Contract!Close
    BY <1>3, ClosesByContract DEF Abort
  <2>2. QED
    BY <2>1 DEF Contract!Next
<1>4. CASE RunningStep
  <2>1. main = "running" /\ \A j \in Jobs : ~Reschedule(j) /\ ~ManualOverride(j)
    BY <1>4 DEF RunningStep, Undisturbed, Unforced, Reschedule, ManualOverride
  <2>2. ASSUME NEW j \in Jobs, NEW g \in Greenlets, InterruptStart(j, g)
        PROVE  [Contract!Next]_(Contract!vars)
    <3>1. j \in Defined /\ Contract!Interrupt(j)
      BY <2>1, <2>2, InterruptsByContract
    <3>2. QED
      BY <3>1 DEF Contract!Next
  <2>3. QED
    BY <1>4, <2>1, <2>2, GreenletByContract, IsDoneByContract DEF RunningStep
<1>5. CASE UNCHANGED vars
  <2>1. \A k \in Defined : Shown(k)' = Shown(k)
    BY <1>5 DEF vars, Shown, Starting
  <2>2. QED
    BY <1>5, <2>1, ContractStutters DEF vars
<1>6. ~RunTimesOut
  BY DEF Undisturbed, Unforced, RunTimesOut
<1>7. QED
  BY <1>1, <1>2, <1>3, <1>4, <1>5, <1>6 DEF Next, Terminated

LEMMA InitByContract ==
  ASSUME TopologyAssumption, Init
  PROVE  Contract!Init
<1>1. ASSUME NEW j \in Defined
      PROVE  Shown(j) = "pending"
  <2>1. state[j] = "IDLE" /\ \A g \in Greenlets : pc[j][g] = "none"
    BY DEF Init, Defined
  <2>2. QED
    BY <2>1, StatusOf DEF Shown, Starting
<1>2. ~cancelled[Root] /\ ~Exited /\ done[Root] = FALSE
  BY DEF Init, TopologyAssumption, Exited, Outcomes
<1>3. QED
  BY <1>1, <1>2 DEF Contract!Init

\* A tree without subtrees and resources that nobody corrects implements
\* TreeContract: every step of its executor is a step of the contract or leaves
\* what the contract sees alone.  Code: run, _run, cancel and is_done.
THEOREM ContractKept == Undisturbed /\ Spec => KeepsContract
<1>1. Init => Contract!Init
  BY TopologyAssumption, InitByContract
<1>2. Undisturbed /\ TreeInv /\ [Next]_vars => [Contract!Next]_(Contract!vars)
  BY TopologyAssumption, StepByContract
<1>3. Undisturbed => Unforced
  BY DEF Undisturbed
<1>4. Undisturbed => []Undisturbed
  <2>1. Undisturbed => Undisturbed'
    BY DEF Undisturbed, Unforced
  <2>2. QED
    BY <2>1, PTL
<1>5. QED
  BY <1>1, <1>2, <1>3, <1>4, ContractInvariant, PTL DEF Spec, KeepsContract, Contract!Spec
=============================================================================
