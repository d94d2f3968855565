----------------------------- MODULE RCubicProofs -----------------------------
(***************************************************************************)
(* The process around the tree keeps to the executor's specification, and  *)
(* its audit log tells what became of every script and group.              *)
(***************************************************************************)
EXTENDS RCubic, ContractProofs

\* In session mode the process itself aborts the tree: that an abort may come from
\* outside, too, only adds behaviours.
AbortsFromOutside == SessionMode => "abort" \in Requests

-----------------------------------------------------------------------------
(* The process takes the executor's steps only.                            *)

\* A second cancel() changes nothing.
LEMMA CancelAgain ==
  ASSUME TypeOK, cancelled[Root], CancelTree(Root, {})
  PROVE  UNCHANGED <<state, notify, cancelled, done>>
<1>1. Cancels(Root) = {}
  BY DEF Cancels
<1>2. state' = state /\ cancelled' = cancelled
  BY <1>1 DEF CancelTree, StatesCancelled, FlagsCancelled, TypeOK, StateTypeOK, TreeTypeOK
<1>3. done' = done
  BY <1>1 DEF CancelTree, TypeOK, TreeTypeOK
<1>4. StatesCancelled(Cancels(Root)) = state
  BY <1>2 DEF CancelTree
<1>5. Notified(state, {}) = {}
  BY DEF Notified
<1>6. notify' = notify
  BY <1>4, <1>5 DEF CancelTree
<1>7. QED
  BY <1>2, <1>3, <1>6

LEMMA HandlerStep ==
  ASSUME AbortsFromOutside, TypeOK, NEW j \in Scripts, StatusEventHandler(j)
  PROVE  [Next]_vars
<1>1. main = "running" /\ UNCHANGED <<events, pc, at, linked, run, main>>
  BY DEF StatusEventHandler
<1>2. CASE SessionMode /\ state[j] = "FAILED"
  <2>1. CancelTree(Root, {})
    BY <1>2 DEF StatusEventHandler
  <2>2. CASE cancelled[Root]
    BY <1>1, <2>1, <2>2, CancelAgain DEF vars
  <2>3. CASE ~cancelled[Root]
    BY <1>1, <1>2, <2>1, <2>3 DEF Abort, AbortsFromOutside, Next
  <2>4. QED
    BY <2>2, <2>3
<1>3. CASE ~(SessionMode /\ state[j] = "FAILED")
  BY <1>1, <1>3 DEF StatusEventHandler, vars
<1>4. QED
  BY <1>2, <1>3

LEMMA ProcessStep ==
  ASSUME AbortsFromOutside, TypeOK, [RCubicNext]_rcVars
  PROVE  [Next]_vars
<1>1. ASSUME NEW j \in Scripts, StatusEventHandler(j)
      PROVE  [Next]_vars
  BY <1>1, HandlerStep
<1>2. CASE RunIsDoneEvent
  BY <1>2 DEF RunIsDoneEvent, Next, RunningStep
<1>3. CASE RunAbort
  BY <1>3 DEF RunAbort, Next, RunningStep
<1>4. CASE RunJobs
  BY <1>4 DEF RunJobs, Next, RunningStep
<1>5. CASE RunMain
  BY <1>5 DEF RunMain, Next
<1>6. CASE UNCHANGED rcVars
  BY <1>6 DEF rcVars
<1>7. QED
  BY <1>1, <1>2, <1>3, <1>4, <1>5, <1>6 DEF RCubicNext

\* The process of bin/rcubic is an executor: its handlers do to the tree what an
\* abort does and nothing else, so what is proved of the executor holds of it.
\* Code: statusEventHandler, which calls tree.cancel().
THEOREM ProcessExecutes == AbortsFromOutside /\ RCubicSpec => Spec
<1>1. RCubicInit => Init /\ TypeOK
  BY TopologyAssumption, TypeInit DEF RCubicInit
<1>2. AbortsFromOutside /\ TypeOK /\ [RCubicNext]_rcVars => TypeOK' /\ [Next]_vars
  BY TopologyAssumption, ProcessStep, TypeStep
<1>3. AbortsFromOutside => AbortsFromOutside'
  BY DEF AbortsFromOutside
<1>4. QED
  BY <1>1, <1>2, <1>3, PTL DEF RCubicSpec, Spec

\* What a step does to the records: the handler of one script runs, or none does.
Records ==
  \/ \E j \in Scripts : SaveStatus(j)
  \/ Unlogged

LEMMA StepRecords ==
  ASSUME [RCubicNext]_rcVars
  PROVE  /\ Records
         /\ handlers' \subseteq handlers \cup Scheduled
         /\ ahead' \subseteq ahead \cup handlers \cup handlers'
<1>1. CASE UNCHANGED rcVars
  BY <1>1 DEF rcVars, Records, Unlogged
<1>2. CASE RCubicNext
  BY <1>2 DEF RCubicNext, StatusEventHandler, RunIsDoneEvent, RunAbort, RunJobs, RunMain,
              rcVars, Schedules, Unlogged, Records
<1>3. QED
  BY <1>1, <1>2

LEMMA ProcessType ==
  ASSUME TypeOK, [RCubicNext]_rcVars
  PROVE  TypeOK'
<1>1. ASSUME NEW j \in Scripts, StatusEventHandler(j), SessionMode, state[j] = "FAILED"
      PROVE  TypeOK'
  <2>1. CancelTree(Root, {}) /\ UNCHANGED <<events, pc, at, linked, run, main>>
    BY <1>1 DEF StatusEventHandler
  <2>2. Root \in Trees
    BY TopologyAssumption DEF TopologyAssumption
  <2>3. /\ StateTypeOK' /\ notify' \subseteq linked'
        /\ cancelled' \in [Trees -> BOOLEAN] /\ done' \in [Trees -> BOOLEAN]
    BY <2>1, <2>2, TopologyAssumption, CancelTreeType
  <2>4. QED
    BY <2>1, <2>3 DEF TypeOK, GreenletTypeOK, HubTypeOK, TreeTypeOK
<1>2. CASE [Next]_vars
  BY <1>2, TopologyAssumption, TypeStep
<1>3. ASSUME NEW j \in Scripts, StatusEventHandler(j), ~(SessionMode /\ state[j] = "FAILED")
      PROVE  [Next]_vars
  BY <1>3 DEF StatusEventHandler, vars
<1>4. CASE RunIsDoneEvent
  BY <1>2, <1>4 DEF RunIsDoneEvent, Next, RunningStep
<1>5. CASE RunAbort \/ RunMain
  BY <1>2, <1>5 DEF RunAbort, RunMain, Next, RunningStep
<1>6. CASE RunJobs
  BY <1>2, <1>6 DEF RunJobs, Next, RunningStep
<1>7. CASE UNCHANGED rcVars
  BY <1>2, <1>7 DEF rcVars
<1>8. QED
  BY <1>1, <1>2, <1>3, <1>4, <1>5, <1>6, <1>7 DEF RCubicNext

\* The type invariant of the process: what is scheduled and recorded is of scripts
\* and groups, in states that jobs have.  Code: statusEventHandler and saveStatus.
THEOREM RCubicTypeCorrect == RCubicSpec => []RCubicTypeOK
<1> DEFINE RecordsOK ==
      /\ handlers \subseteq Scripts
      /\ ahead \subseteq Scripts
      /\ log \in [Scripts -> STATES \cup {NoRecord}]
      /\ groupLog \in [Groups -> SUBSET STATES]
<1>1. RCubicInit => TypeOK /\ RecordsOK
  BY TopologyAssumption, TypeInit DEF RCubicInit
<1>2. TypeOK /\ RecordsOK /\ [RCubicNext]_rcVars => RecordsOK'
  <2> SUFFICES ASSUME TypeOK, RecordsOK, [RCubicNext]_rcVars
               PROVE  RecordsOK'
    OBVIOUS
  <2>1. handlers' \subseteq Scripts /\ ahead' \subseteq Scripts
    BY StepRecords DEF Scheduled
  <2>2. ASSUME NEW j \in Scripts, SaveStatus(j)
        PROVE  /\ log' \in [Scripts -> STATES \cup {NoRecord}]
               /\ groupLog' \in [Groups -> SUBSET STATES]
    <3>1. state[j] \in STATES /\ GroupOf[j] \in Groups
      BY RCubicAssumption DEF Scripts, TypeOK, StateTypeOK
    <3>2. QED
      BY <2>2, <3>1 DEF SaveStatus
  <2>3. QED
    BY <2>1, <2>2, StepRecords DEF Records, Unlogged
<1>3. TypeOK /\ RecordsOK => RCubicTypeOK
  BY DEF RCubicTypeOK
<1> HIDE DEF RecordsOK
<1>4. TypeOK /\ [RCubicNext]_rcVars => TypeOK'
  BY ProcessType
<1>5. QED
  BY <1>1, <1>2, <1>3, <1>4, PTL DEF RCubicSpec

-----------------------------------------------------------------------------
(* Groups are recorded only when they succeeded.                           *)

\* What a job has ended with it keeps, an operator's correction and a start that a
\* signal fell into aside: no greenlet of it executes any more.
LEMMA DoneLasts ==
  ASSUME TopologyAssumption, FlatTree, Settled, TypeOK, StageInv, OnceInv, OrderInv, [Next]_vars,
         NEW j \in Jobs, state[j] \in DONE_STATES,
         \/ state[j] \in SUCCESS_STATES
         \/ WithResources = {} /\ Yielded /\ {"override", "reschedule"} \cap Requests = {}
  PROVE  state'[j] = state[j]
<1>1. /\ state \in [Jobs -> STATES]
      /\ FlatTree
      /\ Root \in Trees
  BY DEF TypeOK, StateTypeOK, TopologyAssumption
<1>2. state[j] # "RUNNING" /\ ("acquiring" # "script" /\ "acquiring" # "subtree")
  BY DEF DONE_STATES
<1>3. \A g \in Greenlets : pc[j][g] # "acquiring" /\ pc[j][g] # "checked"
  <2>1. CASE state[j] \in SUCCESS_STATES
    BY <2>1 DEF OrderInv, StateOrder, Underway
  <2>2. CASE WithResources = {} /\ Yielded
    BY <2>2 DEF StageInv, StageOf, Yielded
  <2>3. QED
    BY <2>1, <2>2
<1>4. \A g \in Greenlets : pc[j][g] # "script"
  BY <1>1, <1>2 DEF OnceInv, OnceOf, Once, Executes
<1>5. \A g \in Greenlets : ~Admitted(j, g)
  BY <1>3 DEF Admitted, PassesCheck
<1>6. ASSUME NEW k \in Jobs, NEW g \in Greenlets, GreenletStep(k, g)
      PROVE  state'[j] = state[j]
  <2>1. CASE WaitForParent(k, g)
    BY <2>1 DEF WaitForParent
  <2>2. CASE SkipUndefined(k, g)
    BY <1>1, <2>2 DEF SkipUndefined, JobStep
  <2>3. CASE AbandonStart(k, g)
    BY <1>1, <2>3 DEF AbandonStart, JobStep
  <2>4. CASE BlockOnResources(k, g)
    BY <1>1, <1>3, <2>4 DEF BlockOnResources, PassesCheck, JobStep
  <2>5. CASE GiveUpResources(k, g)
    BY <1>1, <1>3, <2>5 DEF GiveUpResources, JobStep
  <2>6. CASE StartScript(k, g) \/ FailToStart(k, g)
    BY <1>1, <1>5, <2>6 DEF StartScript, FailToStart, JobStep
  <2>7. CASE ScriptExits(k, g)
    BY <1>1, <1>4, <2>7 DEF ScriptExits, JobStep
  <2>8. ~EnterSubtree(k, g) /\ ~LeaveSubtree(k, g) /\ ~LastIteration(k, g) /\ ~NextIteration(k, g)
    BY <1>1 DEF FlatTree, EnterSubtree, LeaveSubtree, LastIteration, NextIteration, SubtreeReturned
  <2>9. QED
    BY <1>6, <2>1, <2>2, <2>3, <2>4, <2>5, <2>6, <2>7, <2>8 DEF GreenletStep
<1>7. ASSUME NEW t \in Trees, NEW completed, CancelTree(t, completed)
      PROVE  state'[j] = state[j]
  BY <1>7, CancelEffect
<1>8. ASSUME NEW t \in Trees, IsDoneEvent(t)
      PROVE  state'[j] = state[j]
  BY <1>7, <1>8 DEF IsDoneEvent
<1>9. ASSUME NEW k \in Jobs, Reschedule(k) \/ ManualOverride(k)
      PROVE  state'[j] = state[j]
  BY <1>1, <1>9 DEF Reschedule, ManualOverride, SUCCESS_STATES, ERROR_STATES
<1>10. CASE RunTree \/ RunReturns
  BY <1>10 DEF RunTree, RunReturns, StartJobs
<1>11. CASE RunTimesOut \/ Abort
  BY <1>1, <1>7, <1>11 DEF RunTimesOut, Abort
<1>12. CASE UNCHANGED vars
  BY <1>12 DEF vars
<1>13. ASSUME NEW k \in Jobs, NEW g \in Greenlets, InterruptStart(k, g)
       PROVE  state'[j] = state[j]
  BY <1>1, <1>7, <1>13 DEF InterruptStart
<1>14. QED
  BY <1>6, <1>8, <1>9, <1>10, <1>11, <1>12, <1>13 DEF Next, RunningStep, Terminated

\* A group that has succeeded stays so, and one is recorded only when it has.
\* Code: saveStatus and RCubicGroup.is_success, read when a handler runs and not
\* when the event was set.
THEOREM GroupRecordsSound ==
  FlatTree /\ Settled /\ AbortsFromOutside /\ RCubicSpec => []GroupRecordSound
<1> DEFINE Known == TypeOK /\ StageInv /\ OnceInv /\ OrderInv /\ RCubicTypeOK
<1>1. RCubicInit => GroupRecordSound
  BY DEF RCubicInit, GroupRecordSound
<1>2. FlatTree /\ Settled /\ Known /\ [Next]_vars /\ [RCubicNext]_rcVars /\ GroupRecordSound
        => GroupRecordSound'
  <2> SUFFICES ASSUME FlatTree, Settled, Known, [Next]_vars, [RCubicNext]_rcVars,
                      GroupRecordSound,
                      NEW g \in Groups, groupLog'[g] # {}
               PROVE  GroupSuccess(g, state')
    BY DEF GroupRecordSound
  <2>1. GroupSuccess(g, state)
    <3>1. CASE groupLog'[g] = groupLog[g]
      BY <3>1 DEF GroupRecordSound
    <3>2. CASE groupLog'[g] # groupLog[g]
      <4>1. PICK j \in Scripts : SaveStatus(j)
        BY <3>2, StepRecords DEF Records, Unlogged
      <4>2. groupLog \in [Groups -> SUBSET STATES]
        BY DEF RCubicTypeOK
      <4>3. QED
        BY <3>2, <4>1, <4>2 DEF SaveStatus
    <3>3. QED
      BY <3>1, <3>2
  <2>2. ASSUME NEW j \in ScriptsOf(g)
        PROVE  state'[j] \in SUCCESS_STATES
    <3>1. j \in Jobs /\ state[j] \in SUCCESS_STATES /\ state[j] \in DONE_STATES
      BY <2>1 DEF GroupSuccess, ScriptsOf, Scripts, SUCCESS_STATES, DONE_STATES
    <3>2. state'[j] = state[j]
      BY <3>1, TopologyAssumption, DoneLasts
    <3>3. QED
      BY <3>1, <3>2
  <2>3. QED
    BY <2>2 DEF GroupSuccess
<1>3. FlatTree /\ Settled => FlatTree' /\ Settled'
  BY DEF Settled, FlatTree, Owned, Orphan, Managers
<1>4. AbortsFromOutside => AbortsFromOutside'
  BY DEF AbortsFromOutside
<1>5. Known <=> TypeOK /\ StageInv /\ OnceInv /\ OrderInv /\ RCubicTypeOK
  OBVIOUS
<1> HIDE DEF Known
<1>6. QED
  BY <1>1, <1>2, <1>3, <1>4, <1>5, ProcessExecutes, TypeCorrect, StageInvariant,
     OnceInvariant, OrderInvariant, RCubicTypeCorrect, PTL DEF RCubicSpec, Spec

-----------------------------------------------------------------------------
(* The audit log is complete when the run ends.                            *)

\* A run whose log is complete: nobody corrects what the tree makes of its jobs, no
\* signal falls into a start, and run() waits for every script, as ExecJob's default
\* for mustcomplete has it.
Audited ==
  /\ Undisturbed
  /\ "signal" \notin Requests
  /\ AbortsFromOutside
  /\ Scripts \subseteq MustComplete

Logged(j) == state[j] \in DEPENDENCY_STATES => log[j] = state[j]

\* Whatever is not in the log has its handler scheduled; once done_event is set, ahead
\* of the return of run().
AuditInv ==
  /\ ahead \subseteq handlers
  /\ \A j \in Scripts : Logged(j) \/ j \in handlers
  /\ done[Root] => \A j \in Scripts : Logged(j) \/ j \in ahead
  /\ Exited => \A j \in Scripts : Logged(j)

\* The scripts of g that were not left out; if there are any, the group is to be
\* recorded as installed.
Ran(g) == ScriptsOf(g) \ Undefined

Recorded(g) == "SUCCESSFULL" \in groupLog[g]

\* The same of the groups: of one that has succeeded and is not recorded, the handler
\* of a script that was not left out is still to run, and it will find the group
\* successful.
GroupInv ==
  /\ \A g \in Groups : Recorded(g) => Ran(g) # {}
  /\ \A g \in Groups :
       Ran(g) # {} /\ GroupSuccess(g, state) => Recorded(g) \/ Ran(g) \cap handlers # {}
  /\ done[Root] =>
       \A g \in Groups :
         Ran(g) # {} /\ GroupSuccess(g, state) => Recorded(g) \/ Ran(g) \cap ahead # {}
  /\ main = "success" => \A g \in Groups : Ran(g) # {} => Recorded(g)

\* What holds in every state of an audited run.
RunInv == TreeInv /\ RCubicTypeOK /\ Yielded

LEMMA RousedYields ==
  ASSUME Yielded, \A k \in Jobs, h \in Greenlets : OnlyRoused(k, h)
  PROVE  Yielded'
<1>1. ASSUME NEW k \in Jobs, NEW h \in Greenlets
      PROVE  pc'[k][h] # "checked"
  <2>1. pc[k][h] # "checked" /\ OnlyRoused(k, h)
    BY DEF Yielded
  <2>2. QED
    BY <2>1 DEF OnlyRoused
<1>2. QED
  BY <1>1 DEF Yielded

\* Without a signal no start is interrupted.
LEMMA NoneInterrupted ==
  ASSUME TopologyAssumption, FlatTree, TypeOK, "signal" \notin Requests, Yielded, [Next]_vars
  PROVE  Yielded'
<1>1. ASSUME NEW j \in Jobs, NEW g \in Greenlets, GreenletStep(j, g)
      PROVE  Yielded'
  <2>1. CASE WaitForParent(j, g)
    BY <2>1 DEF WaitForParent, Yielded, TypeOK, GreenletTypeOK
  <2>2. ASSUME NEW s, NEW fired, NEW p \in Places \ {"checked"}, pc[j][g] # "waiting",
               JobStep(j, g, s, fired, p)
        PROVE  Yielded'
    <3>1. /\ pc'[j][g] = p
          /\ \A k \in Jobs, h \in Greenlets : ~(k = j /\ h = g) => OnlyWoken(k, h)
      BY <2>2, JobStepEffect
    <3>2. ASSUME NEW k \in Jobs, NEW h \in Greenlets
          PROVE  pc'[k][h] # "checked"
      <4>1. pc[k][h] # "checked"
        BY DEF Yielded
      <4>2. CASE k = j /\ h = g
        BY <2>2, <3>1, <4>2
      <4>3. CASE ~(k = j /\ h = g)
        BY <3>1, <4>1, <4>3 DEF OnlyWoken
      <4>4. QED
        BY <4>2, <4>3
    <3>3. QED
      BY <3>2 DEF Yielded
  <2>3. ~EnterSubtree(j, g) /\ ~LeaveSubtree(j, g) /\ ~LastIteration(j, g) /\ ~NextIteration(j, g)
    BY DEF FlatTree, EnterSubtree, LeaveSubtree, LastIteration, NextIteration, SubtreeReturned
  <2>4. {"none", "acquiring", "script"} \subseteq Places \ {"checked"}
    BY DEF Places
  <2>5. CASE SkipUndefined(j, g) \/ AbandonStart(j, g)
    BY <2>2, <2>4, <2>5 DEF SkipUndefined, AbandonStart, ParentsMet
  <2>6. CASE BlockOnResources(j, g) \/ GiveUpResources(j, g)
    BY <2>2, <2>4, <2>6 DEF BlockOnResources, GiveUpResources, PassesCheck, ParentsMet
  <2>7. CASE StartScript(j, g) \/ FailToStart(j, g)
    BY <2>2, <2>4, <2>7 DEF StartScript, FailToStart, Admitted, PassesCheck, ParentsMet
  <2>8. CASE ScriptExits(j, g)
    BY <2>2, <2>4, <2>8 DEF ScriptExits
  <2>9. QED
    BY <1>1, <2>1, <2>3, <2>5, <2>6, <2>7, <2>8 DEF GreenletStep
<1>2. ASSUME NEW j \in Jobs, Reschedule(j) \/ ManualOverride(j)
      PROVE  Yielded'
  <2>1. \A k \in Jobs, g \in Greenlets : OnlyRoused(k, g)
    BY <1>2, RequestEffect
  <2>2. QED
    BY <2>1, RousedYields
<1>3. ASSUME pc' = pc
      PROVE  Yielded'
  BY <1>3 DEF Yielded
<1>4. CASE RunTree
  <2>1. CASE pc' = pc
    BY <1>3, <2>1
  <2>2. CASE StartJobs(Root, state, events, SpawnedPc(Spawning(Root, state)))
    <3>1. \A k \in Jobs, g \in Greenlets : OnlyRoused(k, g)
      BY <2>2, StartJobsEffect
    <3>2. QED
      BY <3>1, RousedYields
  <2>3. QED
    BY <1>4, <2>1, <2>2 DEF RunTree
<1>5. CASE RunReturns \/ RunTimesOut \/ Abort \/ Terminated \/ UNCHANGED vars
  BY <1>3, <1>5 DEF RunReturns, RunTimesOut, Abort, Terminated, vars
<1>6. \A j \in Jobs, g \in Greenlets : ~InterruptStart(j, g)
  BY DEF InterruptStart
<1>7. \A t \in Trees : IsDoneEvent(t) => pc' = pc
  BY DEF IsDoneEvent
<1>8. QED
  BY <1>1, <1>2, <1>3, <1>4, <1>5, <1>6, <1>7 DEF Next, RunningStep

\* No outcome changes.
LEMMA OutcomesLast ==
  ASSUME Undisturbed, RunInv, [Next]_vars, NEW j \in Jobs, state[j] \in DONE_STATES
  PROVE  state'[j] = state[j]
<1>1. FlatTree /\ Settled /\ WithResources = {} /\ {"override", "reschedule"} \cap Requests = {}
  BY TopologyAssumption, UnforcedFlat DEF Undisturbed, Unforced
<1>2. TypeOK /\ StageInv /\ OnceInv /\ OrderInv /\ Yielded
  BY DEF RunInv, TreeInv
<1>3. QED
  BY <1>1, <1>2, TopologyAssumption, DoneLasts

\* Once done_event is set, every script is done: none is loose.
LEMMA ScriptsDone ==
  ASSUME Audited, RunInv, done[Root], NEW j \in Scripts
  PROVE  state[j] \in DONE_STATES
<1>1. j \in Jobs /\ j \in MustComplete /\ "signal" \notin Requests
  BY DEF Audited, Scripts
<1>2. OneLoose
  BY DEF RunInv, TreeInv, ContractInv
<1>3. ~Loose(j)
  BY <1>1, <1>2 DEF OneLoose
<1>4. QED
  BY <1>1, <1>3 DEF Loose

\* A cancel() only ends jobs that have not been started.
OnlyCancels == \A j \in Jobs : state'[j] = state[j] \/ state'[j] = "CANCELLED"

LEMMA CancelsOnly ==
  ASSUME TypeOK, NEW completed, CancelTree(Root, completed)
  PROVE  OnlyCancels
<1>1. Root \in Trees
  BY TopologyAssumption DEF TopologyAssumption
<1>2. QED
  BY <1>1, TopologyAssumption, CancelEffect DEF OnlyCancels

\* A step that runs no handler: who is ahead of the return of run() when it sets
\* done_event, and what it needs to be the last.
QuietStep ==
  /\ Unlogged
  /\ handlers' = handlers \cup Scheduled
  /\ IF done'[Root] /\ ~done[Root]
     THEN ahead' = handlers' \/ (ahead' = handlers /\ OnlyCancels)
     ELSE ahead' = ahead \cap handlers
  /\ Exited' => /\ state' = state
                /\ \/ main' = main /\ Exited
                   \/ /\ (done[Root] /\ ahead = {}) \/ (main = "new" /\ cancelled[Root])
                      /\ main' = "success" => AllSuccess(Root, state)

LEMMA QuietAudit ==
  ASSUME Audited, RunInv, RunInv', AuditInv, [Next]_vars, QuietStep
  PROVE  AuditInv'
<1>1. log' = log /\ \A j \in Scripts : j \in Jobs
  BY DEF QuietStep, Unlogged, Scripts
<1>2. ahead' \subseteq handlers'
  BY DEF QuietStep, AuditInv
<1>3. ASSUME NEW j \in Scripts
      PROVE  Logged(j)' \/ j \in handlers'
  <2>1. CASE state'[j] = state[j]
    BY <1>1, <2>1 DEF QuietStep, AuditInv, Logged
  <2>2. CASE state'[j] # state[j]
    BY <2>2 DEF QuietStep, Scheduled, Logged, DEPENDENCY_STATES, DONE_STATES
  <2>3. QED
    BY <2>1, <2>2
<1>4. ASSUME NEW j \in Scripts, done'[Root]
      PROVE  Logged(j)' \/ j \in ahead'
  <2>1. CASE done[Root]
    <3>1. state'[j] = state[j]
      BY <1>1, <2>1, ScriptsDone, OutcomesLast DEF Audited
    <3>2. Logged(j) \/ j \in ahead \cap handlers
      BY <2>1 DEF AuditInv
    <3>3. ahead' = ahead \cap handlers
      BY <2>1 DEF QuietStep
    <3>4. QED
      BY <1>1, <3>1, <3>2, <3>3 DEF Logged
  <2>2. CASE ~done[Root] /\ ahead' = handlers'
    BY <1>3, <2>2
  <2>3. CASE ~done[Root] /\ ahead' = handlers /\ OnlyCancels
    <3>1. state'[j] = state[j] \/ state'[j] = "CANCELLED"
      BY <1>1, <2>3 DEF OnlyCancels
    <3>2. QED
      BY <1>1, <2>3, <3>1 DEF AuditInv, Logged, DEPENDENCY_STATES
  <2>4. QED
    BY <1>4, <2>1, <2>2, <2>3 DEF QuietStep
<1>5. ASSUME NEW j \in Scripts, Exited'
      PROVE  Logged(j)'
  <2>1. state' = state /\ (Logged(j) \/ (main = "new" /\ cancelled[Root]))
    BY <1>5 DEF QuietStep, AuditInv
  <2>2. main = "new" => state[j] \notin DEPENDENCY_STATES
    BY <1>1 DEF RunInv, TreeInv, ContractInv, JobContract, DEPENDENCY_STATES
  <2>3. QED
    BY <1>1, <2>1, <2>2 DEF Logged
<1>6. QED
  BY <1>2, <1>3, <1>4, <1>5 DEF AuditInv

\* A handler records what it finds.
LEMMA HandlerAudit ==
  ASSUME Audited, RunInv, AuditInv, NEW j \in Scripts, StatusEventHandler(j)
  PROVE  AuditInv'
<1>1. /\ log' = [log EXCEPT ![j] = state[j]] /\ log \in [Scripts -> STATES \cup {NoRecord}]
      /\ handlers' = (handlers \ {j}) \cup Scheduled
      /\ ahead' = IF done'[Root] /\ ~done[Root] THEN handlers' ELSE ahead \ {j}
      /\ main = "running" /\ main' = main
  BY DEF StatusEventHandler, SaveStatus, Schedules, RunInv, RCubicTypeOK, AuditInv
<1>2. OnlyCancels /\ (done[Root] => done'[Root])
  <2>1. TypeOK /\ Root \in Trees
    BY TopologyAssumption DEF RunInv, TreeInv, TopologyAssumption
  <2>2. CASE CancelTree(Root, {})
    BY <2>1, <2>2, CancelsOnly DEF CancelTree
  <2>3. CASE UNCHANGED <<state, notify, cancelled, done>>
    BY <2>3 DEF OnlyCancels
  <2>4. QED
    BY <2>2, <2>3 DEF StatusEventHandler
<1>3. ASSUME NEW k \in Scripts, Logged(k) \/ k = j
      PROVE  Logged(k)'
  <2>1. k \in Jobs /\ (state'[k] = state[k] \/ state'[k] = "CANCELLED")
    BY <1>2 DEF OnlyCancels, Scripts
  <2>2. log'[k] = IF k = j THEN state[k] ELSE log[k]
    BY <1>1
  <2>3. QED
    BY <1>3, <2>1, <2>2 DEF Logged, DEPENDENCY_STATES
<1>4. ~Exited'
  BY <1>1 DEF Exited, Outcomes
<1>5. \A k \in Scripts : Logged(k)' \/ k \in handlers'
  BY <1>1, <1>3 DEF AuditInv
<1>6. ahead' \subseteq handlers'
  BY <1>1 DEF AuditInv
<1>7. ASSUME NEW k \in Scripts, done'[Root]
      PROVE  Logged(k)' \/ k \in ahead'
  BY <1>1, <1>3, <1>5, <1>7 DEF AuditInv
<1>8. QED
  BY <1>4, <1>5, <1>6, <1>7 DEF AuditInv

LEMMA StepIsQuiet ==
  ASSUME Audited, RunInv, AuditInv, [RCubicNext]_rcVars,
         \A j \in Scripts : ~StatusEventHandler(j)
  PROVE  QuietStep
<1>1. FlatTree /\ Trees = {Root} /\ "timeout" \notin Requests
  BY TopologyAssumption, UnforcedFlat DEF Audited, Undisturbed, Unforced
<1>2. CASE RunIsDoneEvent
  <2>1. PICK t \in Trees : IsDoneEvent(t)
    BY <1>2 DEF RunIsDoneEvent
  <2>2. OnlyCancels
    <3>1. CancelTree(Root, {Root}) \/ state' = state
      BY <1>1, <2>1 DEF IsDoneEvent
    <3>2. TypeOK
      BY DEF RunInv, TreeInv
    <3>3. QED
      BY <3>1, <3>2, CancelsOnly DEF OnlyCancels
  <2>3. ~Exited'
    BY <1>2, <2>1 DEF RunIsDoneEvent, IsDoneEvent, Exited, Outcomes
  <2>4. QED
    BY <1>2, <2>2, <2>3 DEF RunIsDoneEvent, Schedules, QuietStep
<1>3. CASE RunAbort
  <2>1. Abort
    BY <1>3 DEF RunAbort, InterruptStart, Audited
  <2>2. ~Exited'
    BY <2>1 DEF Abort, Exited, Outcomes
  <2>3. QED
    BY <1>3, <2>2 DEF RunAbort, Schedules, QuietStep
<1>4. CASE RunJobs
  <2>1. main' = "running" /\ done' = done
    <3>1. ASSUME NEW j \in Jobs, NEW g \in Greenlets, GreenletStep(j, g), main = "running"
          PROVE  main' = "running" /\ done' = done
      <4>1. ~EnterSubtree(j, g) /\ ~LeaveSubtree(j, g) /\ ~LastIteration(j, g)
            /\ ~NextIteration(j, g)
        BY <1>1 DEF FlatTree, EnterSubtree, LeaveSubtree, LastIteration, NextIteration,
                    SubtreeReturned
      <4>2. QED
        BY <3>1, <4>1
        DEF GreenletStep, WaitForParent, SkipUndefined, AbandonStart, BlockOnResources,
            GiveUpResources, StartScript, FailToStart, ScriptExits
    <3>2. ASSUME NEW j \in Jobs, Reschedule(j) \/ ManualOverride(j), main = "running"
          PROVE  main' = "running" /\ done' = done
      BY <3>2 DEF Reschedule, ManualOverride
    <3>3. QED
      BY <1>4, <3>1, <3>2 DEF RunJobs
  <2>2. ~Exited'
    BY <2>1 DEF Exited, Outcomes
  <2>3. QED
    BY <1>4, <2>1, <2>2 DEF RunJobs, Schedules, QuietStep
<1>5. CASE RunMain
  <2>1. done' = done /\ state' = state
    BY <1>1, <1>5 DEF RunMain, RunTree, StartJobs, RunReturns, RunTimesOut
  <2>2. ASSUME Exited'
        PROVE  /\ (done[Root] /\ ahead = {}) \/ (main = "new" /\ cancelled[Root])
               /\ main' = "success" => AllSuccess(Root, state)
    <3>1. main' # "running"
      BY <2>2 DEF Exited, Outcomes
    <3>2. CASE RunTree
      BY <3>1, <3>2 DEF RunTree, ExitWith
    <3>3. CASE RunReturns /\ ahead = {}
      BY <3>3 DEF RunReturns, ExitWith
    <3>4. QED
      BY <1>1, <1>5, <3>2, <3>3 DEF RunMain, RunTimesOut
  <2>3. QED
    BY <1>5, <2>1, <2>2 DEF RunMain, Schedules, QuietStep
<1>6. CASE UNCHANGED rcVars
  <2>1. /\ Scheduled = {} /\ Unlogged
        /\ UNCHANGED <<state, done, main, handlers, ahead>>
    BY <1>6 DEF rcVars, vars, Scheduled, Unlogged
  <2>2. QED
    BY <2>1 DEF QuietStep, AuditInv, Exited
<1>7. QED
  BY <1>2, <1>3, <1>4, <1>5, <1>6 DEF RCubicNext

LEMMA AuditInit ==
  ASSUME RCubicInit
  PROVE  AuditInv
<1>1. \A j \in Scripts : state[j] \in {"IDLE", "UNDEF"}
  BY DEF RCubicInit, Init, Scripts
<1>2. ahead = {} /\ ~done[Root] /\ ~Exited
  BY TopologyAssumption DEF TopologyAssumption, RCubicInit, Init, Exited, Outcomes
<1>3. QED
  BY <1>1, <1>2 DEF AuditInv, Logged, DEPENDENCY_STATES

LEMMA AuditStep ==
  ASSUME Audited, RunInv, RunInv', AuditInv, [Next]_vars, [RCubicNext]_rcVars
  PROVE  AuditInv'
BY StepIsQuiet, QuietAudit, HandlerAudit

LEMMA RunInvariant == Audited /\ RCubicSpec => []RunInv /\ [][Next]_vars
<1>1. Audited => AbortsFromOutside /\ Unforced /\ Audited'
  BY DEF Audited, Undisturbed, Unforced, AbortsFromOutside, Scripts
<1>2. TreeInv /\ RCubicTypeOK /\ Yielded => RunInv
  BY DEF RunInv
<1>3. RCubicInit => Yielded
  BY DEF RCubicInit, Init, Yielded
<1>4. Audited /\ TreeInv /\ Yielded /\ [Next]_vars => Yielded'
  <2>1. Audited => FlatTree /\ "signal" \notin Requests
    BY TopologyAssumption, UnforcedFlat DEF Audited, Undisturbed
  <2>2. TreeInv => TypeOK
    BY DEF TreeInv
  <2>3. QED
    BY <2>1, <2>2, TopologyAssumption, NoneInterrupted
<1>5. QED
  BY <1>1, <1>2, <1>3, <1>4, ProcessExecutes, ContractInvariant, RCubicTypeCorrect, PTL
  DEF Spec, RCubicSpec

\* When the run ends, the log has the outcome of every script.  A handler is a
\* callback that reads the state late, but those that matter were scheduled before the
\* wake-up of the main greenlet.  Code: statusEventHandler against the return of
\* tree.run().
THEOREM AuditCompletes == Audited /\ RCubicSpec => []AuditComplete
<1>1. AuditInv => AuditComplete
  <2> SUFFICES ASSUME AuditInv, main \in {"success", "failed"}, NEW j \in Scripts,
                      state[j] \in {"SUCCESSFULL", "FAILED"}
               PROVE  log[j] = state[j]
    BY DEF AuditComplete
  <2>1. Exited
    BY DEF Exited, Outcomes
  <2>2. QED
    BY <2>1 DEF AuditInv, Logged, DEPENDENCY_STATES
<1>2. Audited => Audited'
  BY DEF Audited, Undisturbed, Unforced, AbortsFromOutside, Scripts
<1>3. Audited /\ RunInv /\ RunInv' /\ AuditInv /\ [Next]_vars /\ [RCubicNext]_rcVars => AuditInv'
  BY AuditStep
<1>4. RCubicInit => AuditInv
  BY AuditInit
<1>5. QED
  BY <1>1, <1>2, <1>3, <1>4, RunInvariant, PTL DEF RCubicSpec

-----------------------------------------------------------------------------
(* A successful run records the groups that were installed.                *)

LEMMA SuccessBefore ==
  ASSUME NEW g \in Groups, OnlyCancels, GroupSuccess(g, state')
  PROVE  GroupSuccess(g, state)
BY DEF OnlyCancels, GroupSuccess, ScriptsOf, Scripts, SUCCESS_STATES

LEMMA QuietGroups ==
  ASSUME Audited, RunInv, AuditInv, GroupInv, [Next]_vars, QuietStep
  PROVE  GroupInv'
<1>1. groupLog' = groupLog /\ handlers' = handlers \cup Scheduled
  BY DEF QuietStep, Unlogged
<1>2. ASSUME NEW g \in Groups, Ran(g) # {}, GroupSuccess(g, state')
      PROVE  Recorded(g)' \/ Ran(g) \cap handlers' # {}
  <2>1. CASE GroupSuccess(g, state)
    BY <1>1, <1>2, <2>1 DEF GroupInv, Recorded
  <2>2. CASE ~GroupSuccess(g, state)
    <3>1. PICK j \in ScriptsOf(g) : state[j] \notin SUCCESS_STATES
      BY <2>2 DEF GroupSuccess
    <3>2. state'[j] \in SUCCESS_STATES
      BY <1>2 DEF GroupSuccess
    <3>3. j \in Jobs /\ j \in Scripts
      BY DEF ScriptsOf, Scripts
    <3>4. state[j] # "UNDEF"
      BY <3>1 DEF SUCCESS_STATES
    <3>5. j \notin Undefined
      BY <3>3, <3>4 DEF RunInv, TreeInv, StageInv, StageOf
    <3>6. j \in Scheduled
      BY <3>1, <3>2, <3>3 DEF Scheduled, SUCCESS_STATES, DONE_STATES
    <3>7. QED
      BY <1>1, <3>5, <3>6 DEF Ran
  <2>3. QED
    BY <2>1, <2>2
<1>3. ASSUME NEW g \in Groups, Ran(g) # {}, GroupSuccess(g, state'), done'[Root]
      PROVE  Recorded(g)' \/ Ran(g) \cap ahead' # {}
  <2>1. CASE done[Root]
    <3>1. ASSUME NEW j \in ScriptsOf(g)
          PROVE  state'[j] = state[j]
      <4>1. j \in Scripts /\ j \in Jobs
        BY DEF ScriptsOf, Scripts
      <4>2. QED
        BY <2>1, <4>1, ScriptsDone, OutcomesLast DEF Audited
    <3>2. GroupSuccess(g, state)
      BY <1>3, <3>1 DEF GroupSuccess
    <3>3. ahead' = ahead
      BY <2>1 DEF QuietStep, AuditInv
    <3>4. QED
      BY <1>1, <1>3, <2>1, <3>2, <3>3 DEF GroupInv, Recorded
  <2>2. CASE ~done[Root] /\ ahead' = handlers'
    BY <1>2, <1>3, <2>2
  <2>3. CASE ~done[Root] /\ ahead' = handlers /\ OnlyCancels
    BY <1>1, <1>3, <2>3, SuccessBefore DEF GroupInv, Recorded
  <2>4. QED
    BY <1>3, <2>1, <2>2, <2>3 DEF QuietStep
<1>4. ASSUME NEW g \in Groups, Ran(g) # {}, main' = "success"
      PROVE  Recorded(g)'
  <2>1. Exited'
    BY <1>4 DEF Exited, Outcomes
  <2>2. \A j \in Jobs : TreeOf[j] = Root
    BY TopologyAssumption DEF TopologyAssumption, Audited, Undisturbed, Unforced
  <2>3. CASE main' = main
    BY <1>1, <1>4, <2>3 DEF GroupInv, Recorded
  <2>4. CASE main = "new" /\ cancelled[Root] /\ AllSuccess(Root, state)
    <3>1. PICK j \in Jobs : j \notin Undefined
      BY <1>4 DEF Ran, ScriptsOf, Scripts
    <3>2. state[j] \notin {"UNDEF", "IDLE"} /\ state[j] \in {"IDLE", "UNDEF", "CANCELLED"}
      BY <2>4, <3>1 DEF RunInv, TreeInv, StageInv, StageOf, ContractInv, JobContract
    <3>3. QED
      BY <2>2, <2>4, <3>2 DEF AllSuccess, JobsOf, SUCCESS_STATES
  <2>5. CASE done[Root] /\ ahead = {} /\ AllSuccess(Root, state)
    <3>1. GroupSuccess(g, state)
      BY <2>2, <2>5 DEF GroupSuccess, ScriptsOf, Scripts, AllSuccess, JobsOf
    <3>2. QED
      BY <1>1, <1>4, <2>5, <3>1 DEF GroupInv, Recorded
  <2>6. QED
    BY <1>4, <2>1, <2>3, <2>4, <2>5 DEF QuietStep
<1>5. \A g \in Groups : Recorded(g)' => Ran(g) # {}
  BY <1>1 DEF GroupInv, Recorded
<1>6. QED
  BY <1>2, <1>3, <1>4, <1>5 DEF GroupInv, Ran, ScriptsOf, Scripts

LEMMA HandlerGroups ==
  ASSUME Audited, RunInv, AuditInv, GroupInv, NEW j \in Scripts, StatusEventHandler(j)
  PROVE  GroupInv'
<1>1. /\ SaveStatus(j) /\ groupLog \in [Groups -> SUBSET STATES]
      /\ handlers' = (handlers \ {j}) \cup Scheduled
      /\ ahead' = IF done'[Root] /\ ~done[Root] THEN handlers' ELSE ahead \ {j}
      /\ main' = "running"
  BY DEF StatusEventHandler, Schedules, RunInv, RCubicTypeOK, AuditInv
<1>2. OnlyCancels
  <2>1. TypeOK
    BY DEF RunInv, TreeInv
  <2>2. CancelTree(Root, {}) \/ state' = state
    BY DEF StatusEventHandler
  <2>3. QED
    BY <2>1, <2>2, CancelsOnly DEF OnlyCancels
<1>3. j \in Jobs /\ GroupOf[j] \in Groups /\ j \in ScriptsOf(GroupOf[j])
      /\ (state[j] = "UNDEF" <=> j \in Undefined)
  BY RCubicAssumption DEF Scripts, ScriptsOf, RunInv, TreeInv, StageInv, StageOf
<1>4. \A g \in Groups :
        groupLog'[g] = IF g = GroupOf[j] /\ state[j] \in DONE_STATES /\ GroupSuccess(g, state)
                       THEN groupLog[g] \cup {state[j]} ELSE groupLog[g]
  BY <1>1 DEF SaveStatus
<1>5. ASSUME NEW g \in Groups, Recorded(g)
      PROVE  Recorded(g)'
  BY <1>4, <1>5 DEF Recorded
<1>6. ASSUME NEW g \in Groups, GroupSuccess(g, state), j \in Ran(g)
      PROVE  Recorded(g)'
  <2>1. GroupOf[j] = g /\ state[j] \in SUCCESS_STATES /\ state[j] # "UNDEF"
    BY <1>3, <1>6 DEF GroupSuccess, ScriptsOf, Ran
  <2>2. state[j] = "SUCCESSFULL" /\ state[j] \in DONE_STATES
    BY <2>1 DEF SUCCESS_STATES, DONE_STATES
  <2>3. QED
    BY <1>4, <1>6, <2>1, <2>2 DEF Recorded
<1>7. ASSUME NEW g \in Groups, Ran(g) # {}, GroupSuccess(g, state')
      PROVE  /\ Recorded(g)' \/ Ran(g) \cap handlers' # {}
             /\ done'[Root] => Recorded(g)' \/ Ran(g) \cap ahead' # {}
  <2>1. GroupSuccess(g, state)
    BY <1>2, <1>7, SuccessBefore
  <2>2. CASE j \in Ran(g)
    BY <1>6, <2>1, <2>2
  <2>3. CASE j \notin Ran(g)
    <3>1. Recorded(g)' \/ Ran(g) \cap handlers' # {}
      BY <1>1, <1>5, <1>7, <2>1, <2>3 DEF GroupInv
    <3>2. CASE done[Root]
      BY <1>1, <1>5, <1>7, <2>1, <2>3, <3>1, <3>2 DEF GroupInv
    <3>3. CASE ~done[Root]
      BY <1>1, <3>1, <3>3
    <3>4. QED
      BY <3>1, <3>2, <3>3
  <2>4. QED
    BY <2>2, <2>3
<1>8. ASSUME NEW g \in Groups, Recorded(g)'
      PROVE  Ran(g) # {}
  <2>1. CASE Recorded(g)
    BY <2>1 DEF GroupInv
  <2>2. CASE ~Recorded(g)
    <3>1. g = GroupOf[j] /\ state[j] = "SUCCESSFULL"
      BY <1>4, <1>8, <2>2 DEF Recorded
    <3>2. QED
      BY <1>3, <3>1 DEF Ran
  <2>3. QED
    BY <2>1, <2>2
<1>9. QED
  BY <1>1, <1>7, <1>8 DEF GroupInv, Ran, ScriptsOf, Scripts

\* A run that reports success leaves every group recorded as SUCCESSFULL of which a
\* script ran, and no other: the handler of the last such script that the hub calls
\* finds the group successful, and the hub calls it before the run ends.  Code:
\* statusEventHandler and saveStatus, which isNewestVersion of the next run reads.
THEOREM SuccessRecordsGroups == Audited /\ RCubicSpec => []GroupsRecorded
<1>1. GroupInv => GroupsRecorded
  BY DEF GroupInv, GroupsRecorded, Recorded, Ran
<1>2. Audited => Audited'
  BY DEF Audited, Undisturbed, Unforced, AbortsFromOutside, Scripts
<1>3. /\ Audited /\ RunInv /\ RunInv' /\ AuditInv /\ GroupInv
      /\ [Next]_vars /\ [RCubicNext]_rcVars
      => AuditInv' /\ GroupInv'
  BY AuditStep, StepIsQuiet, QuietGroups, HandlerGroups
<1>4. RCubicInit => AuditInv /\ GroupInv
  <2> SUFFICES ASSUME RCubicInit
               PROVE  GroupInv
    BY AuditInit
  <2>1. ~done[Root] /\ main = "new" /\ \A g \in Groups : ~Recorded(g)
    BY TopologyAssumption DEF TopologyAssumption, RCubicInit, Init, Recorded
  <2>2. ASSUME NEW g \in Groups, Ran(g) # {}
        PROVE  ~GroupSuccess(g, state)
    <3>1. PICK j \in ScriptsOf(g) : j \notin Undefined /\ j \in Jobs
      BY <2>2 DEF Ran, ScriptsOf, Scripts
    <3>2. QED
      BY <3>1 DEF GroupSuccess, RCubicInit, Init, SUCCESS_STATES
  <2>3. QED
    BY <2>1, <2>2 DEF GroupInv
<1>5. QED
  BY <1>1, <1>2, <1>3, <1>4, RunInvariant, PTL DEF RCubicSpec
=============================================================================
