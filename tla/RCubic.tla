-------------------------------- MODULE RCubic --------------------------------
(***************************************************************************)
(* The process of bin/rcubic around one run of its tree: to every script's *)
(* job it links statusEventHandler, which writes the audit log (LogToDB)   *)
(* and, in session mode, cancels the tree when a script fails.             *)
(*                                                                         *)
(* The handler runs as a callback of the hub, some time after the event    *)
(* was set, and reads the job's state then.  The hub calls callbacks in    *)
(* the order they were scheduled, of which one consequence is kept here:   *)
(* those that wait when done_event is set run before the main greenlet     *)
(* resumes.                                                                *)
(***************************************************************************)
EXTENDS ExecTree

CONSTANTS
  Groups,       \* the selected RCubicGroups
  NoGroup,
  GroupOf,      \* GroupOf[j]: the group of j's script, NoGroup for a placeholder
  SessionMode   \* opts.sessionMode

NoRecord == "NONE"

Scripts == {j \in Jobs : GroupOf[j] # NoGroup}

ScriptsOf(g) == {j \in Scripts : GroupOf[j] = g}

ASSUME RCubicAssumption ==
  /\ NoGroup \notin Groups
  /\ GroupOf \in [Jobs -> Groups \cup {NoGroup}]
  /\ SessionMode \in BOOLEAN

VARIABLES
  handlers,  \* the jobs whose statusEventHandler the hub has still to call
  ahead,     \* those of them that were scheduled before the main greenlet's wake-up
  log,       \* log[j]: the status last saved for script j
  groupLog   \* groupLog[g]: the statuses saved for group g as a whole

rcVars == <<vars, handlers, ahead, log, groupLog>>

\* Slip: placeholders count among the scripts of a group.
GroupSuccessWithHoles(g, st) ==
  \A j \in Jobs : GroupOf[j] \in {g, NoGroup} => st[j] = "SUCCESSFULL"

\* RCubicGroup.is_success.
GroupSuccess(g, st) == \A j \in ScriptsOf(g) : st[j] \in SUCCESS_STATES

\* The handler is linked to the events of DONE_STATES.  An event that is already
\* set when it is linked, as UNDEF is for a script left out, schedules it too.
RCubicInit ==
  /\ Init
  /\ handlers = Scripts \cap Undefined
  /\ ahead = {}
  /\ log = [j \in Scripts |-> NoRecord]
  /\ groupLog = [g \in Groups |-> {}]

\* Slip: the handler is linked to the events of success only.
ScheduledBySuccess ==
  {j \in Scripts : "SUCCESSFULL" \in events'[j] \ events[j]}

\* The scripts for which this step sets an event of DONE_STATES.
Scheduled ==
  {j \in Scripts : \/ state'[j] # state[j] /\ state'[j] \in DONE_STATES
                   \/ ~(events'[j] \subseteq events[j])}

(***************************************************************************)
(* What a step schedules, with waiting the handlers that will run before   *)
(* the main greenlet if this step is the one that sets done_event.         *)
(***************************************************************************)
Schedules(pending, waiting) ==
  /\ handlers' = pending \cup Scheduled
  /\ ahead' = IF done'[Root] /\ ~done[Root] THEN waiting ELSE ahead \cap pending

\* Slip: every success records the script's group.
SaveStatusEarly(j) ==
  /\ log' = [log EXCEPT ![j] = state[j]]
  /\ groupLog' = IF state[j] \in SUCCESS_STATES
                 THEN [groupLog EXCEPT ![GroupOf[j]] = @ \cup {state[j]}]
                 ELSE groupLog

\* saveStatus for the script and, when it completes its group, for the group.
SaveStatus(j) ==
  /\ log' = [log EXCEPT ![j] = state[j]]
  /\ groupLog' = IF state[j] \in DONE_STATES /\ GroupSuccess(GroupOf[j], state)
                 THEN [groupLog EXCEPT ![GroupOf[j]] = @ \cup {state[j]}]
                 ELSE groupLog

\* Slip: session mode cancels nothing.
StatusEventHandlerNoCancel(j) ==
  /\ Yielded
  /\ main = "running"
  /\ j \in handlers
  /\ SaveStatus(j)
  /\ UNCHANGED vars
  /\ Schedules(handlers \ {j}, handlers')

StatusEventHandler(j) ==
  /\ Yielded
  /\ main = "running"
  /\ j \in handlers
  /\ SaveStatus(j)
  /\ IF SessionMode /\ state[j] = "FAILED"
     THEN CancelTree(Root, {})
     ELSE UNCHANGED <<state, notify, cancelled, done>>
  /\ UNCHANGED <<events, pc, at, linked, run, main>>
  /\ Schedules(handlers \ {j}, handlers')

Unlogged == UNCHANGED <<log, groupLog>>

\* is_done() sets done_event before it cancels what is left.
RunIsDoneEvent ==
  /\ main = "running"
  /\ \E t \in Trees : IsDoneEvent(t)
  /\ Schedules(handlers, handlers)
  /\ Unlogged

\* cancel() marks the jobs before is_done() sets done_event.
RunAbort ==
  /\ \/ Abort
     \/ main = "running" /\ \E j \in Jobs, g \in Greenlets : InterruptStart(j, g)
  /\ Schedules(handlers, handlers')
  /\ Unlogged

RunJobs ==
  /\ main = "running"
  /\ \/ \E j \in Jobs, g \in Greenlets : GreenletStep(j, g)
     \/ \E j \in Jobs : Reschedule(j) \/ ManualOverride(j)
  /\ Schedules(handlers, handlers)
  /\ Unlogged

RunMain ==
  /\ \/ RunTree
     \/ RunReturns /\ ahead = {}
     \/ RunTimesOut
  /\ Schedules(handlers, handlers)
  /\ Unlogged

RCubicNext ==
  \/ \E j \in Scripts : StatusEventHandler(j)
  \/ RunIsDoneEvent
  \/ RunAbort
  \/ RunJobs
  \/ RunMain
  \/ Exited /\ UNCHANGED rcVars

RCubicSpec == RCubicInit /\ [][RCubicNext]_rcVars

-----------------------------------------------------------------------------
(* Fairness: as in ExecTree, with the handlers among the callbacks.        *)
RCubicFairness ==
  /\ WF_rcVars(RunTree /\ RunMain)
  /\ WF_rcVars(RunReturns /\ RunMain)
  /\ \A t \in Trees : WF_rcVars(IsDoneEvent(t) /\ RunIsDoneEvent)
  /\ \A j \in Scripts : WF_rcVars(StatusEventHandler(j))
  /\ \A j \in Jobs, g \in Greenlets : WF_rcVars(GreenletStep(j, g) /\ RunJobs)

RCubicFairSpec == RCubicSpec /\ RCubicFairness

-----------------------------------------------------------------------------
RCubicTypeOK ==
  /\ TypeOK
  /\ handlers \subseteq Scripts
  /\ ahead \subseteq Scripts
  /\ log \in [Scripts -> STATES \cup {NoRecord}]
  /\ groupLog \in [Groups -> SUBSET STATES]

\* When the run ends, timeouts, operators' requests and interrupted starts aside, the
\* audit log has the outcome of every script of the root that ran.  Code:
\* statusEventHandler, a callback that reads the state late, against the return from
\* tree.run().
AuditComplete ==
  main \in {"success", "failed"} =>
    \A j \in Scripts :
      TreeOf[j] = Root /\ state[j] \in {"SUCCESSFULL", "FAILED"} => log[j] = state[j]

\* A successful run saves SUCCESSFULL, the one status the next run's groupSelect asks
\* for, of exactly the groups of which some script was not left out: a script that was
\* may be the last to report, and saves UNDEF.  Code: statusEventHandler and saveStatus,
\* against isNewestVersion (bin/rcubic:416).
GroupsRecorded ==
  main = "success" =>
    \A g \in Groups : "SUCCESSFULL" \in groupLog[g] <=> ~(ScriptsOf(g) \subseteq Undefined)

\* Anything is saved of a group as a whole only if all its scripts have succeeded or
\* were left out.
GroupRecordSound ==
  \A g \in Groups : groupLog[g] # {} => GroupSuccess(g, state)

\* "If any script fails, the rest will be canceled automatically, so as to not
\* block automated builds" (README.rst:294): the run ends without a timeout.
SessionEnds ==
  \A j \in Scripts : (main = "running" /\ state[j] = "FAILED") ~> Exited
=============================================================================
