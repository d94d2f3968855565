------------------------------- MODULE ExecTree -------------------------------
(***************************************************************************)
(* The dependency executor of RCubic/exectree.py: one run of a tree of     *)
(* jobs, with the iterated subtrees that some of its jobs manage.          *)
(*                                                                         *)
(* The program is one operating-system thread of gevent greenlets.  A      *)
(* greenlet gives up the thread only where it blocks (Event.wait, sleep, a *)
(* process's output), so an action below is the code between two such      *)
(* points.  The hub resumes runnable greenlets and runs event callbacks in *)
(* an order the program does not control: the order of the actions is left *)
(* open.                                                                   *)
(*                                                                         *)
(* Only a signal gets between: its handler, which cancels the tree, runs   *)
(* in the middle of whatever the thread is doing.  Inside a start, past    *)
(* the test that would have stopped it, that cuts the action in two: see   *)
(* InterruptStart.  Elsewhere the handler has the effect it has before or  *)
(* after the action, which Abort models, except that inside advance() it   *)
(* may leave jobs RESET that end as CANCELLED here; nothing starts them.   *)
(*                                                                         *)
(* How a job gets its resources is modelled in ExecResource; here a job    *)
(* that needs some is BLOCKED until it got them or has used up its         *)
(* attempts, whichever the environment chooses.                            *)
(***************************************************************************)
EXTENDS Naturals, Sequences, FiniteSets

CONSTANTS
  Jobs,           \* every ExecJob of the tree and of its subtrees
  Trees,          \* the tree and its subtrees
  Root,           \* the tree bin/rcubic runs
  TreeOf,         \* TreeOf[j]: the tree job j was added to
  SubtreeOf,      \* SubtreeOf[j]: the tree j manages, or NoTree if j runs a script
  NoTree,
  ParentDeps,     \* ParentDeps[j]: j's dependencies, in the order of tree.deps
  Undefined,      \* jobs with jobpath "-"
  MustComplete,   \* jobs with mustcomplete set
  WithResources,  \* jobs with a non-empty list of resources
  WaitSuccess,    \* trees with waitsuccess set
  ArgCount,       \* ArgCount[t]: length of t's iterator, 0 if t has none
  MaxGreenlets,   \* bound: greenlets of one job alive at a time
  CanFail,        \* jobs whose script may exit with a non-zero status
  CanRaise,       \* jobs whose script may fail to be started (OSError of Popen)
  Requests        \* which of the outside requests the environment makes

STATES == {"IDLE", "RUNNING", "SUCCESSFULL", "FAILED", "CANCELLED", "UNDEF",
           "RESET", "BLOCKED"}
DEPENDENCY_STATES == {"SUCCESSFULL", "FAILED"}
DONE_STATES == {"SUCCESSFULL", "FAILED", "CANCELLED", "UNDEF"}
SUCCESS_STATES == {"SUCCESSFULL", "UNDEF"}
ERROR_STATES == {"FAILED", "CANCELLED"}

Greenlets == 1..MaxGreenlets

(***************************************************************************)
(* What a greenlet of a job is doing: nothing (there is none), runnable in *)
(* _parent_wait, blocked there, interrupted after its test of the job's    *)
(* state, blocked in _acquire_resources, waiting for its script to exit,   *)
(* or in its subtree's run().                                              *)
(***************************************************************************)
Places == {"none", "ready", "waiting", "checked", "acquiring", "script", "subtree"}

Outcomes == {"success", "failed", "orphaned"}

JobsOf(t) == {j \in Jobs : TreeOf[j] = t}

\* Bound: subtrees nest one deep.
Subtrees(t) == IF t = Root THEN Trees \ {Root} ELSE {}

ASSUME TopologyAssumption ==
  /\ Root \in Trees
  /\ NoTree \notin Trees
  /\ TreeOf \in [Jobs -> Trees]
  /\ SubtreeOf \in [Jobs -> (Trees \ {Root}) \cup {NoTree}]
  /\ ParentDeps \in [Jobs -> Seq([parent : Jobs, state : DEPENDENCY_STATES])]
  /\ \A j \in Jobs : \A i \in 1..Len(ParentDeps[j]) :
       TreeOf[ParentDeps[j][i].parent] = TreeOf[j]
  /\ \A j \in Jobs : SubtreeOf[j] # NoTree => TreeOf[j] = Root
  /\ Undefined \subseteq Jobs
  /\ ArgCount \in [Trees -> Nat]
  /\ MaxGreenlets \in Nat \ {0}

VARIABLES
  state,      \* state[j]: j.state
  events,     \* events[j]: the events of j a dependency may wait for that are set
  pc,         \* pc[j][g]: what greenlet g of j is doing
  at,         \* at[j][g]: the dependency greenlet g of j waits for, or checks next
  linked,     \* the trees whose _is_done_event is linked to their jobs' events
  notify,     \* the trees whose _is_done_event the hub has still to call
  cancelled,  \* cancelled[t]: t.cancelled
  done,       \* done[t]: t.done_event
  run,        \* run[t]: t.iterator.run
  main        \* the main greenlet: "new", "running" in tree.run(), or exited

vars == <<state, events, pc, at, linked, notify, cancelled, done, run, main>>

-----------------------------------------------------------------------------
(* The tree's predicates over a given assignment st of states to jobs.     *)

AllSuccess(t, st) == \A j \in JobsOf(t) : st[j] \in SUCCESS_STATES

\* is_done() finds nothing left to wait for.
Complete(t, st, cancel) ==
  \A j \in JobsOf(t) \cap MustComplete :
    /\ st[j] \in DONE_STATES
    /\ ~cancel[t] /\ t \in WaitSuccess => st[j] \in SUCCESS_STATES

Orphan(j) == ParentDeps[j] = <<>>

Exhausted(t) == ArgCount[t] > 0 /\ run[t] >= ArgCount[t]

-----------------------------------------------------------------------------
(* Events.  A set of pairs <<job, state>> stands for the events a step     *)
(* sets.  Setting one makes the greenlets that wait for it runnable, for   *)
(* good: that the event is cleared before they run does not stop them.     *)

\* Slip: a job already done is not woken, though its greenlet still waits.
WakesIfUndone(fired, j, g) ==
  /\ state[j] \notin DONE_STATES
  /\ pc[j][g] = "waiting"
  /\ LET d == ParentDeps[j][at[j][g]] IN <<d.parent, d.state>> \in fired

Wakes(fired, j, g) ==
  /\ pc[j][g] = "waiting"
  /\ LET d == ParentDeps[j][at[j][g]] IN <<d.parent, d.state>> \in fired

Woken(places, fired) ==
  [j \in Jobs |-> [g \in Greenlets |->
     IF Wakes(fired, j, g) THEN "ready" ELSE places[j][g]]]

WokenAt(index, fired) ==
  [j \in Jobs |-> [g \in Greenlets |->
     IF Wakes(fired, j, g) THEN at[j][g] + 1 ELSE index[j][g]]]

EventsWith(flags, fired) ==
  [j \in Jobs |-> flags[j] \cup {s \in DEPENDENCY_STATES : <<j, s>> \in fired}]

\* Every event of a linked tree's jobs that is set schedules _is_done_event.
Notified(st, fired) ==
  {TreeOf[j] : j \in {k \in Jobs : \/ st[k] # state[k]
                                   \/ \E s \in DEPENDENCY_STATES : <<k, s>> \in fired}}

\* The state setter: it sets the event only when the state changes.
FiredBy(j, s) == IF state[j] = s THEN {} ELSE {<<j, s>>}

(***************************************************************************)
(* A step of greenlet g of j that sets j's state to s, the events fired,   *)
(* and goes on to place p.                                                 *)
(***************************************************************************)
JobStep(j, g, s, fired, p) ==
  LET st == [state EXCEPT ![j] = s] IN
  /\ state' = st
  /\ events' = EventsWith(events, fired)
  /\ pc' = Woken([pc EXCEPT ![j][g] = p], fired)
  /\ at' = WokenAt(at, fired)
  /\ notify' = notify \cup (Notified(st, fired) \cap linked)

-----------------------------------------------------------------------------
(* Starting jobs.                                                          *)

FreeGreenlets(j) == {g \in Greenlets : pc[j][g] = "none"}

AnyFree(j) == CHOOSE g \in FreeGreenlets(j) : TRUE

SpawnedPc(S) ==
  [j \in Jobs |-> IF j \in S THEN [pc[j] EXCEPT ![AnyFree(j)] = "ready"] ELSE pc[j]]

\* Slip: dependencies counted from zero.
SpawnedAtZero(S) ==
  [j \in Jobs |-> IF j \in S THEN [at[j] EXCEPT ![AnyFree(j)] = 0] ELSE at[j]]

SpawnedAt(S) ==
  [j \in Jobs |-> IF j \in S THEN [at[j] EXCEPT ![AnyFree(j)] = 1] ELSE at[j]]

\* Slip: undefined jobs count as done whatever they depend on.
ShortCircuitsAny(j, st) == st[j] = "UNDEF"

ShortCircuits(j, st) == st[j] = "UNDEF" /\ Orphan(j)

\* The jobs of t for which start() spawns a greenlet.
Spawning(t, st) ==
  {j \in JobsOf(t) : ~ShortCircuits(j, st) /\ st[j] # "SUCCESSFULL"}

(***************************************************************************)
(* t.run() up to its sleep: link the callbacks, which schedules one for    *)
(* the event of each job's own state, and start every job.  st and flags   *)
(* are the jobs' states and events when it is called, and greenlet g of m, *)
(* if there is one, is the subtree manager that calls it.                  *)
(***************************************************************************)
StartJobs(t, st, flags, places) ==
  LET fired == {<<j, "SUCCESSFULL">> : j \in {k \in JobsOf(t) : ShortCircuits(k, st)}}
  IN  /\ \A j \in Spawning(t, st) : FreeGreenlets(j) # {}
      /\ state' = st
      /\ events' = EventsWith(flags, fired)
      /\ pc' = Woken(places, fired)
      /\ at' = WokenAt(SpawnedAt(Spawning(t, st)), fired)
      /\ linked' = linked \cup {t}
      /\ notify' = notify \cup {t} \cup (Notified(st, fired) \cap linked)

-----------------------------------------------------------------------------
(* Cancelling.                                                             *)

\* The trees t.cancel() marks: t and its subtrees, those already marked aside.
Cancels(t) ==
  IF cancelled[t] THEN {} ELSE {t} \cup {u \in Subtrees(t) : ~cancelled[u]}

\* Slip: jobs that have not been started keep their state.
StatesCancelledBlocked(C) ==
  [j \in Jobs |-> IF TreeOf[j] \in C /\ state[j] = "BLOCKED" THEN "CANCELLED" ELSE state[j]]

\* ExecJob.cancel() of every job of the trees in C.
StatesCancelled(C) ==
  [j \in Jobs |-> IF TreeOf[j] \in C /\ state[j] # "RUNNING" /\ state[j] \notin DONE_STATES
                  THEN "CANCELLED" ELSE state[j]]

FlagsCancelled(C) == [t \in Trees |-> cancelled[t] \/ t \in C]

\* Slip: cancel() releases run() at once.
CancelTreeReturns(t, completed) ==
  LET C  == Cancels(t)
      st == StatesCancelled(C)
  IN  /\ state' = st
      /\ cancelled' = FlagsCancelled(C)
      /\ done' = [u \in Trees |-> done[u] \/ u \in completed \/ u \in C]
      /\ notify' = (notify \ completed) \cup (Notified(st, {}) \cap linked)

\* Slip: cancel() leaves it to the events to notice that nothing is left.
CancelTreeSilently(t, completed) ==
  LET C  == Cancels(t)
      st == StatesCancelled(C)
  IN  /\ state' = st
      /\ cancelled' = FlagsCancelled(C)
      /\ done' = [u \in Trees |-> done[u] \/ u \in completed]
      /\ notify' = (notify \ completed) \cup (Notified(st, {}) \cap linked)

(***************************************************************************)
(* t.cancel(): every tree marked ends with is_done(), which sets the       *)
(* done_event of a tree that has nothing left to wait for.                 *)
(***************************************************************************)
CancelTree(t, completed) ==
  LET C  == Cancels(t)
      st == StatesCancelled(C)
      cf == FlagsCancelled(C)
  IN  /\ state' = st
      /\ cancelled' = cf
      /\ done' = [u \in Trees |-> \/ done[u]
                                  \/ u \in completed
                                  \/ u \in C /\ Complete(u, st, cf)]
      /\ notify' = (notify \ completed) \cup (Notified(st, {}) \cap linked)

-----------------------------------------------------------------------------
Init ==
  /\ state = [j \in Jobs |-> IF j \in Undefined THEN "UNDEF" ELSE "IDLE"]
  /\ events = [j \in Jobs |-> {}]
  /\ pc = [j \in Jobs |-> [g \in Greenlets |-> "none"]]
  /\ at = [j \in Jobs |-> [g \in Greenlets |-> 1]]
  /\ linked = {}
  /\ notify = {}
  /\ cancelled = [t \in Trees |-> FALSE]
  /\ done = [t \in Trees |-> FALSE]
  /\ run = [t \in Trees |-> 0]
  /\ main = "new"

-----------------------------------------------------------------------------
(* The greenlets of the jobs: ExecJob._run.                                *)

\* Slip: a dependency is met once its parent is done, whatever the outcome.
UnmetAnyOutcome(j, g) ==
  {i \in at[j][g]..Len(ParentDeps[j]) : events[ParentDeps[j][i].parent] = {}}

Unmet(j, g) ==
  {i \in at[j][g]..Len(ParentDeps[j]) :
     LET d == ParentDeps[j][i] IN d.state \notin events[d.parent]}

\* No greenlet has been interrupted: the thread is free for others.
Yielded == \A j \in Jobs, g \in Greenlets : pc[j][g] # "checked"

\* _parent_wait() blocks on the first dependency whose event is not set.
WaitForParent(j, g) ==
  /\ pc[j][g] = "ready"
  /\ Unmet(j, g) # {}
  /\ pc' = [pc EXCEPT ![j][g] = "waiting"]
  /\ at' = [at EXCEPT ![j][g] = CHOOSE i \in Unmet(j, g) : \A k \in Unmet(j, g) : i <= k]
  /\ UNCHANGED <<state, events, linked, notify, cancelled, done, run, main>>

ParentsMet(j, g) == pc[j][g] = "ready" /\ Unmet(j, g) = {}

\* A job without a script has nothing to do once its parents are done.
SkipUndefined(j, g) ==
  /\ ParentsMet(j, g)
  /\ state[j] = "UNDEF"
  /\ JobStep(j, g, "UNDEF", {<<j, "SUCCESSFULL">>}, "none")
  /\ UNCHANGED <<linked, cancelled, done, run, main>>

\* A job cancelled or overridden while it waited is not started.
AbandonStart(j, g) ==
  /\ ParentsMet(j, g)
  /\ state[j] \in DONE_STATES \ {"UNDEF"}
  /\ JobStep(j, g, state[j], {}, "none")
  /\ UNCHANGED <<linked, cancelled, done, run, main>>

\* The job's state has been looked at and does not stop the start.
PassesCheck(j, g) == ParentsMet(j, g) /\ state[j] \notin DONE_STATES

BlockOnResources(j, g) ==
  /\ PassesCheck(j, g) \/ pc[j][g] = "checked"
  /\ j \in WithResources
  /\ JobStep(j, g, "BLOCKED", {}, "acquiring")
  /\ UNCHANGED <<linked, cancelled, done, run, main>>

\* All attempts to reserve the resources failed.
GiveUpResources(j, g) ==
  /\ pc[j][g] = "acquiring"
  /\ JobStep(j, g, "FAILED", {<<j, "FAILED">>}, "none")
  /\ UNCHANGED <<linked, cancelled, done, run, main>>

\* Slip: the state is not looked at again after the wait for the parents.
AdmittedUnseen(j, g) ==
  \/ pc[j][g] = "acquiring"
  \/ pc[j][g] = "checked" /\ j \notin WithResources
  \/ ParentsMet(j, g) /\ state[j] # "UNDEF" /\ j \notin WithResources

\* The job has everything it waited for: it turns RUNNING in this step, whatever
\* became of its state while it was acquiring or interrupted.
Admitted(j, g) ==
  \/ pc[j][g] = "acquiring"
  \/ pc[j][g] = "checked" /\ j \notin WithResources
  \/ PassesCheck(j, g) /\ j \notin WithResources

\* ExecIter.argument is out of range once the iterator is exhausted.
StartRaises(j) == j \in CanRaise \/ Exhausted(TreeOf[j])

StartScript(j, g) ==
  /\ Admitted(j, g)
  /\ SubtreeOf[j] = NoTree
  /\ ~Exhausted(TreeOf[j])
  /\ JobStep(j, g, "RUNNING", {}, "script")
  /\ UNCHANGED <<linked, cancelled, done, run, main>>

\* The exception ends the greenlet; the finally clause returns the resources
\* and nothing sets the state.
FailToStart(j, g) ==
  /\ Admitted(j, g)
  /\ SubtreeOf[j] = NoTree
  /\ StartRaises(j)
  /\ JobStep(j, g, "RUNNING", {}, "none")
  /\ UNCHANGED <<linked, cancelled, done, run, main>>

ScriptExits(j, g) ==
  /\ pc[j][g] = "script"
  /\ \E s \in {"SUCCESSFULL"} \cup (IF j \in CanFail THEN {"FAILED"} ELSE {}) :
       JobStep(j, g, s, FiredBy(j, s), "none")
  /\ UNCHANGED <<linked, cancelled, done, run, main>>

-----------------------------------------------------------------------------
(* A greenlet that manages a subtree: ExecTree.iterrun and what _run does  *)
(* with its result.                                                        *)

SubtreeOutcome(j) ==
  IF AllSuccess(SubtreeOf[j], state) THEN "SUCCESSFULL" ELSE "FAILED"

EnterSubtree(j, g) ==
  LET t  == SubtreeOf[j]
      st == [state EXCEPT ![j] = "RUNNING"]
  IN  /\ Admitted(j, g)
      /\ t # NoTree
      /\ ~Exhausted(t)
      /\ ~cancelled[t]
      /\ StartJobs(t, st, events, [SpawnedPc(Spawning(t, st)) EXCEPT ![j][g] = "subtree"])
      /\ UNCHANGED <<cancelled, done, run, main>>

\* The subtree's run() has returned: at once because the subtree is marked
\* cancelled, or once its done_event is set.
SubtreeReturned(j, g) ==
  /\ SubtreeOf[j] # NoTree
  /\ \/ Admitted(j, g) /\ ~Exhausted(SubtreeOf[j]) /\ cancelled[SubtreeOf[j]]
     \/ pc[j][g] = "subtree" /\ done[SubtreeOf[j]]

MayAdvance(t) == ArgCount[t] > 0 /\ AllSuccess(t, state)

\* The manager's job ends with the subtree's outcome: there is no iterator, it
\* is exhausted, or the iteration that ended was not a success.
LeaveSubtree(j, g) ==
  /\ \/ SubtreeReturned(j, g) /\ ~MayAdvance(SubtreeOf[j])
     \/ SubtreeOf[j] # NoTree /\ Admitted(j, g) /\ Exhausted(SubtreeOf[j])
  /\ JobStep(j, g, SubtreeOutcome(j), {<<j, SubtreeOutcome(j)>>}, "none")
  /\ UNCHANGED <<linked, cancelled, done, run, main>>

\* Slip: done_event stays set from the iteration before.
AdvanceStillDone(t) ==
  /\ run' = [run EXCEPT ![t] = @ + 1]
  /\ cancelled' = [cancelled EXCEPT ![t] = FALSE]
  /\ UNCHANGED done

\* advance() up to the reset of the jobs.
Advance(t) ==
  /\ run' = [run EXCEPT ![t] = @ + 1]
  /\ done' = [done EXCEPT ![t] = FALSE]
  /\ cancelled' = [cancelled EXCEPT ![t] = FALSE]

\* Slip: one iteration short.
LastIterationEarly(j, g) ==
  LET t == SubtreeOf[j] IN
  /\ SubtreeReturned(j, g)
  /\ MayAdvance(t)
  /\ run[t] + 2 >= ArgCount[t]
  /\ Advance(t)
  /\ JobStep(j, g, "SUCCESSFULL", {<<j, "SUCCESSFULL">>}, "none")
  /\ UNCHANGED <<linked, main>>

LastIteration(j, g) ==
  LET t == SubtreeOf[j] IN
  /\ SubtreeReturned(j, g)
  /\ MayAdvance(t)
  /\ run[t] + 1 >= ArgCount[t]
  /\ Advance(t)
  /\ JobStep(j, g, "SUCCESSFULL", {<<j, "SUCCESSFULL">>}, "none")
  /\ UNCHANGED <<linked, main>>

\* reset() of every job of t, which leaves an undefined job's events set.
ResetStates(t, st) ==
  [j \in Jobs |-> IF TreeOf[j] = t /\ st[j] # "UNDEF" THEN "RESET" ELSE st[j]]

ResetEvents(t) ==
  [j \in Jobs |-> IF TreeOf[j] = t /\ state[j] # "UNDEF" THEN {} ELSE events[j]]

\* Slip: one iteration too many.
NextIterationTooFar(j, g) ==
  LET t  == SubtreeOf[j]
      st == ResetStates(t, [state EXCEPT ![j] = "RUNNING"])
  IN  /\ SubtreeReturned(j, g)
      /\ MayAdvance(t)
      /\ run[t] + 1 <= ArgCount[t]
      /\ Advance(t)
      /\ StartJobs(t, st, ResetEvents(t),
                   [SpawnedPc(Spawning(t, st)) EXCEPT ![j][g] = "subtree"])
      /\ UNCHANGED main

NextIteration(j, g) ==
  LET t  == SubtreeOf[j]
      st == ResetStates(t, [state EXCEPT ![j] = "RUNNING"])
  IN  /\ SubtreeReturned(j, g)
      /\ MayAdvance(t)
      /\ run[t] + 1 < ArgCount[t]
      /\ Advance(t)
      /\ StartJobs(t, st, ResetEvents(t),
                   [SpawnedPc(Spawning(t, st)) EXCEPT ![j][g] = "subtree"])
      /\ UNCHANGED main

-----------------------------------------------------------------------------
(* The hub, the main greenlet and the requests from outside.               *)

\* _is_done_event of t, called by the hub for events set since.
IsDoneEvent(t) ==
  /\ Yielded
  /\ t \in notify
  /\ IF Complete(t, state, cancelled)
     THEN CancelTree(t, {t})
     ELSE /\ notify' = notify \ {t}
          /\ UNCHANGED <<state, cancelled, done>>
  /\ UNCHANGED <<events, pc, at, linked, run, main>>

\* What Rcubic.run() makes of the tree when its run() has returned.
ExitWith(st, cancel) ==
  main' = IF ~Complete(Root, st, cancel) THEN "orphaned"
          ELSE IF AllSuccess(Root, st) THEN "success" ELSE "failed"

RunTree ==
  /\ main = "new"
  /\ IF cancelled[Root]
     THEN /\ ExitWith(state, cancelled)
          /\ UNCHANGED <<state, events, pc, at, linked, notify>>
     ELSE /\ main' = "running"
          /\ StartJobs(Root, state, events, SpawnedPc(Spawning(Root, state)))
  /\ UNCHANGED <<cancelled, done, run>>

RunReturns ==
  /\ Yielded
  /\ main = "running"
  /\ done[Root]
  /\ ExitWith(state, cancelled)
  /\ UNCHANGED <<state, events, pc, at, linked, notify, cancelled, done, run>>

\* jobExpireTime has passed.
RunTimesOut ==
  /\ Yielded
  /\ "timeout" \in Requests
  /\ main = "running"
  /\ CancelTree(Root, {})
  /\ ExitWith(state', cancelled')
  /\ UNCHANGED <<events, pc, at, linked, run>>

\* The REST request "cancel", or SIGTERM or SIGINT between two actions.
Abort ==
  /\ "abort" \in Requests
  /\ main \in {"new", "running"}
  /\ ~cancelled[Root]
  /\ CancelTree(Root, {})
  /\ UNCHANGED <<events, pc, at, linked, run, main>>

(***************************************************************************)
(* SIGTERM or SIGINT while greenlet g of j is starting its job, after it   *)
(* has looked at the job's state and before it sets it: the job is marked  *)
(* like the others, done_event may be set, and then the start goes on.     *)
(***************************************************************************)
InterruptStart(j, g) ==
  /\ Yielded
  /\ "signal" \in Requests
  /\ ~cancelled[Root]
  /\ PassesCheck(j, g)
  /\ CancelTree(Root, {})
  /\ pc' = [pc EXCEPT ![j][g] = "checked"]
  /\ UNCHANGED <<events, at, linked, run, main>>

\* Slip: jobs that were cancelled, whose greenlet may still wait, start again too.
RescheduleCancelled(j) ==
  /\ Yielded
  /\ "reschedule" \in Requests
  /\ state[j] \in ERROR_STATES
  /\ FreeGreenlets(j) # {}
  /\ state' = [state EXCEPT ![j] = "RESET"]
  /\ events' = [events EXCEPT ![j] = {}]
  /\ pc' = SpawnedPc({j})
  /\ at' = SpawnedAt({j})
  /\ notify' = notify \cup (Notified(state', {}) \cap linked)
  /\ UNCHANGED <<linked, cancelled, done, run, main>>

\* The REST request "reschedule": reset() and start() of a failed job.
Reschedule(j) ==
  /\ Yielded
  /\ "reschedule" \in Requests
  /\ state[j] = "FAILED"
  /\ FreeGreenlets(j) # {}
  /\ state' = [state EXCEPT ![j] = "RESET"]
  /\ events' = [events EXCEPT ![j] = {}]
  /\ pc' = SpawnedPc({j})
  /\ at' = SpawnedAt({j})
  /\ notify' = notify \cup (Notified(state', {}) \cap linked)
  /\ UNCHANGED <<linked, cancelled, done, run, main>>

\* The REST request "manualOverride".
ManualOverride(j) ==
  LET st    == [state EXCEPT ![j] = "SUCCESSFULL"]
      fired == {<<j, "SUCCESSFULL">>}
  IN  /\ Yielded
      /\ "override" \in Requests
      /\ state[j] \in ERROR_STATES
      /\ state' = st
      /\ events' = EventsWith(events, fired)
      /\ pc' = Woken(pc, fired)
      /\ at' = WokenAt(at, fired)
      /\ notify' = notify \cup (Notified(st, fired) \cap linked)
      /\ UNCHANGED <<linked, cancelled, done, run, main>>

-----------------------------------------------------------------------------
\* What was interrupted goes on before anything else runs.
GreenletStep(j, g) ==
  /\ Yielded \/ pc[j][g] = "checked"
  /\ \/ WaitForParent(j, g)
     \/ SkipUndefined(j, g)
     \/ AbandonStart(j, g)
     \/ BlockOnResources(j, g)
     \/ GiveUpResources(j, g)
     \/ StartScript(j, g)
     \/ FailToStart(j, g)
     \/ ScriptExits(j, g)
     \/ EnterSubtree(j, g)
     \/ LeaveSubtree(j, g)
     \/ LastIteration(j, g)
     \/ NextIteration(j, g)

\* Once the main greenlet has returned the process ends, and with it all others.
Exited == main \in Outcomes

Terminated == Exited /\ UNCHANGED vars

\* A step of a greenlet, whole or interrupted, of the hub, or of a REST handler.
RunningStep ==
  /\ main = "running"
  /\ \/ \E j \in Jobs, g \in Greenlets : GreenletStep(j, g) \/ InterruptStart(j, g)
     \/ \E t \in Trees : IsDoneEvent(t)
     \/ \E j \in Jobs : Reschedule(j) \/ ManualOverride(j)

Next ==
  \/ RunTree
  \/ RunReturns
  \/ RunTimesOut
  \/ Abort
  \/ RunningStep
  \/ Terminated

Spec == Init /\ [][Next]_vars
-----------------------------------------------------------------------------
(* Fairness.  The hub runs every runnable greenlet and every scheduled     *)
(* callback eventually, and the environment's scripts exit and resources   *)
(* are granted or given up.  Nothing obliges the outside to make a request *)
(* or an exception to be raised.                                           *)
Fairness ==
  /\ WF_vars(RunTree)
  /\ WF_vars(RunReturns)
  /\ \A t \in Trees : WF_vars(main = "running" /\ IsDoneEvent(t))
  /\ \A j \in Jobs, g \in Greenlets : WF_vars(main = "running" /\ GreenletStep(j, g))

FairSpec == Spec /\ Fairness

-----------------------------------------------------------------------------
StateTypeOK ==
  /\ state \in [Jobs -> STATES]
  /\ events \in [Jobs -> SUBSET DEPENDENCY_STATES]

GreenletTypeOK ==
  /\ pc \in [Jobs -> [Greenlets -> Places]]
  /\ at \in [Jobs -> [Greenlets -> Nat \ {0}]]
  /\ \A j \in Jobs, g \in Greenlets :
       pc[j][g] = "waiting" => at[j][g] \in 1..Len(ParentDeps[j])

HubTypeOK ==
  /\ linked \subseteq Trees
  /\ notify \subseteq linked
  /\ main \in {"new", "running"} \cup Outcomes

TreeTypeOK ==
  /\ cancelled \in [Trees -> BOOLEAN]
  /\ done \in [Trees -> BOOLEAN]
  /\ run \in [Trees -> Nat]

TypeOK == StateTypeOK /\ GreenletTypeOK /\ HubTypeOK /\ TreeTypeOK

Live(j, g) == pc[j][g] # "none"

\* A job is never executed twice at the same time: it has one greenlet at most,
\* and none when it has failed, so reschedule() cannot start a second one.
\* Code: start() is called by run(), and by reschedule() for a FAILED job only.
OneGreenlet ==
  \A j \in Jobs :
    /\ \A g, h \in Greenlets : Live(j, g) /\ Live(j, h) => g = h
    /\ state[j] = "FAILED" => \A g \in Greenlets : ~Live(j, g)

\* No script runs, and no subtree is entered, twice at the same time.
OneExecution ==
  \A j \in Jobs : \A g, h \in Greenlets :
    {pc[j][g], pc[j][h]} \subseteq {"checked", "acquiring", "script", "subtree"} => g = h

\* j has let the jobs that depend on its success go.
Passed(j) == "SUCCESSFULL" \in events[j]

\* A job runs only when every job it needs succeeded, and the order holds
\* through undefined jobs: one of them lets its children go only after all of
\* its own parents did.  Code: ExecJob._parent_wait and the UNDEF branches of
\* start() and _run.
DependencyOrder ==
  \A j \in Jobs :
    state[j] = "RUNNING" \/ (state[j] = "UNDEF" /\ Passed(j)) =>
      \A i \in 1..Len(ParentDeps[j]) :
        ParentDeps[j][i].state = "SUCCESSFULL" => Passed(ParentDeps[j][i].parent)

\* The jobs whose success j waits for.
Direct(j) ==
  {ParentDeps[j][i].parent : i \in {k \in 1..Len(ParentDeps[j]) :
                                      ParentDeps[j][k].state = "SUCCESSFULL"}}

\* A set that holds what j waits for, and what every undefined job in it waits for.
Covers(S, j) ==
  \A k \in {j} \cup (S \cap Undefined) : Direct(k) \subseteq S

\* The jobs with a script that j needs, undefined jobs skipped over: those that are
\* in every such set.
Prerequisites ==
  [j \in Jobs |->
     {p \in Jobs \ Undefined : \A S \in SUBSET Jobs : Covers(S, j) => p \in S}]

\* A script runs only while every job it needs, undefined jobs skipped over, has
\* succeeded ("self.assertTrue(jst < j5st)", tests/test_exectree.py:569).
RunsInOrder ==
  \A j \in Jobs :
    state[j] = "RUNNING" => \A p \in Prerequisites[j] : state[p] = "SUCCESSFULL"

\* No wake-up is lost: a greenlet blocked on a dependency waits for an event
\* that is not set.  Code: ExecDependency.wait against the state setter.
NoLostWakeup ==
  \A j \in Jobs, g \in Greenlets :
    pc[j][g] = "waiting" =>
      LET d == ParentDeps[j][at[j][g]] IN d.state \notin events[d.parent]

\* Completion is not missed: when nothing is left to wait for, either the
\* done_event is set or the hub has still an _is_done_event to call.
\* Code: is_done() runs only from the linked events and from cancel().
CompletionNoticed ==
  main = "running" /\ Complete(Root, state, cancelled) => done[Root] \/ Root \in notify

\* "Will prevent new jobs from starting" (exectree.py:1151): once the root is
\* cancelled no job turns RUNNING.  For runs without reschedule requests.
NoStartAfterCancel ==
  [][\A j \in Jobs :
       cancelled[Root] /\ state[j] # "RUNNING" => state'[j] # "RUNNING"]_vars

\* Once the tree is cancelled, no job is started any more, overrides included, but one
\* that an operator has rescheduled, one that was acquiring resources and the one whose
\* start a signal's cancel() fell into.  Code: the checks after _parent_wait().
CancelStopsStarts ==
  [][\A j \in Jobs :
       cancelled[Root] /\ state[j] # "RUNNING" /\ state'[j] = "RUNNING" =>
         \/ state[j] = "RESET"
         \/ \E g \in Greenlets : pc[j][g] \in {"checked", "acquiring"}]_vars

\* A job that is RUNNING has a greenlet that will end it.  Code: what _run does
\* before its script is started, the iterator's argument included, may raise.
RunningIsAlive ==
  \A j \in Jobs :
    state[j] = "RUNNING" => \E g \in Greenlets : pc[j][g] \in {"script", "subtree"}

\* A manager's job succeeds, overrides aside, only when every iteration of its
\* subtree has run and succeeded.  Code: iterrun, advance, is_success.
AllIterationsRan ==
  \A j \in Jobs :
    SubtreeOf[j] # NoTree /\ state[j] = "SUCCESSFULL" =>
      run[SubtreeOf[j]] = ArgCount[SubtreeOf[j]] /\ AllSuccess(SubtreeOf[j], state)

\* The jobs that run() should wait for and that are not done.
Unfinished == {j \in JobsOf(Root) \cap MustComplete : state[j] \notin DONE_STATES}

\* When run() returns, timeout and reschedule aside, it leaves no unfinished job behind
\* ("exited with orphaned jobs", bin/rcubic:618) but one whose start a signal fell into:
\* cancel() counts that job as done, and one job only.  Code: abort, is_done and _run.
LeavesAtMostOne ==
  Exited => /\ Unfinished # {} => "signal" \in Requests
            /\ \A j, k \in Unfinished : j = k

\* After abort() the run ends: with every script that runs exiting, no timeout
\* is needed.  Code: ExecTree.cancel and is_done.
AbortEndsRun == (cancelled[Root] /\ main = "running") ~> Exited

\* A run in which no script fails or is cancelled, and that does not time out,
\* ends and reports success.  Code: every wake-up from a script's exit to the
\* return of run(), through the managers of subtrees and their iterations.
RunSucceeds ==
  <>(\/ main \in {"success", "orphaned"}
     \/ \E j \in Jobs : SubtreeOf[j] = NoTree /\ state[j] \in ERROR_STATES)
=============================================================================
