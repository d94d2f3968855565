# RCubic in TLA+

RCubic runs shell scripts whose headers say which scripts they depend on, asks
people to check in, and shows archived runs on a page. This project models the
program's core in TLA+, checks it with TLC on small instances and proves parts
of it with TLAPS for all of them.

## 1. Inventory

### The parts of the system

| Part | State it keeps | Operations | Modelled in |
|---|---|---|---|
| Executor, `RCubic/exectree.py`: `ExecTree`, `ExecJob`, `ExecDependency`, `ExecIter` | a state and eight events per job, greenlets, `cancelled`, `done_event`, the iterator's `run` | `run`, `start`, `_run`, `cancel`, `reset`, `is_done`, `advance`, `iterrun`, `is_success` | ExecTree |
| Resources, `ExecResource` and `ExecJob._acquire_resources` | `used` per resource, the local list `reserved` and `attempt` per acquiring job | `reserve`, `release`, attempts, back-off | ExecResource |
| The process, `bin/rcubic`: class `Rcubic` | the tree, the audit log's rows, `sessionMode` | `run`, `statusEventHandler`, `abort`, `reschedule`, `manualOverride` | RCubic (and ExecTree) |
| REST interface, `RESTCommunicator.py` | the registered functions | `reschedule`, `manualOverride`, `cancel` requests | the requests are actions of ExecTree |
| Script parser, `RCubicScript.py` | scripts, groups, parameters | `read_dirs`, `add_script`, `_glob_expand`, `init_tree`; header parsing | ScriptParser; the last not |
| Audit log and versions, `RCubicUtilities.py` | the SQLite table | `saveStatus`, `groupStatus`, `verComp` | `saveStatus` in RCubic, `verComp` and `isNewestVersion` in GroupSelect; the rest not |
| Tree validation and queries, `exectree.py` | none | `add_job`, `add_dep`, `validate`, `validate_nocycles`, `stems`, `leaves` | ScriptParser, but for `leaves` |
| Check-in service, `RCubicServer.py`, `BotClient.py`, `bin/rcubic-checkin` | events by check-in and user, the port | `requestUserCheckIn`, `checkInUser`, `registerCheckIn`, `unRegisterCheckIn` | CheckIn |
| Selection widgets, `web/js/select2.js` | the element's value, the choices, the dropdown's results and highlight, the search field, pending timers | mouse, keyboard, focus and timer handlers; `open`, `close`, `onSelect`, `unselect` and so on | Select2, as the archive page uses it |
| Archive page, `web/archive.html` | the table of runs | `intersect()` at every change event | ArchivePage |
| Daemon, `daemon.py` | the pid file | `start`, `stop`, `restart` | not modelled |
| Notification, `RCubicNotification.py` | none | sends mail | not modelled |
| XML, DOT and JSON output, command line tools, other pages, syntax highlighter | none that the execution reads | | not modelled |

### How they interact

`Rcubic` builds one tree from the scripts, links `statusEventHandler` to the
events of every script's job and calls `tree.run()`. That links
`_is_done_event` to every job's events, starts a greenlet per job, and sleeps on
`done_event`. A greenlet waits for the events of the jobs it depends on, acquires
its resources, runs its script, and sets its job's state, whose setter sets the
event of the new state. A job with a subtree calls `iterrun()` of that tree in
its own greenlet. Requests arrive over REST and change states from other
greenlets, or as signals. Everything shares one thread: a greenlet loses control to
another only where it blocks, so the code between two such points is atomic among
greenlets, and the order in which greenlets and callbacks are resumed is what the
models leave open. A signal's handler does not wait for that: `abort`, installed
with `signal.signal` (bin/rcubic:685), runs between any two bytecodes of the thread
and cancels the tree there. Without `--foreground` all this happens in the child that
`RcubicDaemon` (bin/rcubic:629, 695) forks first.

A script may run `rcubic-checkin`, a process of its own: it starts a server, asks a
chat bot to put a question to users, and waits for the bot to call its
`checkInUser`. Several such processes share the bot and the ports of the host.

The archive page turns its `<select>` elements into widgets. A widget's handlers
change the element and trigger its change event, and `intersect()`, the listener of
all of them, reads the elements and fills the table. Handlers and timers run one
at a time, in an order the user and the browser choose.

### What is hard, and what correctness means

* Order: a script starts only after all it needs, placeholders (jobpath `-`)
  included: `DependencyOrder`, `RunsInOrder`.
* Wake-ups and completion: no greenlet sleeps on an event that is set, and `run()`
  returns when nothing is left: `NoLostWakeup`, `CompletionNoticed`,
  `AbortEndsRun`, `RunSucceeds`, `LeavesAtMostOne`.
* Cancellation against jobs in every phase, by a signal in the middle of a start
  included, and operators' requests against live greenlets: `NoStartAfterCancel`, `CancelStopsStarts`, `OneGreenlet`,
  `OneExecution`.
* Iteration: every iteration runs once and in full: `AllIterationsRan`,
  `RunningIsAlive`.
* Resources: limits, time-outs, back-off, crossed orders: `TypeOK` (the counts),
  `LastLimitRespected`, `NothingLeaks`, `WaitingEnds`.
* The audit log, written by callbacks that read the state late:
  `AuditComplete`, `GroupsRecorded`, `GroupRecordSound`, `SessionEnds`.
* Check-ins, with confirmations that are late, lost, repeated or reach another
  process: `SuccessIsEarned`, `RequestEnds`.
* The widgets: state kept in five places (element, choices, rows, classes,
  timers) that handlers, timers and fade-outs change in any order:
  `SelectionAgrees`, `ResultsAgree`, `OneHighlight`, `ClickSelects`,
  `OutsideClickCloses`; and the table behind them: `KeepsFilter`.
* The start, which must not depend on the order in which directories are listed,
  nor accept a tree that cannot be run, nor refuse one that can:
  `GraphAsDeclared`, `AcceptedIsSound`, `RefusedForCause`, `StartDecides`; nor select a group by itself to install an older version:
  `AutoselectUpgrades`.

PROJECT.json lists each hazard at its line, with the properties that cover it.

## 2. Modules

| Module | What it is |
|---|---|
| ExecTree | the executor: jobs, events, greenlets, subtrees, requests |
| TreeContract | the abstract contract of one run: start in order, end, close (also in the middle of a start), settle, return |
| ExecTreeRefinement | the mapping under which a flat ExecTree implements TreeContract |
| RCubic | composes ExecTree with the process's handlers and audit log |
| ExecResource | counted resources and the jobs that acquire several of them |
| GroupSelect | operators: comparing versions, choosing the groups to install |
| ScriptParser | from groups and directories of scripts to a validated tree |
| CheckIn | check-in processes, the bot, the users and the network between them |
| Select2 | the selection widgets of one page |
| ArchivePage | composes Select2 with the page's table of runs |
| ArchiveFilter | what the archive page promises, without widgets |
| SampleTrees, MCExecTree, MCRCubic, MCExecResource, MCScriptParser, MCCheckIn, MCArchivePage | small instances for TLC |
| Positions | lemmas: a non-empty set of naturals has a first member |
| ExecTreeProofs | proofs about the executor alone: types, wake-ups, completion, one execution, order, iterations |
| ContractProofs | proofs that a flat tree implements TreeContract and leaves nothing behind but an interrupted start |
| RCubicProofs | proofs about the process: that it is an executor, and its audit log |
| ExecResourceProofs, CheckInProofs | proofs about the module of that name |
| ScriptParserProofs | proofs about ScriptParser and GroupSelect: which groups are selected, that the graph is the declared one, that what is accepted is a DAG, and that a well-formed release is accepted |
| Select2Proofs | proofs about Select2, and that ArchivePage implements ArchiveFilter |

In the models a definition whose comment begins with "Slip:" is not
part of the specification: it is the definition that follows it with one
plausible mistake, used to see that the properties notice.

### ExecTree and the code

* `state[j]`, `events[j]`: `ExecJob.state` and those of its events that
  dependencies wait for (`SUCCESSFULL`, `FAILED`); the others are only used for
  callbacks. The state setter fires the event of a state only when it differs;
  `_run` and `start` also set events directly, and both are kept apart.
* `pc[j][g]`, `at[j][g]`: what a greenlet of j is blocked in, and on which of
  the dependencies it waits. `start()` spawns a greenlet and does not look
  whether another one is alive, so a job may have several.
* `notify`: `rawlink` callbacks the hub has still to call. gevent calls a link
  of an event once per `set`, and at once (from the hub) if the event is set when
  it is linked, hence `StartJobs` schedules one: the event of each job's own
  state is set.
* `cancelled[t]`, `done[t]`, `run[t]`: the fields of the tree and its iterator.
* `main`: the main greenlet: in `tree.run()`, or exited with one of the three
  outcomes of `Rcubic.run`. When it exits the process ends.
* Setting an event makes the greenlets that wait for it runnable at that moment;
  a `clear()` before they run does not put them to sleep again, but
  `_parent_wait` continues with the next dependency: `Wakes`, `WokenAt`.
* `RunTimesOut`, `Abort`, `Reschedule`, `ManualOverride` are the requests from
  outside; CONSTANT `Requests` says which of them a run of TLC allows.
* `InterruptStart` is a signal in the middle of a start. `_run` tests the job's state
  (line 528) and, some bytecodes later, overwrites it (line 542, or in
  `_acquire_resources`). A `cancel()` in between marks the job like any other, counts
  it as done in `is_done`, and the start goes on: the greenlet is then at place
  "checked", and no other runs before it has gone on (`Yielded`), since only the
  signal's handler came between. Everywhere else the handler's effect is that of an
  `Abort` before or after the action it fell into: before the test, the job is not
  started; after the assignment, the job is RUNNING and left as is. Two places
  differ in something that no property sees: between the assignment and the
  test of `cancelled` in a subtree's `run()` the subtree returns at once, which is
  also what "checked" leads to; and in the middle of `advance()` jobs may be
  left RESET that the model ends as CANCELLED, and which nothing starts in either.

ExecResource is kept apart: in ExecTree a job that needs resources is
`BLOCKED` until the environment grants or refuses them. ExecResource has one
action per stretch of `_acquire_resources` between two blocking points. Its
`reserved` list is kept across attempts, as in the code.

RCubic conjoins ExecTree's actions with the handlers: `handlers` is the set of
`statusEventHandler` callbacks still to be called. The hub calls callbacks in the
order they were scheduled; `ahead` keeps the one consequence that matters, namely
that handlers scheduled before `done_event` was set run before `run()` returns.
`groupLog` has every status saved for a group: a script that was left out (UNDEF) may
be the last of its group to report, and then UNDEF is saved, which the next run's
`isNewestVersion` does not ask for, beside or instead of SUCCESSFULL, which it does.

ScriptParser is the start of the process from `groupSelect` up to the verdict of
`_validate`, with one step per directory listed and per dependency linked.

* `release` is what is on disk. A header is a record of what its fields say; a
  pattern is a name or a glob, of which only `Matches` is known. White- and
  blacklist are the header's `leftOut`, the file mode its `executable`, the
  iterator its number of `arguments`.
* `todo` holds the `add_dep` calls that the loops of `init_tree` are going to
  make, in their order; it can be computed beforehand since `_glob_expand` looks
  only at scripts. What a call does depends on `jobs` and `deps`, hence on the
  calls before it: it adds a dependency, makes a placeholder first, skips a
  duplicate, or raises.
* `_validate` draws the tree before it validates it. Drawing raises on any
  cycle of the root (`_gparent_compile` recurses for ever) and on a dependency
  between two subtrees that is drawn, so "has cycles" can be reported for subtrees
  only. The searches of the code are recursive functions, counted down from
  one more than the number of jobs where they may be endless. Subtrees may be
  nested to any depth.
* A directory is added to its group's list at once (`AddScripts`), since the names
  in a directory differ. A release has one element per group; the code would keep
  two elements of one group apart, each with a list of scripts of its own.
* GroupSelect has a version as the sequence of its parts and numbers; the letters
  `verComp` takes out are gone. `VerComp` says where its loop and its calls of itself
  stop: at the first place of the first part that decides. `Later` is the reference
  for its result.
* `InForce`, `Demands`, `DeclaredDeps`, `OneEntryDag` and `WellFormed` are not
  translated: they are the reference that the properties compare the outcome
  with, stated on the release alone.

### CheckIn and the code

* `pc[p]` is where a process is in `rcubic-checkin` and `requestUserCheckIn`. It
  gives up control in `getResponse()` ("requesting", then "answered") and in
  `joinall` ("waiting"); `confirmed` is which of its events are set.
* `received[p]` is `receivedCheckIns[name]`, from an address to an event. A user
  named twice has two events and one entry, as in the code. Addresses are
  `user@server`, `room/user` and `room`; `checkInUser` looks for the part before
  the slash first, then for the whole.
* The bot and the REST library are external: `BotAsks`, `Confirm`. A request may
  raise whether or not the bot has acted on it, and the bot remembers what it asked
  as long as it likes. A confirmation on the `wire` is delivered to whoever listens
  on its port then, any number of times, or lost. The bot is told `LPort`
  always, and the server listens on any port of `lrange`, as in `rcubic-checkin`.

### Select2, ArchivePage and the code

* A widget is a record; the methods of the widget are operators from its state to
  its next (`Close`, `Highlight`, `PostprocessResults`, `OnSelect`, `Unselect` and
  so on, under the names of the source), and an event handler is an action
  that applies them in the order of the code, nested events included: giving a
  field the focus runs the blur handler of the field that had it (`MoveFocus`).
* `openings` and `refocus` count the timers of `open()` and `focusSearch()` still
  to fire; `fading` holds the choices whose close link was clicked, removed
  by the fade-out's callback.
* `rows`, `selectable`, `disabled` and `lit` are the results and their three
  classes. The order of the rows is that of the options (`Position`).
* `text` is the search field: a word, after the space that `clearSearch` leaves or
  not; `keyval` is what the keydown handler remembered of it.
* `announced` is the element's value when it last triggered "change".
* ArchivePage conjoins each step with `intersect()` if it triggered a change; the
  page computes the table from the values after the handler, which is the same
  since nothing in a handler changes a value after its trigger.

## 3. Runs

Bounds: two greenlets alive per job (`MaxGreenlets`; `OneGreenlet` shows that a
flat tree needs one, and the bound guards only `start()`), subtrees nested one
deep, two iterations (the first and the last, hence one `advance` of each kind),
two attempts instead of 1000 (one retry that keeps what the first attempt left in
`reserved`, then giving up), limits of one, and of two for "default". The trees have
three to six jobs:
a chain through a placeholder, two parents, an error handler and an optional
job, a subtree, a job beside it; every branch of the modelled code is taken by
one of them.

| Run | Question | Answer |
|---|---|---|
| FlatSafety | under every request at any time, signals in the middle of a start included, do order, wake-ups, completion, cancellation hold in a flat tree with resources and scripts that fail or cannot be started? | yes |
| Loop | does an iterated subtree run every iteration in order, one execution at a time, and end well when nothing fails? | yes |
| Audit | does a run in normal mode, that may fail or be aborted, end with a complete log, and with SUCCESSFULL recorded of exactly the groups that the next run may skip? | yes |
| Session | in session mode, does a tree that may fail, be aborted or be interrupted in a start keep TreeContract, end after a failure, and leave nothing behind but the one script whose start was interrupted? | yes |
| Resources | do counts stay within the limits, does "default" bound the scripts that run, does nothing leak, does waiting end when jobs cross? | yes |
| Startup | is the tree the one declared, an accepted one sound, a sound one accepted, a version never lowered? | yes |
| CheckIn | does a check-in succeed only if everybody asked has confirmed, and always end? | yes |
| Archive | do the widgets show what is selected, do clicks select what they hit, and does the table always match the selection? | yes |
| BlockedRevived | is nothing started after a cancel, with a job that waits for resources? | no |
| LoopStaleUndefined | does order hold in a subtree's second iteration, with a placeholder in it? | no |
| SessionLoop | in session mode, does a failure end the run when there is an iterated subtree? | no |
| Oversubscribed | does a limit bound the number of jobs that run? | no, with jobs that need several resources |

The last four are findings: each checks what a docstring, a test or the
user's guide says, and TLC shows the steps that contradict it.

* BlockedRevived: `cancel()` marks a `BLOCKED` job `CANCELLED`, and
  `_acquire_resources` ends by setting the state to `IDLE` whatever it was. A signal
  has the same effect in the middle of a start: between `_run`'s test of the state
  (exectree.py:528) and its assignment of RUNNING (line 542) it cancels the tree and
  marks the job, and the assignment overwrites the mark. `CancelStopsStarts`, in
  FlatSafety, says what remains true: that one job, and a rescheduled or an acquiring
  one, are all that starts after a cancel.
* LoopStaleUndefined: `reset()` skips jobs in state `UNDEF`, so a placeholder's
  success event stays set from the iteration before and does not hold back the
  jobs behind it.
* SessionLoop: `advance()` clears a cancellation that came after the last job of
  an iteration ended; the root stays marked, so that a later `cancel()` returns
  at once and the subtree's jobs stay `RESET`. Nothing but the timeout can then
  end the run, so this one does not check for deadlock, which it is.
* Oversubscribed: what a failed attempt gave back stays in `reserved` and is given
  back a second time when the next attempt fails, freeing units others hold.

Startup's releases have three to five scripts in two groups, one of them with two
scripts whose order is open; dependencies on each other, on all (`*`) and on a
name no script has; all three phases; scripts left out; an iterated script with
up to three others inside it, two iterated scripts beside each other; overrides
of every subset of scripts with every choice of fullOverride. Three scripts are
what a cycle behind a stem needs, five what two subtrees with a script between
them need; and a subtree in a subtree, and two subtrees nested in each other only.
Versions have up to three parts of up to three numbers, one of them unreadable.

Audit runs in normal mode, whose log is a file that the next run reads (in session
mode it is `:memory:`), on three groups: one whose script is defined, one of which a
script was left out, the last to report, and one left out as a whole. Session runs
in session mode, where a failure cancels the tree and an incomplete job does not keep
`is_done` waiting: `sessionMode` turns `waitsuccess` off (bin/rcubic:129). These are the
modes' only differences in what is modelled, and neither tree has an error handler:
those are in FlatSafety. Session has signals; Audit has none, since a start that goes on
after the run was counted as over may end unrecorded.

In Resources every script has "default" at the end of its list, where
`RCubicScript` appends it (line 50), limited to two beside two other resources
limited to one. `LastLimitRespected` is about such a resource: nobody
reserves anything after it, so that it is never in a `reserved` list that is given back
twice, unlike the others, whose limits Oversubscribed shows broken. The runs of
ExecTree without resources are those of a configuration that limits none: a resource
that rcubic.xml does not limit is not among a job's (RCubicScript.py:275-281).

CheckIn has two processes, two users and two ports, and for each process any of
six requests: two names, one user, two, or one twice, asked each or in a room, or
anyone in a room; one port or a range. That is what it takes for two requests to
share a port one after the other, to run beside each other with one of them
listening elsewhere than the bot thinks, and for the name to be the same.

Archive has a widget with two options and one with one, one word to type
(which matches one option of the first), three archived runs, and at most one
timer of each kind pending per widget (`MaxTimers`): a handler that would start a
second one waits, so that two pending timers of one kind are left to the proofs,
which hold for any bound. Two options are what a stale index needs, one removed
while the other is shown; three take TLC over its time. The fade-outs have no
bound.

Things the models show that no run lists. `verComp` means to pad the shorter
version with zeros but never pads its second argument (it tests `len(b[0]) <
len(b[0])`), so that 1.2.1 counts as the same as an installed 1.2 and its group is
not selected; the opposite, a downgrade, is excluded by `AutoselectUpgrades`. The
user's guide says that the scripts of an `HDEP` must exist (README.rst:234), but a
placeholder that an `SDEP` or `CDEP` of a script met earlier has made for the missing
one is found by `add_dep`, and the sequence is accepted; in another order of the
listings it is not. The others are left undecided by the documents. A dependency stated twice (`HDEP` and `SDEP` on the same script,
or a glob and a name) ends the start with an AttributeError, and one that `CDEP`
and `PHASE` both ask for does so in one order of listing and not in the other. An
`SDEP` on a script of another subtree makes a placeholder of that name and
orders nothing. The entry-point script of the user's guide (`specialJobs` in the
template) is read by no code: any single stem is accepted as the entry.
`rcubic-checkin` tells the bot `lport` even if `lrange` made its server listen on
another port: confirmations then reach nobody, or another check-in. A user named
twice in one request is confirmed once, and the request fails at its time-out.
`--anyuser` without `--room` is ignored, and a confirmation that comes after its
request has ended raises a KeyError in the handler. On the archive page, two
dropdowns can be open at once, since a click in one container blurs only the
containers that are active, and a timer's focus can make an open one inactive; a
click elsewhere closes both. The text remembered at the first of two keys is
forgotten only when a key changes it, so that the results can be those of
another text; and a search field refilled with `clearSearch`'s space after Enter
matches nothing until the space is erased. Outside the models: `leaves()` of a tree returns the jobs that
do have children, and the loop of the JSON updater tests `_done`, which nothing
sets, so it runs until the process exits.

### Fairness

`FairSpec` of ExecTree assumes that the hub resumes every runnable greenlet and
calls every scheduled callback, which gevent's loop does, that scripts that were
started exit, and that a request for resources is answered in the end (granted
or given up after `max_attempts`). No request, failure or exception is ever
obliged to happen, nor the timeout. In ExecResource, waiting jobs are granted or
time out, sleeps end and scripts that hold resources exit; nobody is obliged to
start. A job that waits is granted its resource if that stays free (`Granted` has
a fairness condition of its own): the waiters of `reserve()` are woken by
`release()`. In CheckIn the process keeps running, a request to the bot returns or
raises, and `joinall`'s timeout strikes; nobody has to confirm, nor the network to
deliver. Select2 and ArchivePage are specified without fairness: they promise
safety only. ScriptParser's start is one sequential program: weak fairness of its
next step only says that it keeps running.

## 4. Proofs

Assumptions: those named in the modules (`TopologyAssumption`: dependencies stay
within a tree, subtrees are managed by jobs of the root; `ResourceAssumption`:
finitely many jobs, each with a non-empty list, limits natural or -1;
`CheckInAssumption`: a request names someone; `Select2Assumption`: the options of
all elements are finite in number and ordered; `ArchiveAssumption`: every option
stems from an archived run, as the page builds them).

* `TypeCorrect`: `Spec => []TypeOK` for every tree. `TypeOK` is inductive; the
  part that is not a matter of types is that a waiting greenlet's `at` is a
  dependency it has, and that `notify` stays within the linked trees.
* `WakeupsKept`: `Spec => []NoLostWakeup` for every tree. Each step's effect on
  waiting greenlets is one of three: it wakes exactly those whose event it fires
  (`Woken`), it only clears events, or it touches neither. With the type
  invariant that is inductive.
* `OneGreenletPerJob`: `FlatTree /\ Spec => []OneGreenlet`. The invariant says in
  addition that before `run()` there is no greenlet at all, and that a job is
  RUNNING or BLOCKED only with a greenlet; `start()` is then called for jobs
  without one only. `OneGreenletOfRoot` is the same of the root's own jobs in
  any tree.
* `CompletionAlwaysNoticed`: `Spec => []CompletionNoticed` for every tree and every
  request. `NoticedInv` adds that a running tree has its callbacks linked: every
  step that changes the state of a job of the root then schedules `_is_done_event`,
  and a `cancel()` calls `is_done` itself.
* `ExecutedOnce`, `AliveWhileRunning`: `OneExecution` and `RunningIsAlive` in flat
  trees, the second for `CanRaise = {}`, since a start that raises leaves a
  job RUNNING for good. `OnceInv`: a job is RUNNING while its greenlet executes it
  and, start failures aside, only then. `StageInv` ties the place a greenlet is
  in to its job: only a job with resources acquires any, only one with a subtree
  is in it.
* `CancelledStartsNothing`: `Spec => CancelStopsStarts`, an action property, for
  every tree and every request, signals included: a step that turns a job RUNNING was
  admitted, and what was admitted while the tree is cancelled was rescheduled, was
  acquiring, or had been interrupted after the test of its state.
* `IterationsComplete`, `IteratedOnce`, `IteratedAlive`: `AllIterationsRan`,
  `OneExecution` and `RunningIsAlive` for trees with iterated subtrees, under
  `Owned`: a subtree has one manager, as the parser makes it, and nobody overrides
  a job. Failures, reschedules, aborts and timeouts are allowed. `IterInv`, which
  TLC has checked on variants of Loop, has three parts. `StartedInv`: before its
  tree is started a job has no greenlet, a job with an outcome has none, any other
  at most one. `IteratedInv`: a subtree that was started and that its manager has
  left is cancelled or has succeeded, its iterator is used up only then, and a
  success is one of all iterations. `MarkedInv`: the tree is started once, and
  `done` implies `cancelled`. Together they say that `advance()` finds
  a subtree none of whose greenlets is alive, so that no iteration is
  counted twice or starts on top of another. The hypothesis about overrides is
  needed: one that revives the manager of a cancelled subtree while a greenlet of
  it still waits lets the next iteration start on top of that greenlet
  (the hazard at bin/rcubic:516).
* `DependenciesRespected`, `ScriptsRunInOrder`: `Settled /\ Spec => []DependencyOrder`
  and `[]RunsInOrder`. `Settled` is either a flat tree without both resources
  and overrides, or an `Owned` tree in whose subtrees undefined jobs
  need nothing. `OrderInv` says how far each greenlet has come: all parents it has
  passed are met, as is everything a job that succeeded or runs needs. It is kept
  because a success lasts until the whole tree is reset; a failure does so only
  where nobody reschedules, elsewhere the invariant is about successes (`Lasting`). Both
  restrictions were found in the attempt to prove it without them. With resources and
  overrides a job overridden while it acquires goes on, runs, may fail
  and be rescheduled, while its dependants were let go by the override. And the
  events of an undefined job of a subtree outlast the iteration, which is finding
  LoopStaleUndefined: where such a job needs nothing they are right in each one.
* `ReturnsComplete`: `Unforced /\ Spec => []LeavesAtMostOne`, where an `Unforced` tree
  has no subtrees and resources, and is neither rescheduled nor timed out. `ContractInv`
  says per job that once the tree is cancelled it has ended or runs, that a greenlet
  which waits has a job that does not run, and that an interrupted job is marked
  CANCELLED; and that once `done_event` is set at most one job that must complete is
  `Loose`, not done or about to be overwritten, and none without a signal. It is one
  only because the handler cancels at once and a second `cancel()` does nothing: no
  later signal finds a start to interrupt. With resources it is false: a job
  cancelled while it acquires them still runs (exectree.py:482).
* `ContractKept`: `Undisturbed /\ Spec => KeepsContract`, the refinement of
  TreeContract, where `Undisturbed` adds that nobody overrides. Under `TreeInv`,
  the conjunction of the invariants above, each action maps to a step of the contract
  or a stutter: a start to `Start`, since by `RunsInOrder'` all it needs has
  succeeded; a cancel to `Close`; an interrupted start to `Interrupt`, after which
  the job is shown as running (`Shown`) though its state is CANCELLED; `is_done` to
  `Settle`; `run()`'s return to `Return`.
* `ProcessExecutes`: `AbortsFromOutside /\ RCubicSpec => Spec`: what the handlers do
  to the tree is what an abort does, so that all theorems of the executor hold of
  the process. `AbortsFromOutside` says that a process in session mode is one whose
  tree may be aborted. `RCubicTypeCorrect` is the type invariant.
* `GroupRecordsSound`: anything is recorded of a group only if all its scripts
  have succeeded or were left out, and they stay so, in flat trees that are `Settled`,
  whatever the requests. A script of a subtree is reset after its group was recorded.
* `AuditCompletes`, `SuccessRecordsGroups`: in a run that is `Audited` (undisturbed,
  no signal in a start, all scripts must complete, which is the default of the code) the
  log has every outcome when the run ends, and a success has recorded SUCCESSFULL of
  every group of which a script was not left out, and of no other. `AuditInv` and
  `GroupInv`: what is not recorded has the handler of a script scheduled, of one that
  was not left out, and ahead of the return of `run()` once `done_event` is set. A
  script that was left out is never the one that makes its group successful, and its
  handler, if it comes last, only adds UNDEF. With a signal, `AuditComplete` would be
  false: `done_event` is set before the interrupted script ends, so its handler
  may come too late.
* `ResourceTypeCorrect`: `Spec => []TypeOK` of ExecResource for all jobs, resources and
  limits; its last conjunct keeps the counts within the limits. What the loop reserves before it blocks fits, because the
  last unit it took was free when it took it; a release stops at zero.
* `LastLimits`: `Spec => []LastLimitRespected`. For a resource that is last in
  every list that has it, as "default" is, the count equals the number of holders and
  no job's `reserved` list ever has it, since a job that reserves it blocks on nothing
  after it. The second conjunct is what fails for the others, which is finding
  Oversubscribed.
* `FreeUnitsCounted`: `Spec => []NothingLeaks`. By `LeakInv` the count of a resource
  is at most the number of its units that jobs hold, one per occurrence in
  their lists, and `reserved` has all that a waiting job holds, so that it gives
  everything back; what it gives back twice only makes the count smaller.
* `SuccessEarned`: `Spec => []SuccessIsEarned`, for all processes, users, names and
  ports. The invariant says that an entry of `received` leads to an event
  registered under its address, that a confirmation on the wire was given by
  somebody, that every event that is set was confirmed by whoever it waits for, and
  that a process before its last question has a user left to ask; who
  succeeded had all events set. `CheckInTypeCorrect` is the type
  invariant, proved from it.
* `ParserTypeCorrect`: `ParserSpec => []ParserTypeOK`: a tree has one job of a name, and
  its dependencies relate two different jobs of it, each pair once. `ReadInv` types
  what was read, whatever the order of the listings, and `LinkInv` the jobs and what
  is still to be linked: who asks is a job of its tree, so that a placeholder never
  takes a name that is in use and no dependency leads out of its tree.
* `UpgradesOnly`: `ParserSpec => []AutoselectUpgrades`, for versions of any length. By
  `GreaterIsLater` the comparison of readable versions finds one greater only if it
  is later, even though the second version is never padded: the numbers it lacks
  count as zeros, and what is dropped by `zip` cannot make the first version earlier.
* `GraphDeclared`: `ParserSpec => []GraphAsDeclared`, for all releases and listings.
  `ContentInv` says what the list of a group holds before, between and after the
  listing of its two directories: in the end the headers in force, one script of a
  name. `DeclaredInv`: the dependencies that were added, together with those that the
  calls in `todo` will ask for, are the declared ones; a placeholder or a duplicate
  does not change that. What `_glob_expand`, `add_script` and the loops of
  `init_tree` collect is proved as facts about the members of a sequence
  (`FlattenMembers`, `ListingMembers`, `SomeScriptAsks`).
* `AcceptedTreesSound`: `ParserSpec => []AcceptedIsSound`. `JobsInv` says that every job is
  named by a pattern and that the jobs and dependencies are finite in number. The
  searches are recursive functions; induction over their paths is replaced by sets
  that are the largest or the smallest with some property, and by the finiteness of
  `Patterns`. A cycle that `validate_nocycles` does not meet lies behind no stem, hence
  consists of placeholders only, and on such a cycle `has_defined_anscestors` is
  endless, so that the start had raised before.
* `NoneRefused`: `ParserSpec => []RefusedForCause`, the converse. For a well-formed
  release `CauseInv` keeps `Linkable` while dependencies are added: all scripts have
  their jobs, and what is still asked for is demanded, not yet added and asked once,
  unless a phase asks (`NoRepeat`); so `add_dep` finds both jobs, two different ones,
  and no duplicate. That no script is read twice (`ReadOnce`) makes the demands differ.
  In the end (`Ready`) every tree is a DAG with one entry, on which each search is
  shown to end and to find nothing. Subtrees are then validated within one another,
  which need not end by itself; but an iterator is in one tree only, so that if the
  root did not validate, each tree that does not would hold another that does not,
  never the root: one more than there are, against `FS_PigeonHole`.
* `WidgetsInvariant`: `S2Spec => []AllInv(ui)`. Per widget the invariant is
  `SelectionInv` (value, choices and what was announced agree, marked and fading
  options are selected) and `RowsInv` (which rows are selectable, disabled and
  lit, and that a closed dropdown has none). Each method is shown to keep both
  where it does and to break one where a later method of the same handler repairs
  it; then `SelectionShown`, `ResultsSound`, `HighlightSound` follow.
* `ClicksSelect`: `S2Spec => ClickSelects`. Selectable and disabled rows are
  disjoint by the invariant, so that the two ways of counting rows agree.
* `PageFilters`: `PageSpec => KeepsFilter`, the refinement of ArchiveFilter. Each
  handler leaves all values alone or adds or removes one option of one widget,
  and then only does it announce; and since every option stems from a run,
  `intersect()`'s test for an empty set of runs tests for an empty selection.

* `OutsideClicksClose`, `Select2TypeCorrect`: a click beside the widgets closes
  every open dropdown, and `S2TypeOK`, which bounds the timers. `WidgetFlags` says
  that an open dropdown has the class `select2-drop-active`, by which the click's
  handler finds it, whether or not its container is active.

Only model-checked:

* Liveness under fairness, out of the prover's reach: `AbortEndsRun`,
  `RunSucceeds`, `SessionEnds`, `WaitingEnds`, `RequestEnds`, `StartDecides`
  (of which `NoneRefused` leaves only that the start comes to an end).
* What the theorems' hypotheses leave out: iterated trees with overrides, order in
  flat trees with resources and overrides (FlatSafety has both, in a tree where
  nothing depends on the job with resources). What nobody checks: the audit log
  in trees with resources or subtrees, or of runs that time out.

## 5. Not modelled

Output (XML, DOT, JSON, HTML), logging, git, configuration files, the child
processes themselves (a script starts, or raises, and exits with success or
failure), the loop that reads their output, back-off durations, and time: a
timeout may strike at any moment. Of the start: the text of headers, the
scripts' text (scriptregex), iterator commands, the checks of mail, products and
environment, external validation. In ExecTree, subtrees within subtrees. Resources and trees
are modelled apart, so that a subtree manager holding a resource its jobs wait for
is not covered. `MaxGreenlets` bounds the greenlets of a job.

Of select2.js, the modes that no page of the repository uses: single selection,
remote data, tags, paging, placeholders, limits, enabling and disabling; and
markup, positions and widths. Of the other parts: the daemon, which forks the process
that is modelled and keeps its pid file; the notification, which formats one mail; the command line tools,
thin wrappers; the highlighter, third-party and minified.

## 6. Plan

1. ExecTree, ExecResource, RCubic, ScriptParser, GroupSelect, CheckIn, Select2,
   ArchivePage, their runs and theorems (done).
2. The claim that the tree ScriptParser makes satisfies the `TopologyAssumption` of
   ExecTree, checked and, as far as it takes no induction, proved.
3. A manager that holds a resource: ExecTree composed with ExecResource.
