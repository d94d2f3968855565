----------------------------- MODULE TreeContract -----------------------------
(***************************************************************************)
(* What one run of a tree promises to whoever wrote the scripts' headers:  *)
(* scripts start in the order of their dependencies and only while the run *)
(* is open; closing it drops everything that has not started, save for a   *)
(* script whose start it interrupts; and the run returns, with a verdict,  *)
(* when it is closed and nothing required runs, the one script aside that  *)
(* closing has interrupted.                                                *)
(***************************************************************************)
CONSTANTS
  Scripts,        \* the jobs that have something to run
  Required,       \* those the run waits for
  After,          \* After[j]: the scripts that must have succeeded before j
  OnFailureOf,    \* OnFailureOf[j]: the scripts that must have failed before j
  Interruptible   \* closing may fall into the start of a script

VARIABLES
  status,   \* status[j]: "pending", "running", "succeeded", "failed", "dropped"
  open,     \* new scripts may start
  over,     \* nothing is left to wait for
  verdict   \* "none" until the run returns

vars == <<status, open, over, verdict>>

Init ==
  /\ status = [j \in Scripts |-> "pending"]
  /\ open = TRUE
  /\ over = FALSE
  /\ verdict = "none"

\* Nothing that the run waits for runs, j aside.
NothingRunsBut(j, st) == \A k \in Required \ {j} : st[k] # "running"

NothingRuns(st) == \A k \in Required : st[k] # "running"

MayStart(j) ==
  /\ verdict = "none" /\ open
  /\ status[j] = "pending"
  /\ \A p \in After[j] : status[p] = "succeeded"
  /\ \A p \in OnFailureOf[j] : status[p] = "failed"

Start(j) ==
  /\ MayStart(j)
  /\ status' = [status EXCEPT ![j] = "running"]
  /\ UNCHANGED <<open, over, verdict>>

End(j) ==
  /\ verdict = "none"
  /\ status[j] = "running"
  /\ \E outcome \in {"succeeded", "failed"} :
       status' = [status EXCEPT ![j] = outcome]
  /\ UNCHANGED <<open, over, verdict>>

Dropped(st) == [j \in Scripts |-> IF st[j] = "pending" THEN "dropped" ELSE st[j]]

Close ==
  /\ verdict = "none" /\ open
  /\ open' = FALSE
  /\ status' = Dropped(status)
  /\ over' \in {FALSE, NothingRuns(status')}
  /\ UNCHANGED verdict

\* The run is closed while j is starting: j starts all the same, and whether the run
\* is over is decided without it.
Interrupt(j) ==
  /\ Interruptible
  /\ MayStart(j)
  /\ open' = FALSE
  /\ status' = Dropped([status EXCEPT ![j] = "running"])
  /\ over' \in {FALSE, NothingRunsBut(j, status')}
  /\ UNCHANGED verdict

Settle ==
  /\ verdict = "none" /\ ~open
  /\ NothingRuns(status)
  /\ over' = TRUE
  /\ UNCHANGED <<status, open, verdict>>

Return ==
  /\ verdict = "none" /\ over
  /\ verdict' = IF ~NothingRuns(status) THEN "orphaned"
                ELSE IF \A j \in Scripts : status[j] = "succeeded" THEN "success" ELSE "failed"
  /\ UNCHANGED <<status, open, over>>

Next ==
  \/ \E j \in Scripts : Start(j) \/ End(j) \/ Interrupt(j)
  \/ Close
  \/ Settle
  \/ Return

Spec == Init /\ [][Next]_vars
=============================================================================
