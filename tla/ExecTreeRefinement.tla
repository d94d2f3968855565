-------------------------- MODULE ExecTreeRefinement --------------------------
(***************************************************************************)
(* A flat tree keeps the contract of TreeContract, as long as nobody       *)
(* reschedules or overrides, no timeout strikes and no job waits for       *)
(* resources.                                                              *)
(***************************************************************************)
EXTENDS ExecTree

Defined == Jobs \ Undefined

FailedDirect(j) ==
  {ParentDeps[j][i].parent : i \in {k \in 1..Len(ParentDeps[j]) :
                                      ParentDeps[j][k].state = "FAILED"}}

Status(s) ==
  CASE s = "RUNNING"     -> "running"
    [] s = "SUCCESSFULL" -> "succeeded"
    [] s = "FAILED"      -> "failed"
    [] s = "CANCELLED"   -> "dropped"
    [] OTHER             -> "pending"

\* The start of j is under way, whatever its state says.
Starting(j) == \E g \in Greenlets : pc[j][g] = "checked"

Shown(j) == IF Starting(j) THEN "running" ELSE Status(state[j])

Contract == INSTANCE TreeContract WITH
  Scripts       <- Defined,
  Required      <- Defined \cap MustComplete,
  After         <- [j \in Defined |-> Prerequisites[j]],
  OnFailureOf   <- [j \in Defined |-> FailedDirect(j)],
  Interruptible <- "signal" \in Requests,
  status        <- [j \in Defined |-> Shown(j)],
  open          <- ~cancelled[Root],
  over          <- done[Root],
  verdict       <- IF Exited THEN main ELSE "none"

\* The run of a flat tree starts scripts, drops them and returns only as
\* TreeContract allows.  Code: run, _run, cancel and is_done taken together.
KeepsContract == Contract!Spec
=============================================================================
