---------------------------- MODULE MCExecResource ----------------------------
(***************************************************************************)
(* Small sets of jobs and resources for TLC.                               *)
(***************************************************************************)
EXTENDS ExecResource

\* The headers of "a" and "b" name two resources in opposite orders, that of "c" one
\* and that of "d" none.  "default" is appended to each.
Crossed ==
  [j \in Jobs |-> CASE j = "a" -> <<"net", "disk", "default">>
                    [] j = "b" -> <<"disk", "net", "default">>
                    [] j = "c" -> <<"net", "default">>
                    [] OTHER   -> <<"default">>]

\* Two scripts at a time, one with each of the others.
LimitTwo == [r \in Resources |-> IF r = "default" THEN 2 ELSE 1]
=============================================================================
