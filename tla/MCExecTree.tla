------------------------------ MODULE MCExecTree ------------------------------
(***************************************************************************)
(* ExecTree on the trees of SampleTrees.                                   *)
(***************************************************************************)
EXTENDS ExecTreeRefinement, SampleTrees
=============================================================================
