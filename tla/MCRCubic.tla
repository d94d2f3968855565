------------------------------- MODULE MCRCubic -------------------------------
(***************************************************************************)
(* RCubic on the trees of SampleTrees, with their scripts in groups.       *)
(***************************************************************************)
EXTENDS RCubic, ExecTreeRefinement, SampleTrees

\* "hole" is a placeholder that belongs to no group.
AppGroupOf ==
  [j \in AppJobs |->
     CASE j = "hole"  -> "nogroup"
       [] j = "fetch" -> "base"
       [] OTHER       -> "app"]

SiteGroupOf == [j \in SiteJobs |-> IF j = "docs" THEN "manual" ELSE AppGroupOf[j]]

SideGroupOf == [j \in SideJobs |-> IF j = "side" THEN "base" ELSE "app"]
=============================================================================
