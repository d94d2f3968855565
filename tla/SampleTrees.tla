----------------------------- MODULE SampleTrees ------------------------------
(***************************************************************************)
(* Small trees for TLC: flat ones, with undefined placeholders and error   *)
(* handlers, and ones with an iterated subtree.                            *)
(***************************************************************************)
EXTENDS Naturals, Sequences

Needs(p) == [parent |-> p, state |-> "SUCCESSFULL"]
NeedsFailure(p) == [parent |-> p, state |-> "FAILED"]

-----------------------------------------------------------------------------
\* "fetch" -> placeholder -> "install" -> "check", and "rescue" runs if
\* "install" fails.  One tree.
FlatJobs == {"fetch", "hole", "install", "check", "rescue"}
FlatTrees == {"rcubic"}
FlatTreeOf == [j \in FlatJobs |-> "rcubic"]
FlatSubtreeOf == [j \in FlatJobs |-> "none"]
FlatDeps ==
  [j \in FlatJobs |->
     CASE j = "fetch"   -> <<>>
       [] j = "hole"    -> <<Needs("fetch")>>
       [] j = "install" -> <<Needs("hole"), Needs("fetch")>>
       [] j = "check"   -> <<Needs("install")>>
       [] j = "rescue"  -> <<NeedsFailure("install"), Needs("fetch")>>]
FlatMustComplete == FlatJobs \ {"rescue", "hole"}
FlatArgCount == [t \in FlatTrees |-> 0]
-----------------------------------------------------------------------------
\* A flat tree of three jobs: "work" and "audit" both need "fetch".
PairJobs == {"fetch", "work", "audit"}
PairTreeOf == [j \in PairJobs |-> "rcubic"]
PairSubtreeOf == [j \in PairJobs |-> "none"]
PairDeps ==
  [j \in PairJobs |-> IF j = "fetch" THEN <<>> ELSE <<Needs("fetch")>>]

-----------------------------------------------------------------------------
\* What the script parser builds from two groups: "fetch" -> placeholder "hole"
\* -> "install" -> "check", and "report", which "install" needs as well.
AppJobs == {"fetch", "hole", "install", "check", "report"}
AppTreeOf == [j \in AppJobs |-> "rcubic"]
AppSubtreeOf == [j \in AppJobs |-> "none"]
AppDeps ==
  [j \in AppJobs |->
     CASE j = "hole"    -> <<Needs("fetch")>>
       [] j = "install" -> <<Needs("hole"), Needs("report")>>
       [] j = "check"   -> <<Needs("install")>>
       [] OTHER         -> <<>>]
AppMustComplete == AppJobs \ {"hole"}

\* The same with a third group, of which "docs" is the only script.
SiteJobs == AppJobs \cup {"docs"}
SiteTreeOf == [j \in SiteJobs |-> "rcubic"]
SiteSubtreeOf == [j \in SiteJobs |-> "none"]
SiteDeps ==
  [j \in SiteJobs |-> IF j = "docs" THEN <<Needs("check")>> ELSE AppDeps[j]]
SiteMustComplete == SiteJobs \ {"hole"}

-----------------------------------------------------------------------------
\* "prep" -> "loop", which manages a subtree of the same name that is iterated
\* twice: "draw" -> placeholder "gap" -> "play".
LoopJobs == {"prep", "loop", "draw", "gap", "play"}
LoopTrees == {"rcubic", "loops"}
LoopTreeOf ==
  [j \in LoopJobs |-> IF j \in {"prep", "loop"} THEN "rcubic" ELSE "loops"]
LoopSubtreeOf == [j \in LoopJobs |-> IF j = "loop" THEN "loops" ELSE "none"]
LoopDeps ==
  [j \in LoopJobs |->
     CASE j = "loop" -> <<Needs("prep")>>
       [] j = "gap"  -> <<Needs("draw")>>
       [] j = "play" -> <<Needs("gap")>>
       [] OTHER      -> <<>>]
LoopArgCount == [t \in LoopTrees |-> IF t = "loops" THEN 2 ELSE 0]

-----------------------------------------------------------------------------
\* The same subtree, without the placeholder, beside an unrelated job "side".
SideJobs == {"side", "loop", "draw", "play"}
SideTreeOf ==
  [j \in SideJobs |-> IF j \in {"side", "loop"} THEN "rcubic" ELSE "loops"]
SideSubtreeOf == [j \in SideJobs |-> IF j = "loop" THEN "loops" ELSE "none"]
SideDeps ==
  [j \in SideJobs |-> IF j = "play" THEN <<Needs("draw")>> ELSE <<>>]
=============================================================================
