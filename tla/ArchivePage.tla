----------------------------- MODULE ArchivePage ------------------------------
(***************************************************************************)
(* RCubic/web/archive.html once it has read jobs.txt: a widget for each of *)
(* the date, the version and the group, and a table of the archived runs   *)
(* that is computed again at every "change" event.                         *)
(***************************************************************************)
EXTENDS Select2

CONSTANTS
  Filters,  \* the widgets, in the order intersect() looks at them
  Runs,     \* the runs of jobs.txt (uuids)
  Keys      \* Keys[w][r]: the options of w that run r was filed under

ASSUME ArchiveAssumption ==
  /\ Widgets = {Filters[i] : i \in 1..Len(Filters)}
  /\ Filters \in Seq(Widgets)
  /\ Keys \in [Widgets -> [Runs -> SUBSET AllOptions]]
  /\ \A w \in Widgets : \A o \in Options[w] : \E r \in Runs : o \in Keys[w][r]

VARIABLE table  \* the runs in #results

pageVars == <<s2Vars, table>>

\* d_uuids, v_uuids and g_uuids: the runs of any option that is selected.
Union(all, w) == {r \in Runs : Keys[w][r] \cap all[w].value # {}}

\* Slip: a filter with nothing selected matches nothing.
IntersectAll(all) == {r \in Runs : \A w \in Widgets : r \in Union(all, w)}

\* intersect(): the runs of the first set that is not empty, as far as they are in
\* every other set that is not.
Intersect(all) ==
  LET full == {i \in 1..Len(Filters) : Union(all, Filters[i]) # {}}
      first == CHOOSE i \in full : \A k \in full : i <= k
  IN IF full = {} THEN {}
     ELSE {r \in Union(all, Filters[first]) :
             \A i \in full : r \in Union(all, Filters[i])}

PageInit ==
  /\ S2Init
  /\ table = {}

Changed == \E w \in Widgets : ui'[w].announced # ui[w].announced

\* intersect() is the listener of every element's change event.
PageNext ==
  /\ S2Next
  /\ table' = IF Changed THEN Intersect(ui') ELSE table

PageSpec == PageInit /\ [][PageNext]_pageVars

-----------------------------------------------------------------------------
Filter == INSTANCE ArchiveFilter WITH selection <- [w \in Widgets |-> ui[w].value]

\* Whatever the user does in whatever order, options are selected and removed one
\* at a time and the table is always that of the current selection.  Code: the
\* value is set before the change is triggered, in onSelect and in unselect, and
\* intersect() reads all the widgets.
KeepsFilter == Filter!Spec
=============================================================================
