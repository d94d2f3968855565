---------------------------- MODULE ArchiveFilter ----------------------------
(***************************************************************************)
(* What the archive page promises: one option at a time is selected or     *)
(* removed, and the table shows, at every moment, the archived runs that   *)
(* match the selection: "[A or B] AND [C or D] AND [E or F]".              *)
(***************************************************************************)
EXTENDS Sequences, Naturals

CONSTANTS
  Widgets,  \* the filters
  Options,  \* Options[w]: the options of filter w
  Runs,     \* the archived runs
  Keys      \* Keys[w][r]: the options of filter w that run r has

VARIABLES
  selection,  \* selection[w]: the selected options of w
  table       \* the runs that are shown

Selected(sel) == {w \in Widgets : sel[w] # {}}

Admitted(sel) ==
  {r \in Runs : \A w \in Selected(sel) : Keys[w][r] \cap sel[w] # {}}

\* Nothing is shown until something is selected.
Shown(sel) == IF Selected(sel) = {} THEN {} ELSE Admitted(sel)

Init ==
  /\ selection = [w \in Widgets |-> {}]
  /\ table = {}

Change(w, o) ==
  /\ selection' = [selection EXCEPT ![w] = IF o \in @ THEN @ \ {o} ELSE @ \cup {o}]
  /\ table' = Shown(selection')

Next == \E w \in Widgets : \E o \in Options[w] : Change(w, o)

Spec == Init /\ [][Next]_<<selection, table>>
=============================================================================
