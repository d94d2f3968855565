---------------------------- MODULE MCArchivePage -----------------------------
(***************************************************************************)
(* ArchivePage with a filter of two dates and one of one group, and three  *)
(* archived runs.                                                          *)
(***************************************************************************)
EXTENDS ArchivePage

TwoFilters == <<"date", "group">>
FilterOptions == [w \in Widgets |-> IF w = "date" THEN {"mon", "tue"} ELSE {"app"}]
OptionPosition ==
  [o \in AllOptions |-> CASE o = "mon" -> 1 [] o = "tue" -> 2 [] o = "app" -> 3]
TypedInto == [w \in Widgets |-> IF w = "date" THEN Words ELSE {}]
WordMatches == [word \in Words |-> {"tue"}]
FiledUnder ==
  [w \in Widgets |->
     [r \in Runs |->
        IF w = "date" THEN IF r = "r1" THEN {"mon"} ELSE {"tue"}
        ELSE IF r = "r3" THEN {} ELSE {"app"}]]
=============================================================================
