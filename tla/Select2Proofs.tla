----------------------------- MODULE Select2Proofs -----------------------------
(***************************************************************************)
(* Proofs about Select2 and the page that filters with it, for all widgets *)
(* and options: what is shown agrees with what is selected, a click        *)
(* selects the row it is on, and ArchivePage implements ArchiveFilter.     *)
(***************************************************************************)
EXTENDS ArchivePage, Positions, FiniteSetTheorems, TLAPS

-----------------------------------------------------------------------------
(* The index of a result in a list.                                        *)

Before(S, o) == {p \in S : Position[p] < Position[o]}

LEMMA IndexTyped ==
  ASSUME Select2Assumption, NEW S, S \subseteq AllOptions, NEW o \in S
  PROVE  /\ IsFiniteSet(S)
         /\ IndexIn(S, o) \in 0..(Cardinality(S) - 1)
         /\ IndexIn(S, o) = Cardinality(Before(S, o))
         /\ IsFiniteSet(Before(S, o))
<1>1. IsFiniteSet(S)
  BY FS_Subset DEF Select2Assumption
<1>2. Position[o] \in Nat
  BY DEF Select2Assumption
<1>3. Before(S, o) \in SUBSET (S \ {o})
  BY <1>2 DEF Before
<1>4. /\ IsFiniteSet(S \ {o})
      /\ Cardinality(S \ {o}) = Cardinality(S) - 1
  BY <1>1, FS_RemoveElement
<1>5. /\ IsFiniteSet(Before(S, o))
      /\ Cardinality(Before(S, o)) <= Cardinality(S \ {o})
  BY <1>3, <1>4, FS_Subset
<1>6. Cardinality(Before(S, o)) \in Nat /\ Cardinality(S) \in Nat
  BY <1>1, <1>5, FS_CardinalityType
<1>7. IndexIn(S, o) = Cardinality(Before(S, o))
  BY DEF IndexIn, Before
<1>8. QED
  BY <1>1, <1>4, <1>5, <1>6, <1>7

\* A result that stands before another has a smaller index.
LEMMA IndexGrows ==
  ASSUME Select2Assumption, NEW S, S \subseteq AllOptions, NEW o \in S, NEW p \in S,
         Position[o] < Position[p]
  PROVE  IndexIn(S, o) < IndexIn(S, p)
<1>1. \A q \in S : Position[q] \in Nat
  BY DEF Select2Assumption
<1>2. o \notin Before(S, o) /\ Before(S, o) \cup {o} \in SUBSET Before(S, p)
  BY <1>1 DEF Before
<1>3. /\ IsFiniteSet(Before(S, o))
      /\ IndexIn(S, o) = Cardinality(Before(S, o))
      /\ IsFiniteSet(Before(S, p))
      /\ IndexIn(S, p) = Cardinality(Before(S, p))
  BY IndexTyped
<1>4. Cardinality(Before(S, o) \cup {o}) = Cardinality(Before(S, o)) + 1
  BY <1>2, <1>3, FS_AddElement
<1>5. Cardinality(Before(S, o) \cup {o}) <= Cardinality(Before(S, p))
  BY <1>2, <1>3, FS_Subset
<1>6. Cardinality(Before(S, o)) \in Nat /\ Cardinality(Before(S, p)) \in Nat
  BY <1>3, FS_CardinalityType
<1>7. QED
  BY <1>3, <1>4, <1>5, <1>6

LEMMA IndexInjective ==
  ASSUME Select2Assumption, NEW S, S \subseteq AllOptions, NEW o \in S, NEW p \in S,
         IndexIn(S, o) = IndexIn(S, p)
  PROVE  o = p
<1>1. Position[o] \in Nat /\ Position[p] \in Nat
  BY DEF Select2Assumption
<1>2. IndexIn(S, o) \in Int /\ IndexIn(S, p) \in Int
  <2>1. /\ IndexIn(S, o) \in 0..(Cardinality(S) - 1)
        /\ IndexIn(S, p) \in 0..(Cardinality(S) - 1)
    BY IndexTyped
  <2>2. QED
    BY <2>1
<1>3. ~(Position[o] < Position[p]) /\ ~(Position[p] < Position[o])
  BY <1>2, IndexGrows
<1>4. Position[o] = Position[p]
  BY <1>1, <1>3
<1>5. QED
  BY <1>4 DEF Select2Assumption

\* The result of that index is the result itself.
LEMMA NthOfIndex ==
  ASSUME Select2Assumption, NEW S, S \subseteq AllOptions, NEW o \in S
  PROVE  Nth(S, IndexIn(S, o)) = o
<1>1. \A p \in S : IndexIn(S, p) = IndexIn(S, o) => p = o
  BY IndexInjective
<1>2. QED
  BY <1>1 DEF Nth

\* There is a result for every index: the indices are as many as the results.
LEMMA NthExists ==
  ASSUME Select2Assumption, NEW S, S \subseteq AllOptions,
         NEW i \in 0..(Cardinality(S) - 1)
  PROVE  Nth(S, i) \in S
<1> DEFINE n == Cardinality(S)
           rank == [o \in S |-> IndexIn(S, o)]
<1>1. IsFiniteSet(S) /\ n \in Nat
  BY FS_Subset, FS_CardinalityType DEF Select2Assumption
<1>2. rank \in Injection(S, 0..(n - 1))
  <2>1. rank \in [S -> 0..(n - 1)]
    BY IndexTyped
  <2>2. \A o, p \in S : rank[o] = rank[p] => o = p
    BY IndexInjective
  <2>3. QED
    BY <2>1, <2>2 DEF Injection, IsInjective
<1>3. IsFiniteSet(0..(n - 1)) /\ Cardinality(0..(n - 1)) = n
  BY <1>1, FS_Interval
<1>4. rank \in Surjection(S, 0..(n - 1))
  BY <1>2, <1>3, FS_Injection
<1>5. PICK o \in S : rank[o] = i
  BY <1>4 DEF Surjection
<1>6. QED
  BY <1>5, NthOfIndex

-----------------------------------------------------------------------------
(* The inductive invariant of one widget, of which O are the options.      *)

ChoicesAgree(s) ==
  /\ s.value = {s.choices[i] : i \in 1..Len(s.choices)}
  /\ \A i, k \in 1..Len(s.choices) : s.choices[i] = s.choices[k] => i = k

OneLit(s) == \A a, b \in Highlighted(s) : a = b

\* What holds while a handler changes the selection, too.
SelectionInv(s, O) ==
  /\ s \in WidgetState
  /\ s.value \subseteq O /\ s.rows \subseteq O
  /\ ChoicesAgree(s)
  /\ s.marked \subseteq s.value
  /\ s.fading \subseteq s.value

RowsInv(s) ==
  /\ s.announced = s.value
  /\ s.selectable = s.rows \ s.value
  /\ s.disabled \cap s.selectable = {}
  /\ ~s.opened => s.rows = {}
  /\ OneLit(s)

WidgetInv(s, O) == SelectionInv(s, O) /\ RowsInv(s)

-----------------------------------------------------------------------------
(* The methods that change the results.                                    *)

LEMMA EnabledTyped ==
  ASSUME NEW s \in WidgetState
  PROVE  /\ Enabled(s) \subseteq AllOptions
         /\ Highlighted(s) \subseteq Enabled(s)
         /\ s.lit \subseteq AllOptions /\ s.selectable \subseteq AllOptions
BY DEF WidgetState, Enabled, Highlighted

\* highlight() changes the highlight only, of which there is one at most then.
LEMMA HighlightOne ==
  ASSUME Select2Assumption, NEW s \in WidgetState, NEW index \in Int
  PROVE  /\ \E h \in SUBSET AllOptions : Highlight(s, index) = [s EXCEPT !.lit = h]
         /\ OneLit(Highlight(s, index))
<1> DEFINE last == Cardinality(Enabled(s)) - 1
           i == IF index > last THEN last ELSE IF index < 0 THEN 0 ELSE index
           o == Nth(Enabled(s), i)
<1>1. IsFiniteSet(Enabled(s)) /\ Cardinality(Enabled(s)) \in Nat
  BY EnabledTyped, FS_Subset, FS_CardinalityType DEF Select2Assumption
<1>2. CASE last < 0
  <2>1. Enabled(s) = {}
    BY <1>1, <1>2, FS_EmptySet
  <2>2. Highlight(s, index) = s
    BY <1>2 DEF Highlight
  <2>3. s = [s EXCEPT !.lit = s.lit] /\ s.lit \in SUBSET AllOptions
    BY DEF WidgetState
  <2>4. QED
    BY <2>1, <2>2, <2>3 DEF OneLit, Highlighted
<1>3. CASE ~(last < 0)
  <2> DEFINE l == (s.lit \ Enabled(s)) \cup {o}
  <2>1. i \in 0..(Cardinality(Enabled(s)) - 1)
    BY <1>1, <1>3
  <2>2. o \in Enabled(s)
    BY <2>1, EnabledTyped, NthExists
  <2>3. Highlight(s, index) = [s EXCEPT !.lit = l]
    BY <1>3 DEF Highlight
  <2>4. l \in SUBSET AllOptions
    BY <2>2, EnabledTyped
  <2> HIDE DEF o, l
  <2>5. /\ [s EXCEPT !.lit = l].lit = l
        /\ [s EXCEPT !.lit = l].selectable = s.selectable
        /\ [s EXCEPT !.lit = l].disabled = s.disabled
    BY <2>4 DEF WidgetState
  <2>6. Highlighted([s EXCEPT !.lit = l]) \subseteq {o}
    BY <2>5 DEF Highlighted, Enabled, l
  <2>7. OneLit([s EXCEPT !.lit = l])
    BY <2>6 DEF OneLit
  <2>8. QED
    BY <2>3, <2>4, <2>7
<1>4. QED
  BY <1>2, <1>3

\* A result that is enabled is the one highlighted, by its own index.
LEMMA HighlightAt ==
  ASSUME Select2Assumption, NEW s \in WidgetState, NEW o \in Enabled(s)
  PROVE  Highlighted(Highlight(s, IndexIn(Enabled(s), o))) = {o}
<1> DEFINE index == IndexIn(Enabled(s), o)
           last == Cardinality(Enabled(s)) - 1
           l == (s.lit \ Enabled(s)) \cup {o}
<1>1. index \in 0..last /\ last \in Int
  <2>1. IsFiniteSet(Enabled(s))
    BY EnabledTyped, FS_Subset DEF Select2Assumption
  <2>2. QED
    BY <2>1, EnabledTyped, IndexTyped, FS_CardinalityType
<1>2. Nth(Enabled(s), index) = o
  BY EnabledTyped, NthOfIndex
<1>3. Highlight(s, index) = [s EXCEPT !.lit = l]
  <2> HIDE DEF index
  <2>1. ~(last < 0) /\ ~(index > last) /\ ~(index < 0)
    BY <1>1
  <2>2. QED
    BY <1>2, <2>1 DEF Highlight
<1>4. l \in SUBSET AllOptions
  BY EnabledTyped
<1> HIDE DEF l
<1>5. /\ [s EXCEPT !.lit = l].lit = l
      /\ [s EXCEPT !.lit = l].selectable = s.selectable
      /\ [s EXCEPT !.lit = l].disabled = s.disabled
  BY <1>4 DEF WidgetState
<1>6. QED
  BY <1>3, <1>5 DEF Highlighted, Enabled, l

\* The lowest of a set of results is there to be chosen.
LEMMA LowestExists ==
  ASSUME Select2Assumption, NEW S, S \subseteq AllOptions, S # {}
  PROVE  Nth(S, 0) \in S
<1>1. IsFiniteSet(S)
  BY FS_Subset DEF Select2Assumption
<1>2. Cardinality(S) \in Nat /\ Cardinality(S) # 0
  BY <1>1, FS_CardinalityType, FS_EmptySet
<1>3. QED
  BY <1>2, NthExists

LEMMA HighlightIndexTyped ==
  ASSUME Select2Assumption, NEW s \in WidgetState, Highlighted(s) # {}
  PROVE  HighlightIndex(s) \in Int
<1>1. Nth(Highlighted(s), 0) \in Enabled(s)
  BY EnabledTyped, LowestExists
<1>2. IndexIn(Enabled(s), Nth(Highlighted(s), 0)) \in 0..(Cardinality(Enabled(s)) - 1)
  BY <1>1, EnabledTyped, IndexTyped
<1>3. QED
  BY <1>2 DEF HighlightIndex

\* A change of the highlight that leaves one at most keeps the invariant.
LEMMA LitKept ==
  ASSUME NEW O, NEW s, WidgetInv(s, O), NEW h \in SUBSET AllOptions,
         OneLit([s EXCEPT !.lit = h])
  PROVE  /\ WidgetInv([s EXCEPT !.lit = h], O)
         /\ [s EXCEPT !.lit = h].value = s.value
         /\ [s EXCEPT !.lit = h].opened = s.opened
<1> DEFINE t == [s EXCEPT !.lit = h]
<1>1. s \in WidgetState
  BY DEF WidgetInv, SelectionInv
<1>2. t \in WidgetState
  BY <1>1 DEF WidgetState
<1>3. /\ t.value = s.value /\ t.announced = s.announced /\ t.choices = s.choices
      /\ t.marked = s.marked /\ t.fading = s.fading /\ t.opened = s.opened
      /\ t.rows = s.rows /\ t.selectable = s.selectable /\ t.disabled = s.disabled
  BY <1>1 DEF WidgetState
<1> HIDE DEF t
<1>4. SelectionInv(t, O)
  BY <1>2, <1>3 DEF WidgetInv, SelectionInv, ChoicesAgree
<1>5. RowsInv(t)
  BY <1>3 DEF WidgetInv, RowsInv, t
<1>6. QED
  BY <1>3, <1>4, <1>5 DEF WidgetInv, t

LEMMA HighlightKept ==
  ASSUME Select2Assumption, NEW O, NEW s, WidgetInv(s, O), NEW index \in Int
  PROVE  /\ WidgetInv(Highlight(s, index), O)
         /\ Highlight(s, index).value = s.value
         /\ Highlight(s, index).opened = s.opened
<1>1. s \in WidgetState
  BY DEF WidgetInv, SelectionInv
<1>2. PICK h \in SUBSET AllOptions : Highlight(s, index) = [s EXCEPT !.lit = h]
  BY <1>1, HighlightOne
<1>3. OneLit([s EXCEPT !.lit = h])
  BY <1>1, <1>2, HighlightOne
<1>4. QED
  BY <1>2, <1>3, LitKept

LEMMA MoveHighlightKept ==
  ASSUME Select2Assumption, NEW O, NEW s, WidgetInv(s, O), NEW down \in BOOLEAN
  PROVE  /\ WidgetInv(MoveHighlight(s, down), O)
         /\ MoveHighlight(s, down).value = s.value
<1> DEFINE from == HighlightIndex(s)
           beyond == {i \in 0..(Cardinality(s.selectable) - 1) :
                        /\ IF down THEN i > from ELSE i < from
                        /\ Nth(s.selectable, i) \notin s.disabled}
           nearest == CHOOSE i \in beyond :
                        \A k \in beyond : IF down THEN i <= k ELSE i >= k
<1>1. s \in WidgetState
  BY DEF WidgetInv, SelectionInv
<1>2. CASE Highlighted(s) = {} \/ beyond = {}
  BY <1>2 DEF MoveHighlight
<1>3. CASE ~(Highlighted(s) = {} \/ beyond = {})
  <2>1. MoveHighlight(s, down) = Highlight(s, nearest)
    BY <1>3 DEF MoveHighlight
  <2>2. IsFiniteSet(s.selectable) /\ Cardinality(s.selectable) \in Nat
    BY <1>1, EnabledTyped, FS_Subset, FS_CardinalityType DEF Select2Assumption
  <2>3. /\ beyond \subseteq Nat
        /\ beyond \subseteq 0..Cardinality(s.selectable)
        /\ beyond # {}
    BY <1>3, <2>2
  <2> HIDE DEF beyond
  <2>4. \E i \in beyond : \A k \in beyond : IF down THEN i <= k ELSE i >= k
    <3>1. PICK i \in beyond : \A k \in beyond : i <= k
      BY <2>3, FirstExists
    <3>2. PICK j \in beyond : \A k \in beyond : k <= j
      BY <2>2, <2>3, LastExists
    <3>3. \A k \in beyond : j >= k
      BY <2>3, <3>2
    <3>4. QED
      BY <3>1, <3>3
  <2>5. nearest \in beyond
    BY <2>4
  <2> HIDE DEF nearest
  <2>6. nearest \in Int
    BY <2>3, <2>5
  <2>7. QED
    BY <2>1, <2>6, HighlightKept
<1>4. QED
  BY <1>2, <1>3

LEMMA HoverKept ==
  ASSUME Select2Assumption, NEW O, NEW s, WidgetInv(s, O), NEW o
  PROVE  /\ WidgetInv(HighlightUnderEvent(s, o), O)
         /\ HighlightUnderEvent(s, o).value = s.value
         /\ HighlightUnderEvent(s, o).opened = s.opened
<1>1. s \in WidgetState
  BY DEF WidgetInv, SelectionInv
<1>2. CASE o \notin s.selectable
  <2>1. HighlightUnderEvent(s, o) = [s EXCEPT !.lit = {}]
    BY <1>2 DEF HighlightUnderEvent
  <2>2. Highlighted([s EXCEPT !.lit = {}]) = {}
    BY <1>1 DEF Highlighted, WidgetState
  <2>3. OneLit([s EXCEPT !.lit = {}])
    BY <2>2 DEF OneLit
  <2>4. QED
    BY <2>1, <2>3, LitKept
<1>3. CASE o \in s.selectable /\ o \in s.lit
  BY <1>3 DEF HighlightUnderEvent
<1>4. CASE o \in s.selectable /\ o \notin s.lit
  <2>1. HighlightUnderEvent(s, o) = Highlight(s, IndexIn(s.selectable, o))
    BY <1>4 DEF HighlightUnderEvent
  <2>2. IndexIn(s.selectable, o) \in 0..(Cardinality(s.selectable) - 1)
    BY <1>1, <1>4, EnabledTyped, IndexTyped
  <2>3. IndexIn(s.selectable, o) \in Int
    BY <2>2
  <2>4. QED
    BY <2>1, <2>3, HighlightKept
<1>5. QED
  BY <1>2, <1>3, <1>4

\* The row under the mouse is the one highlighted, if it is enabled: no selectable
\* row is disabled, so its index among the selectable rows is the right one.
LEMMA HoverHighlights ==
  ASSUME Select2Assumption, NEW O, NEW s, WidgetInv(s, O), NEW o \in Enabled(s)
  PROVE  Highlighted(HighlightUnderEvent(s, o)) = {o}
<1>1. s \in WidgetState
  BY DEF WidgetInv, SelectionInv
<1>2. Enabled(s) = s.selectable
  BY DEF WidgetInv, RowsInv, Enabled
<1>3. CASE o \in s.lit
  <2>1. o \in Highlighted(s)
    BY <1>3 DEF Highlighted
  <2>2. Highlighted(s) = {o}
    BY <2>1 DEF WidgetInv, RowsInv, OneLit
  <2>3. QED
    BY <1>2, <1>3, <2>2 DEF HighlightUnderEvent
<1>4. CASE o \notin s.lit
  <2>1. HighlightUnderEvent(s, o) = Highlight(s, IndexIn(Enabled(s), o))
    BY <1>2, <1>4 DEF HighlightUnderEvent
  <2>2. QED
    BY <1>1, <2>1, HighlightAt
<1>5. QED
  BY <1>3, <1>4

-----------------------------------------------------------------------------
(* The methods that leave the selection as it is.                          *)

SameSelection(s, t) ==
  /\ t.value = s.value /\ t.announced = s.announced /\ t.choices = s.choices
  /\ t.marked = s.marked /\ t.fading = s.fading

SameResults(s, t) ==
  /\ t.opened = s.opened /\ t.rows = s.rows /\ t.selectable = s.selectable
  /\ t.disabled = s.disabled /\ t.lit = s.lit

\* Unmarking choices, and everything else a widget remembers, is free.
LEMMA FrameKept ==
  ASSUME NEW O, NEW s, WidgetInv(s, O), NEW t \in WidgetState, SameResults(s, t),
         t.value = s.value, t.announced = s.announced, t.choices = s.choices,
         t.fading = s.fading, t.marked \subseteq s.marked
  PROVE  WidgetInv(t, O)
<1>1. SelectionInv(t, O)
  BY DEF WidgetInv, SelectionInv, SameResults, ChoicesAgree
<1>2. RowsInv(t)
  BY DEF WidgetInv, RowsInv, SameResults, OneLit, Highlighted, Enabled
<1>3. QED
  BY <1>1, <1>2 DEF WidgetInv

LEMMA PostprocessFields ==
  ASSUME Select2Assumption, NEW s \in WidgetState
  PROVE  LET t == PostprocessResults(s) IN
         /\ t \in WidgetState
         /\ SameSelection(s, t)
         /\ t.opened = s.opened /\ t.rows = s.rows
         /\ t.selectable = s.selectable \ s.value
         /\ t.disabled \cap t.selectable = {}
         /\ OneLit(t)
<1> DEFINE taken == s.selectable \cap s.value
           m == [s EXCEPT !.disabled = (@ \ s.selectable) \cup taken,
                          !.selectable = @ \ taken]
<1>1. m \in WidgetState
  BY DEF WidgetState
<1>2. /\ SameSelection(s, m)
      /\ m.opened = s.opened /\ m.rows = s.rows
      /\ m.selectable = s.selectable \ s.value
      /\ m.disabled \cap m.selectable = {}
  BY DEF WidgetState, SameSelection
<1>3. PostprocessResults(s) = IF m.selectable = {} THEN m ELSE Highlight(m, 0)
  BY DEF PostprocessResults
<1> HIDE DEF m
<1>4. CASE m.selectable = {}
  <2>1. OneLit(m)
    BY <1>4 DEF OneLit, Highlighted, Enabled
  <2>2. QED
    BY <1>1, <1>2, <1>3, <1>4, <2>1
<1>5. CASE m.selectable # {}
  <2> DEFINE zero == 0
  <2>0. zero \in Int
    OBVIOUS
  <2> HIDE DEF zero
  <2>1. PICK h \in SUBSET AllOptions : Highlight(m, zero) = [m EXCEPT !.lit = h]
    BY <1>1, <2>0, HighlightOne
  <2>2. OneLit([m EXCEPT !.lit = h])
    BY <1>1, <2>0, <2>1, HighlightOne
  <2> DEFINE t == [m EXCEPT !.lit = h]
  <2>3. /\ t \in WidgetState
        /\ SameSelection(m, t)
        /\ t.opened = m.opened /\ t.rows = m.rows
        /\ t.selectable = m.selectable /\ t.disabled = m.disabled
    BY <1>1 DEF WidgetState, SameSelection
  <2>4. PostprocessResults(s) = t
    BY <1>3, <1>5, <2>1 DEF zero
  <2> HIDE DEF t
  <2>5. QED
    BY <1>2, <2>2, <2>3, <2>4 DEF SameSelection, t
<1>6. QED
  BY <1>4, <1>5

\* Showing the results of an open dropdown, whatever the text.
LEMMA UpdateKept ==
  ASSUME Select2Assumption, NEW w \in Widgets, NEW s, WidgetInv(s, Options[w]),
         NEW initial \in BOOLEAN, initial => s.opened
  PROVE  /\ WidgetInv(UpdateResults(s, w, initial), Options[w])
         /\ UpdateResults(s, w, initial).value = s.value
<1> DEFINE found == Query(w, s.text)
           p == Populate(s, found)
<1>1. CASE ~s.opened
  BY <1>1 DEF UpdateResults
<1>2. CASE s.opened
  <2>1. s \in WidgetState
    BY DEF WidgetInv, SelectionInv
  <2>2. found \subseteq Options[w] /\ Options[w] \subseteq AllOptions
    BY DEF Query, Select2Assumption
  <2> HIDE DEF found
  <2>3. p \in WidgetState
    BY <2>1, <2>2 DEF Populate, WidgetState
  <2>4. /\ SameSelection(s, p)
        /\ p.opened = s.opened /\ p.rows = found /\ p.selectable = found
    BY <2>1 DEF Populate, WidgetState, SameSelection
  <2>5. UpdateResults(s, w, initial) = PostprocessResults(p)
    BY <1>2 DEF UpdateResults, found
  <2> DEFINE t == PostprocessResults(p)
  <2> HIDE DEF p
  <2>6. /\ t \in WidgetState
        /\ SameSelection(p, t)
        /\ t.opened = p.opened /\ t.rows = p.rows
        /\ t.selectable = p.selectable \ p.value
        /\ t.disabled \cap t.selectable = {}
        /\ OneLit(t)
    BY <2>3, PostprocessFields
  <2> HIDE DEF t
  <2>7. SelectionInv(t, Options[w])
    BY <2>2, <2>4, <2>6 DEF WidgetInv, SelectionInv, SameSelection, ChoicesAgree
  <2>8. RowsInv(t)
    BY <1>2, <2>4, <2>6 DEF WidgetInv, RowsInv, SameSelection
  <2>9. QED
    BY <2>4, <2>5, <2>6, <2>7, <2>8 DEF WidgetInv, SameSelection, t
<1>3. QED
  BY <1>1, <1>2 DEF WidgetInv, SelectionInv, WidgetState

LEMMA CloseFields ==
  ASSUME NEW s \in WidgetState, s.opened
  PROVE  LET t == Close(s) IN
         /\ t \in WidgetState
         /\ SameSelection(s, t)
         /\ ~t.opened
         /\ t.rows = {} /\ t.selectable = {} /\ t.disabled = {} /\ t.lit = {}
<1>1. Blank \in Texts
  BY DEF Blank, Texts
<1>2. Close(s) = [s EXCEPT !.rows = {}, !.selectable = {}, !.disabled = {}, !.lit = {},
                           !.text = Blank, !.opened = FALSE, !.active = FALSE]
  BY DEF Close, ClearSearch, Populate, WidgetState
<1> DEFINE t == [s EXCEPT !.rows = {}, !.selectable = {}, !.disabled = {}, !.lit = {},
                          !.text = Blank, !.opened = FALSE, !.active = FALSE]
<1>3. t \in WidgetState
  BY <1>1 DEF WidgetState
<1>4. SameSelection(s, t)
  BY DEF WidgetState, SameSelection
<1>5. ~t.opened /\ t.rows = {} /\ t.selectable = {} /\ t.disabled = {} /\ t.lit = {}
  BY DEF WidgetState
<1> HIDE DEF t
<1>6. QED
  BY <1>2, <1>3, <1>4, <1>5 DEF t

LEMMA CloseKept ==
  ASSUME NEW O, NEW s, WidgetInv(s, O)
  PROVE  /\ WidgetInv(Close(s), O)
         /\ SameSelection(s, Close(s))
         /\ ~Close(s).opened
         /\ Close(s).rows = {}
<1>1. s \in WidgetState
  BY DEF WidgetInv, SelectionInv
<1>2. CASE s.opened
  <2> DEFINE t == Close(s)
  <2>1. /\ t \in WidgetState
        /\ SameSelection(s, t)
        /\ ~t.opened
        /\ t.rows = {} /\ t.selectable = {} /\ t.disabled = {} /\ t.lit = {}
    BY <1>1, <1>2, CloseFields
  <2> HIDE DEF t
  <2>2. SelectionInv(t, O)
    BY <2>1 DEF WidgetInv, SelectionInv, SameSelection, ChoicesAgree
  <2>3. RowsInv(t)
    BY <2>1 DEF WidgetInv, RowsInv, SameSelection, OneLit, Highlighted, Enabled
  <2>4. QED
    BY <2>1, <2>2, <2>3 DEF WidgetInv, t
<1>3. CASE ~s.opened
  BY <1>3 DEF Close, SameSelection, WidgetInv, RowsInv
<1>4. QED
  BY <1>2, <1>3

-----------------------------------------------------------------------------
(* The methods that change the selection.                                  *)

With(v, o) == v \cup {o}

\* Selecting a result that can be selected adds its option, and closes the dropdown.
LEMMA OnSelectKept ==
  ASSUME Select2Assumption, NEW O \in SUBSET AllOptions, NEW s, SelectionInv(s, O),
         s.opened, NEW o \in O, o \notin s.value
  PROVE  /\ WidgetInv(OnSelect(s, o), O)
         /\ OnSelect(s, o).value = With(s.value, o)
<1> DEFINE a == AddSelectedChoice(s, o)
           b == PostprocessResults(a)
           c == Close(b)
           d == TriggerChange(c)
<1>1. s \in WidgetState /\ s.choices \in Seq(AllOptions) /\ s.value \subseteq AllOptions
  BY DEF SelectionInv, WidgetState
<1>2. o \in AllOptions /\ Append(s.choices, o) \in Seq(AllOptions)
  BY <1>1
<1>3. a \in WidgetState
  <2> DEFINE ch == Append(s.choices, o)
             v == s.value \cup {o}
  <2>1. a = [s EXCEPT !.choices = ch, !.value = v]
    BY DEF AddSelectedChoice
  <2>2. ch \in Seq(AllOptions) /\ v \in SUBSET AllOptions
    BY <1>1, <1>2
  <2> HIDE DEF ch, v, a
  <2>3. QED
    BY <1>1, <2>1, <2>2 DEF WidgetState
<1>4. /\ a.value = s.value \cup {o} /\ a.choices = Append(s.choices, o)
      /\ a.marked = s.marked /\ a.fading = s.fading
      /\ a.opened = s.opened /\ a.rows = s.rows
  BY <1>1 DEF AddSelectedChoice, WidgetState
<1> HIDE DEF a
<1>5. ChoicesAgree(a)
  <2> DEFINE ch == s.choices
             n == Len(ch)
  <2>1. /\ n \in Nat
        /\ Len(a.choices) = n + 1
        /\ \A i \in 1..n : a.choices[i] = ch[i]
        /\ a.choices[n + 1] = o
    BY <1>1, <1>4
  <2>2. s.value = {ch[i] : i \in 1..n} /\ \A i, k \in 1..n : ch[i] = ch[k] => i = k
    BY DEF SelectionInv, ChoicesAgree
  <2> HIDE DEF ch, n
  <2>3. a.value = {a.choices[i] : i \in 1..Len(a.choices)}
    BY <1>4, <2>1, <2>2
  <2>4. ASSUME NEW i \in 1..(n + 1), NEW k \in 1..(n + 1), a.choices[i] = a.choices[k]
        PROVE  i = k
    <3>1. \A j \in 1..n : ch[j] # o
      BY <2>2
    <3>2. (i \in 1..n \/ i = n + 1) /\ (k \in 1..n \/ k = n + 1)
      BY <2>1
    <3>3. QED
      BY <2>1, <2>2, <2>4, <3>1, <3>2
  <2>5. QED
    BY <2>1, <2>3, <2>4 DEF ChoicesAgree
<1>6. /\ b \in WidgetState
      /\ SameSelection(a, b)
      /\ b.opened = a.opened /\ b.rows = a.rows
  BY <1>3, PostprocessFields
<1> HIDE DEF b
<1>7. /\ c \in WidgetState
      /\ SameSelection(b, c)
      /\ ~c.opened
      /\ c.rows = {} /\ c.selectable = {} /\ c.disabled = {} /\ c.lit = {}
  BY <1>4, <1>6, CloseFields
<1> HIDE DEF c
<1>8. /\ d \in WidgetState
      /\ d.value = c.value /\ d.announced = c.value /\ d.choices = c.choices
      /\ d.marked = c.marked /\ d.fading = c.fading
      /\ SameResults(c, d)
  BY <1>7 DEF TriggerChange, WidgetState, SameResults
<1> HIDE DEF d
<1>9. SelectionInv(d, O)
  BY <1>4, <1>5, <1>6, <1>7, <1>8
     DEF SelectionInv, SameSelection, SameResults, ChoicesAgree
<1>10. RowsInv(d)
  BY <1>7, <1>8 DEF RowsInv, SameResults, OneLit, Highlighted, Enabled
<1>11. OnSelect(s, o) = d
  BY DEF OnSelect, a, b, c, d
<1>12. d.value = With(s.value, o)
  BY <1>4, <1>6, <1>7, <1>8 DEF SameSelection, With
<1>13. QED
  BY <1>9, <1>10, <1>11, <1>12 DEF WidgetInv

\* Of the highlighted results, one at most, the option is added.
LEMMA SelectHighlightedKept ==
  ASSUME Select2Assumption, NEW O \in SUBSET AllOptions, NEW s, WidgetInv(s, O),
         Highlighted(s) # {}, s.opened
  PROVE  /\ WidgetInv(SelectHighlighted(s), O)
         /\ \E o \in Highlighted(s) :
              /\ o \in O \ s.value
              /\ SelectHighlighted(s).value = With(s.value, o)
<1> DEFINE o == Nth(Highlighted(s), 0)
           chosen == [s EXCEPT !.disabled = @ \cup Highlighted(s)]
           index == HighlightIndex(s)
           t == Highlight(chosen, index)
<1>1. s \in WidgetState
  BY DEF WidgetInv, SelectionInv
<1>2. Highlighted(s) \subseteq AllOptions /\ Highlighted(s) \subseteq s.selectable
  BY <1>1, EnabledTyped DEF Enabled
<1>3. o \in Highlighted(s)
  BY <1>2, LowestExists
<1>4. o \in O /\ o \notin s.value
  BY <1>2, <1>3 DEF WidgetInv, SelectionInv, RowsInv
<1>5. chosen \in WidgetState
  BY <1>1, <1>2 DEF WidgetState
<1>6. /\ SameSelection(s, chosen)
      /\ chosen.opened = s.opened /\ chosen.rows = s.rows
  BY <1>1 DEF WidgetState, SameSelection
<1>7. index \in Int
  BY <1>1, HighlightIndexTyped
<1> HIDE DEF chosen, index
<1>8. PICK h \in SUBSET AllOptions : t = [chosen EXCEPT !.lit = h]
  BY <1>5, <1>7, HighlightOne
<1>9. /\ t \in WidgetState
      /\ SameSelection(chosen, t)
      /\ t.opened = chosen.opened /\ t.rows = chosen.rows
  BY <1>5, <1>8 DEF WidgetState, SameSelection
<1> HIDE DEF t, o
<1>10. SelectionInv(t, O)
  BY <1>6, <1>9 DEF WidgetInv, SelectionInv, SameSelection, ChoicesAgree
<1>11. SelectHighlighted(s) = OnSelect(t, o)
  BY DEF SelectHighlighted, t, o, chosen, index
<1>12. o \notin t.value /\ t.value = s.value /\ t.opened
  BY <1>4, <1>6, <1>9 DEF SameSelection
<1>13. o \in O /\ o \notin t.value /\ t.opened
  BY <1>4, <1>12
<1>14. WidgetInv(OnSelect(t, o), O) /\ OnSelect(t, o).value = With(t.value, o)
  BY <1>10, <1>13, OnSelectKept
<1>15. QED
  BY <1>3, <1>4, <1>11, <1>12, <1>14

\* The choices without one of them.
LEMMA WithoutOne ==
  ASSUME NEW S, NEW ch \in Seq(S), NEW j \in 1..Len(ch),
         \A i, k \in 1..Len(ch) : ch[i] = ch[k] => i = k
  PROVE  LET d == Without(ch, j) IN
         /\ d \in Seq(S)
         /\ {d[i] : i \in 1..Len(d)} = {ch[i] : i \in 1..Len(ch)} \ {ch[j]}
         /\ \A i, k \in 1..Len(d) : d[i] = d[k] => i = k
<1> DEFINE n == Len(ch)
           d == Without(ch, j)
<1>1. n \in Nat \ {0} /\ \A i \in 1..n : ch[i] \in S
  OBVIOUS
<1>2. d = [k \in 1..(n - 1) |-> IF k < j THEN ch[k] ELSE ch[k + 1]]
  BY DEF Without
<1>3. d \in [1..(n - 1) -> S]
  BY <1>1, <1>2
<1>4. d \in Seq(S) /\ Len(d) = n - 1
  BY <1>1, <1>3
<1> HIDE DEF d
<1>5. \A k \in 1..(n - 1) : d[k] = IF k < j THEN ch[k] ELSE ch[k + 1]
  BY <1>2
<1>6. ASSUME NEW i \in 1..(n - 1)
      PROVE  \E k \in 1..n : k # j /\ d[i] = ch[k]
  <2>1. CASE i < j
    BY <1>1, <1>5, <2>1
  <2>2. CASE ~(i < j)
    <3>1. i + 1 \in 1..n /\ i + 1 # j /\ d[i] = ch[i + 1]
      BY <1>1, <1>5, <2>2
    <3>2. QED
      BY <3>1
  <2>3. QED
    BY <2>1, <2>2
<1>7. ASSUME NEW k \in 1..n, k # j
      PROVE  \E i \in 1..(n - 1) : d[i] = ch[k]
  <2>1. CASE k < j
    BY <1>1, <1>5, <2>1
  <2>2. CASE ~(k < j)
    <3>1. k - 1 \in 1..(n - 1) /\ ~(k - 1 < j) /\ (k - 1) + 1 = k
      BY <1>1, <1>7, <2>2
    <3>2. d[k - 1] = ch[k]
      BY <1>5, <3>1
    <3>3. QED
      BY <3>1, <3>2
  <2>3. QED
    BY <2>1, <2>2
<1>8. {d[i] : i \in 1..(n - 1)} = {ch[i] : i \in 1..n} \ {ch[j]}
  <2> DEFINE D == {d[i] : i \in 1..(n - 1)}
             C == {ch[l] : l \in 1..n}
  <2>1. ASSUME NEW x \in D
        PROVE  x \in C \ {ch[j]}
    <3>1. PICK i \in 1..(n - 1) : x = d[i]
      OBVIOUS
    <3>2. PICK k \in 1..n : k # j /\ d[i] = ch[k]
      BY <1>6
    <3>3. ch[k] # ch[j]
      BY <3>2
    <3>4. QED
      BY <3>1, <3>2, <3>3
  <2>2. ASSUME NEW x \in C \ {ch[j]}
        PROVE  x \in D
    <3>1. PICK k \in 1..n : x = ch[k] /\ k # j
      BY <2>2
    <3>2. QED
      BY <1>7, <3>1
  <2> HIDE DEF C, D
  <2>3. D = C \ {ch[j]}
    BY <2>1, <2>2
  <2>4. QED
    BY <2>3 DEF C, D
<1>9. ASSUME NEW i \in 1..(n - 1), NEW k \in 1..(n - 1), d[i] = d[k]
      PROVE  i = k
  <2> DEFINE at(l) == IF l < j THEN l ELSE l + 1
  <2>1. at(i) \in 1..n /\ at(k) \in 1..n
    BY <1>1
  <2>2. d[i] = ch[at(i)] /\ d[k] = ch[at(k)]
    BY <1>5
  <2>3. at(i) = at(k)
    <3> HIDE DEF at
    <3>1. QED
      BY <1>9, <2>1, <2>2
  <2>4. QED
    BY <2>3
<1>10. QED
  BY <1>4, <1>8, <1>9 DEF d

Minus(v, o) == v \ {o}

\* Removing a choice removes its option; it may leave rows that are not selectable.
LEMMA UnselectFields ==
  ASSUME Select2Assumption, NEW O \in SUBSET AllOptions, NEW s, SelectionInv(s, O),
         NEW o \in s.value
  PROVE  LET t == Unselect(s, o) IN
         /\ SelectionInv(t, O)
         /\ t.value = Minus(s.value, o)
         /\ t.announced = t.value
         /\ t.opened = s.opened /\ t.rows = s.rows
         /\ t.selectable \subseteq s.selectable
         /\ t.disabled \cap t.selectable = {}
         /\ OneLit(t)
<1> DEFINE v == Minus(s.value, o)
           a == [s EXCEPT !.value = v]
           b == PostprocessResults(a)
           j == IndexOf(s.choices, o)
           ch == Without(s.choices, j)
           m == b.marked \ {o}
           f == b.fading \ {o}
           c == [b EXCEPT !.choices = ch, !.marked = m, !.fading = f]
           d == TriggerChange(c)
<1>1. s \in WidgetState /\ s.choices \in Seq(AllOptions) /\ ChoicesAgree(s)
  BY DEF SelectionInv, WidgetState
<1>2. v \in SUBSET AllOptions
  BY <1>1 DEF Minus, WidgetState
<1>3. j \in 1..Len(s.choices) /\ s.choices[j] = o
  <2>1. \E i \in 1..Len(s.choices) : s.choices[i] = o
    BY <1>1 DEF ChoicesAgree
  <2>2. QED
    BY <2>1 DEF IndexOf
<1> HIDE DEF v, j
<1>4. /\ ch \in Seq(AllOptions)
      /\ {ch[i] : i \in 1..Len(ch)} = v
      /\ \A i, k \in 1..Len(ch) : ch[i] = ch[k] => i = k
  <2>1. /\ ch \in Seq(AllOptions)
        /\ {ch[i] : i \in 1..Len(ch)} =
             {s.choices[i] : i \in 1..Len(s.choices)} \ {s.choices[j]}
        /\ \A i, k \in 1..Len(ch) : ch[i] = ch[k] => i = k
    BY <1>1, <1>3, WithoutOne DEF ChoicesAgree
  <2>2. {s.choices[i] : i \in 1..Len(s.choices)} = s.value
    BY <1>1 DEF ChoicesAgree
  <2>3. QED
    BY <1>3, <2>1, <2>2 DEF v, Minus
<1> HIDE DEF ch
<1>5. /\ a \in WidgetState /\ a.value = v
      /\ a.marked = s.marked /\ a.fading = s.fading
      /\ a.opened = s.opened /\ a.rows = s.rows /\ a.selectable = s.selectable
  BY <1>1, <1>2 DEF WidgetState
<1> HIDE DEF a
<1>6. /\ b \in WidgetState
      /\ SameSelection(a, b)
      /\ b.opened = a.opened /\ b.rows = a.rows
      /\ b.selectable \subseteq a.selectable
      /\ b.disabled \cap b.selectable = {}
      /\ OneLit(b)
  BY <1>5, PostprocessFields
<1> HIDE DEF b
<1>7. m \in SUBSET AllOptions /\ f \in SUBSET AllOptions
  BY <1>6 DEF WidgetState
<1>8. m \subseteq v /\ f \subseteq v
  BY <1>5, <1>6 DEF SelectionInv, SameSelection, v, Minus
<1> HIDE DEF m, f
<1>9. /\ c \in WidgetState
      /\ c.value = b.value /\ c.choices = ch /\ c.marked = m /\ c.fading = f
      /\ SameResults(b, c)
  BY <1>4, <1>6, <1>7 DEF WidgetState, SameResults
<1> HIDE DEF c
<1>10. /\ d \in WidgetState
       /\ d.value = c.value /\ d.choices = c.choices
       /\ d.marked = c.marked /\ d.fading = c.fading
       /\ d.announced = c.value
       /\ SameResults(c, d)
  BY <1>9 DEF TriggerChange, WidgetState, SameResults
<1> HIDE DEF d
<1>11. d.value = v /\ d.choices = ch /\ d.marked = m /\ d.fading = f /\ d.announced = v
  BY <1>5, <1>6, <1>9, <1>10 DEF SameSelection
<1>12. SelectionInv(d, O)
  <2>1. ChoicesAgree(d)
    BY <1>4, <1>11 DEF ChoicesAgree
  <2>2. d.value \subseteq O
    BY <1>11 DEF SelectionInv, v, Minus
  <2>3. d.rows \subseteq O
    BY <1>5, <1>6, <1>9, <1>10 DEF SelectionInv, SameResults
  <2>4. QED
    BY <1>8, <1>10, <1>11, <2>1, <2>2, <2>3 DEF SelectionInv
<1>13. OneLit(d)
  BY <1>6, <1>9, <1>10 DEF SameResults, OneLit, Highlighted, Enabled
<1>14. /\ d.opened = s.opened /\ d.rows = s.rows
       /\ d.selectable \subseteq s.selectable
       /\ d.disabled \cap d.selectable = {}
  BY <1>5, <1>6, <1>9, <1>10 DEF SameResults
<1>15. Unselect(s, o) = d
  <2>1. c = [b EXCEPT !.choices = Without(@, IndexOf(@, o)), !.marked = @ \ {o},
                      !.fading = @ \ {o}]
    <3>1. b.choices = s.choices
      BY <1>1, <1>6 DEF SameSelection, a, WidgetState
    <3>2. QED
      BY <3>1 DEF c, ch, j, m, f
  <2>2. QED
    BY <2>1 DEF Unselect, a, b, d, v, Minus
<1>16. QED
  BY <1>11, <1>12, <1>13, <1>14, <1>15 DEF v

\* From the keyboard, after the dropdown was closed.
LEMMA UnselectClosedKept ==
  ASSUME Select2Assumption, NEW O \in SUBSET AllOptions, NEW s, WidgetInv(s, O),
         s.rows = {}, NEW o \in s.value
  PROVE  /\ WidgetInv(Unselect(s, o), O)
         /\ Unselect(s, o).value = Minus(s.value, o)
<1> DEFINE t == Unselect(s, o)
<1>1. SelectionInv(s, O)
  BY DEF WidgetInv
<1>2. /\ SelectionInv(t, O)
      /\ t.value = Minus(s.value, o)
      /\ t.announced = t.value
      /\ t.opened = s.opened /\ t.rows = s.rows
      /\ t.selectable \subseteq s.selectable
      /\ t.disabled \cap t.selectable = {}
      /\ OneLit(t)
  BY <1>1, UnselectFields
<1> HIDE DEF t
<1>3. RowsInv(t)
  BY <1>2 DEF WidgetInv, RowsInv
<1>4. QED
  BY <1>2, <1>3 DEF WidgetInv, t

\* From the mouse, before the dropdown is closed.
LEMMA UnselectThenCloseKept ==
  ASSUME Select2Assumption, NEW O \in SUBSET AllOptions, NEW s, WidgetInv(s, O),
         NEW o \in s.value
  PROVE  LET t == Close([Unselect(s, o) EXCEPT !.marked = {}]) IN
         WidgetInv(t, O) /\ t.value = Minus(s.value, o)
<1> DEFINE u == Unselect(s, o)
           x == [u EXCEPT !.marked = {}]
           t == Close(x)
<1>1. SelectionInv(s, O)
  BY DEF WidgetInv
<1>2. /\ SelectionInv(u, O)
      /\ u.value = Minus(s.value, o)
      /\ u.announced = u.value
      /\ u.opened = s.opened /\ u.rows = s.rows
      /\ u.selectable \subseteq s.selectable
      /\ u.disabled \cap u.selectable = {}
      /\ OneLit(u)
  BY <1>1, UnselectFields
<1> HIDE DEF u
<1>3. u \in WidgetState
  BY <1>2 DEF SelectionInv
<1>4. /\ x \in WidgetState /\ x.value = u.value /\ x.announced = u.announced
      /\ x.choices = u.choices /\ x.marked = {} /\ x.fading = u.fading
      /\ SameResults(u, x)
  BY <1>3 DEF WidgetState, SameResults
<1> HIDE DEF x
<1>5. SelectionInv(x, O) /\ x.announced = x.value /\ x.value = Minus(s.value, o)
  BY <1>2, <1>4 DEF SelectionInv, ChoicesAgree, SameResults
<1>6. CASE x.opened
  <2>1. /\ t \in WidgetState
        /\ SameSelection(x, t)
        /\ ~t.opened
        /\ t.rows = {} /\ t.selectable = {} /\ t.disabled = {} /\ t.lit = {}
    BY <1>4, <1>6, CloseFields
  <2> HIDE DEF t
  <2>2. SelectionInv(t, O)
    BY <1>5, <2>1 DEF SelectionInv, SameSelection, ChoicesAgree
  <2>3. RowsInv(t)
    BY <1>5, <2>1 DEF RowsInv, SameSelection, OneLit, Highlighted, Enabled
  <2>4. t.value = Minus(s.value, o)
    BY <1>5, <2>1 DEF SameSelection
  <2>5. QED
    BY <2>2, <2>3, <2>4 DEF WidgetInv, t, x, u
<1>7. CASE ~x.opened
  <2>1. t = x
    BY <1>7 DEF Close
  <2>2. s.rows = {} /\ s.selectable = {}
    BY <1>2, <1>4, <1>7 DEF WidgetInv, RowsInv, SameResults
  <2>3. RowsInv(x)
    BY <1>2, <1>4, <1>5, <2>2 DEF RowsInv, SameResults, OneLit, Highlighted, Enabled
  <2>4. QED
    BY <1>5, <2>1, <2>3 DEF WidgetInv, x, u
<1>8. QED
  BY <1>6, <1>7
-----------------------------------------------------------------------------
(* What a handler may do to a widget and leave its selection and results.  *)

Free(s, t) ==
  /\ t \in WidgetState
  /\ SameResults(s, t)
  /\ t.value = s.value /\ t.announced = s.announced /\ t.choices = s.choices
  /\ t.fading = s.fading /\ t.marked \subseteq s.marked

LEMMA FreeKept ==
  ASSUME NEW O, NEW s, WidgetInv(s, O), NEW t, Free(s, t)
  PROVE  WidgetInv(t, O) /\ t.value = s.value
BY FrameKept DEF Free

LEMMA TextFree ==
  ASSUME NEW s \in WidgetState, NEW x \in Texts, NEW a \in BOOLEAN, NEW d \in BOOLEAN
  PROVE  /\ Free(s, [s EXCEPT !.text = x])
         /\ Free(s, [s EXCEPT !.text = x, !.active = a])
         /\ Free(s, [s EXCEPT !.text = x, !.active = a, !.dropActive = d])
         /\ Free(s, [s EXCEPT !.dropActive = d])
BY DEF Free, SameResults, WidgetState

LEMMA FreeMethods ==
  ASSUME NEW s \in WidgetState
  PROVE  /\ Free(s, ClearPlaceholder(s))
         /\ Free(s, OnFocus(s)) /\ Free(s, OnBlur(s))
         /\ Free(s, Open(s)) /\ Free(s, Unmarked(s)) /\ Free(s, Remember(s))
         /\ Free(s, Erase(s))
         /\ Free(s, [s EXCEPT !.refocus = @ + 1])
<1> DEFINE x == IF s.text = Blank THEN Empty ELSE s.text
<1>1. Blank \in Texts /\ x \in Texts /\ s.text \in Texts
  BY DEF Blank, Empty, Texts, WidgetState
<1>2. ClearPlaceholder(s) = [s EXCEPT !.text = x]
  BY DEF ClearPlaceholder
<1>3. OnFocus(s) = [s EXCEPT !.text = x, !.active = TRUE, !.dropActive = TRUE]
  BY <1>2 DEF OnFocus
<1>4. OnBlur(s) = [s EXCEPT !.text = Blank, !.active = FALSE]
  BY DEF OnBlur, ClearSearch
<1> HIDE DEF x
<1>5. Free(s, Open(s)) /\ Free(s, Unmarked(s)) /\ Free(s, [s EXCEPT !.refocus = @ + 1])
  <2>1. Free(s, s)
    BY DEF Free, SameResults
  <2>2. s.openings + 1 \in Nat /\ s.refocus + 1 \in Nat
    BY DEF WidgetState
  <2> DEFINE m == s.openings + 1
             n == s.refocus + 1
  <2>3. /\ Open(s) = IF s.opened THEN s ELSE [s EXCEPT !.openings = m]
        /\ [s EXCEPT !.refocus = @ + 1] = [s EXCEPT !.refocus = n]
    BY DEF Open
  <2> HIDE DEF m, n
  <2>4. Free(s, [s EXCEPT !.openings = m])
    BY <2>2 DEF Free, SameResults, WidgetState, m
  <2>5. Free(s, [s EXCEPT !.refocus = n])
    BY <2>2 DEF Free, SameResults, WidgetState, n
  <2>6. Free(s, Unmarked(s))
    BY DEF Unmarked, Free, SameResults, WidgetState
  <2>7. QED
    BY <2>1, <2>3, <2>4, <2>5, <2>6
<1>6. Free(s, Remember(s))
  BY <1>1 DEF Remember, Free, SameResults, WidgetState
<1>7. Free(s, Erase(s))
  <2> DEFINE y == IF s.text.word # NoWord THEN [s.text EXCEPT !.word = NoWord] ELSE Empty
  <2>1. y \in Texts
    BY <1>1 DEF Texts, Empty
  <2>2. Erase(s) = [s EXCEPT !.text = y]
    BY DEF Erase
  <2> HIDE DEF y
  <2>3. QED
    BY <2>1, <2>2, TextFree
<1>8. Free(s, ClearPlaceholder(s)) /\ Free(s, OnFocus(s)) /\ Free(s, OnBlur(s))
  BY <1>1, <1>2, <1>3, <1>4, TextFree
<1>9. QED
  BY <1>5, <1>6, <1>7, <1>8

\* A method that keeps the invariant and the value: what the handlers compose.
Same(s, t, O) == WidgetInv(t, O) /\ t.value = s.value

LEMMA MethodsKept ==
  ASSUME NEW O, NEW s, WidgetInv(s, O)
  PROVE  /\ Same(s, ClearPlaceholder(s), O)
         /\ Same(s, OnFocus(s), O) /\ Same(s, OnBlur(s), O)
         /\ Same(s, Open(s), O) /\ Same(s, Unmarked(s), O) /\ Same(s, Remember(s), O)
         /\ Same(s, Erase(s), O)
         /\ Same(s, [s EXCEPT !.refocus = @ + 1], O)
         /\ Same(s, Close(s), O)
<1>1. s \in WidgetState
  BY DEF WidgetInv, SelectionInv
<1>2. Same(s, Close(s), O)
  BY CloseKept DEF Same, SameSelection
<1>3. QED
  BY <1>1, <1>2, FreeMethods, FreeKept DEF Same

LEMMA BlurKept ==
  ASSUME NEW O, NEW s, WidgetInv(s, O)
  PROVE  Same(s, Blur(s), O) /\ ~Blur(s).opened
<1> DEFINE c == Close(s)
           t == [c EXCEPT !.text = Blank, !.active = FALSE, !.dropActive = FALSE,
                          !.marked = {}]
<1>1. WidgetInv(c, O) /\ c.value = s.value /\ ~c.opened
  BY CloseKept DEF SameSelection
<1> HIDE DEF c
<1>2. c \in WidgetState
  BY <1>1 DEF WidgetInv, SelectionInv
<1>3. Blur(s) = t
  BY DEF Blur, ClearSearch, c
<1>4. Blank \in Texts
  BY DEF Blank, Texts
<1>5. Free(c, t)
  BY <1>2, <1>4 DEF Free, SameResults, WidgetState
<1> HIDE DEF t
<1>6. QED
  BY <1>1, <1>3, <1>5, FreeKept DEF Same, Free, SameResults

-----------------------------------------------------------------------------
(* All the widgets of the page.                                            *)

AllInv(all) ==
  /\ all \in [Widgets -> WidgetState]
  /\ \A v \in Widgets : WidgetInv(all[v], Options[v])

Values(all) == [v \in Widgets |-> all[v].value]

LEMMA PutKept ==
  ASSUME NEW all, AllInv(all), NEW w \in Widgets, NEW t, WidgetInv(t, Options[w])
  PROVE  /\ AllInv([all EXCEPT ![w] = t])
         /\ Values([all EXCEPT ![w] = t]) = [Values(all) EXCEPT ![w] = t.value]
BY DEF AllInv, Values, WidgetInv, SelectionInv

LEMMA PutSame ==
  ASSUME NEW all, AllInv(all), NEW w \in Widgets, NEW t, Same(all[w], t, Options[w])
  PROVE  /\ AllInv([all EXCEPT ![w] = t])
         /\ Values([all EXCEPT ![w] = t]) = Values(all)
BY DEF AllInv, Values, WidgetInv, SelectionInv, Same

LEMMA MoveFocusKept ==
  ASSUME NEW all, AllInv(all), NEW w
  PROVE  AllInv(MoveFocus(all, w)) /\ Values(MoveFocus(all, w)) = Values(all)
<1> DEFINE f(v) == IF v = w /\ v # focus THEN OnFocus(all[v])
                   ELSE IF v = focus /\ v # w THEN OnBlur(all[v])
                   ELSE all[v]
           new == [v \in Widgets |-> f(v)]
<1>1. ASSUME NEW v \in Widgets
      PROVE  Same(all[v], f(v), Options[v])
  <2>1. WidgetInv(all[v], Options[v])
    BY DEF AllInv
  <2>2. Same(all[v], OnFocus(all[v]), Options[v]) /\ Same(all[v], OnBlur(all[v]), Options[v])
    BY <2>1, MethodsKept
  <2>3. Same(all[v], all[v], Options[v])
    BY <2>1 DEF Same
  <2>4. QED
    BY <2>2, <2>3
<1>2. MoveFocus(all, w) = new
  BY DEF MoveFocus
<1> HIDE DEF f
<1>3. AllInv(new) /\ Values(new) = Values(all)
  BY <1>1 DEF AllInv, Values, Same, WidgetInv, SelectionInv
<1>4. QED
  BY <1>2, <1>3

LEMMA FocusSearchKept ==
  ASSUME NEW all, AllInv(all), NEW w \in Widgets
  PROVE  AllInv(FocusSearch(all, w)) /\ Values(FocusSearch(all, w)) = Values(all)
<1> DEFINE t == [all[w] EXCEPT !.refocus = @ + 1]
           new == [all EXCEPT ![w] = t]
<1>1. Same(all[w], t, Options[w])
  BY MethodsKept DEF AllInv
<1>2. FocusSearch(all, w) = MoveFocus(new, w)
  BY DEF FocusSearch, AllInv
<1> HIDE DEF t
<1>3. AllInv(new) /\ Values(new) = Values(all)
  BY <1>1, PutSame
<1> HIDE DEF new
<1>4. QED
  BY <1>2, <1>3, MoveFocusKept

LEMMA BlurOthersKept ==
  ASSUME NEW all, AllInv(all), NEW w
  PROVE  AllInv(BlurOthers(all, w)) /\ Values(BlurOthers(all, w)) = Values(all)
<1> DEFINE f(v) == IF v # w /\ all[v].active THEN Blur(all[v]) ELSE all[v]
           new == [v \in Widgets |-> f(v)]
<1>1. ASSUME NEW v \in Widgets
      PROVE  Same(all[v], f(v), Options[v])
  BY BlurKept DEF AllInv, Same
<1>2. BlurOthers(all, w) = new
  BY DEF BlurOthers
<1> HIDE DEF f
<1>3. AllInv(new) /\ Values(new) = Values(all)
  BY <1>1 DEF AllInv, Values, Same, WidgetInv, SelectionInv
<1>4. QED
  BY <1>2, <1>3

-----------------------------------------------------------------------------
(* The actions.  Each leaves every value as it is, or toggles one option.  *)

Still == AllInv(ui') /\ Values(ui') = Values(ui)

Toggled(w, o) ==
  /\ AllInv(ui')
  /\ Values(ui') = [Values(ui) EXCEPT
       ![w] = IF o \in ui[w].value THEN Minus(ui[w].value, o) ELSE With(ui[w].value, o)]

LEMMA OpeningKept ==
  ASSUME Select2Assumption, AllInv(ui), NEW w \in Widgets, Opening(w)
  PROVE  Still
<1> DEFINE x == IF ui[w].text = Blank THEN Empty ELSE ui[w].text
           n == ui[w].openings - 1
           s == [ui[w] EXCEPT !.openings = n, !.opened = TRUE, !.active = TRUE,
                              !.text = x]
           u == UpdateResults(s, w, TRUE)
           shown == [u EXCEPT !.dropActive = TRUE]
           t == ClearPlaceholder(shown)
           all == [ui EXCEPT ![w] = t]
<1>1. ui[w] \in WidgetState /\ WidgetInv(ui[w], Options[w])
  BY DEF AllInv
<1>2. x \in Texts /\ n \in Nat
  BY <1>1 DEF Opening, Empty, Texts, WidgetState
<1>3. ui' = FocusSearch(all, w)
  BY DEF Opening
<1> HIDE DEF x, n
<1>4. /\ s \in WidgetState
      /\ SameSelection(ui[w], s)
      /\ s.opened
      /\ s.rows = ui[w].rows /\ s.selectable = ui[w].selectable
      /\ s.disabled = ui[w].disabled /\ s.lit = ui[w].lit
  BY <1>1, <1>2 DEF WidgetState, SameSelection
<1> HIDE DEF s
<1>5. WidgetInv(s, Options[w]) /\ s.value = ui[w].value
  <2>1. SelectionInv(s, Options[w])
    BY <1>1, <1>4 DEF WidgetInv, SelectionInv, SameSelection, ChoicesAgree
  <2>2. RowsInv(s)
    BY <1>1, <1>4 DEF WidgetInv, RowsInv, SameSelection, OneLit, Highlighted, Enabled
  <2>3. QED
    BY <1>4, <2>1, <2>2 DEF WidgetInv, SameSelection
<1>6. WidgetInv(u, Options[w]) /\ u.value = s.value
  <2> DEFINE initial == TRUE
  <2>1. initial \in BOOLEAN /\ (initial => s.opened)
    BY <1>4
  <2>2. u = UpdateResults(s, w, initial)
    OBVIOUS
  <2> HIDE DEF initial, u
  <2>3. QED
    BY <1>5, <2>1, <2>2, UpdateKept
<1> HIDE DEF u
<1>7. u \in WidgetState
  BY <1>6 DEF WidgetInv, SelectionInv
<1>8. Free(u, shown)
  BY <1>7 DEF Free, SameResults, WidgetState
<1> HIDE DEF shown
<1>9. WidgetInv(shown, Options[w]) /\ shown.value = u.value
  BY <1>6, <1>8, FreeKept
<1>10. Same(ui[w], t, Options[w])
  BY <1>5, <1>6, <1>9, MethodsKept DEF Same
<1> HIDE DEF t
<1>11. AllInv(all) /\ Values(all) = Values(ui)
  BY <1>10, PutSame
<1> HIDE DEF all
<1>12. QED
  BY <1>3, <1>11, FocusSearchKept DEF Still

LEMMA RefocusKept ==
  ASSUME Select2Assumption, AllInv(ui), NEW w \in Widgets, Refocus(w)
  PROVE  Still
<1> DEFINE n == ui[w].refocus - 1
           t == [ui[w] EXCEPT !.refocus = n]
           all == [ui EXCEPT ![w] = t]
<1>1. ui[w] \in WidgetState /\ WidgetInv(ui[w], Options[w])
  BY DEF AllInv
<1>2. n \in Nat
  BY <1>1 DEF Refocus, WidgetState
<1>3. ui' = MoveFocus(all, w)
  BY DEF Refocus, AllInv
<1> HIDE DEF n
<1>4. Free(ui[w], t)
  BY <1>1, <1>2 DEF Free, SameResults, WidgetState
<1> HIDE DEF t
<1>5. Same(ui[w], t, Options[w])
  BY <1>1, <1>4, FreeKept DEF Same
<1>6. AllInv(all) /\ Values(all) = Values(ui)
  BY <1>5, PutSame
<1> HIDE DEF all
<1>7. QED
  BY <1>3, <1>6, MoveFocusKept DEF Still

LEMMA FadeDoneKept ==
  ASSUME Select2Assumption, AllInv(ui), NEW w \in Widgets, NEW o, FadeDone(w, o)
  PROVE  o \in Options[w] /\ Toggled(w, o)
<1> DEFINE t == Close([Unselect(ui[w], o) EXCEPT !.marked = {}])
           all == [ui EXCEPT ![w] = t]
<1>1. WidgetInv(ui[w], Options[w]) /\ Options[w] \in SUBSET AllOptions
  BY DEF AllInv, Select2Assumption
<1>2. o \in ui[w].value /\ o \in Options[w]
  BY <1>1 DEF FadeDone, WidgetInv, SelectionInv
<1>3. ui' = FocusSearch(all, w)
  BY DEF FadeDone
<1>4. WidgetInv(t, Options[w]) /\ t.value = Minus(ui[w].value, o)
  BY <1>1, <1>2, UnselectThenCloseKept
<1> HIDE DEF t
<1>5. AllInv(all) /\ Values(all) = [Values(ui) EXCEPT ![w] = t.value]
  BY <1>4, PutKept
<1> HIDE DEF all
<1>6. AllInv(ui') /\ Values(ui') = Values(all)
  BY <1>3, <1>5, FocusSearchKept
<1>7. QED
  BY <1>2, <1>4, <1>5, <1>6 DEF Toggled

LEMMA ContainerKept ==
  ASSUME Select2Assumption, AllInv(ui), NEW w \in Widgets, MouseDownContainer(w)
  PROVE  Still
<1> DEFINE p == ClearPlaceholder(ui[w])
           t == Open(p)
           put == [ui EXCEPT ![w] = t]
           clicked == FocusSearch(put, w)
<1>1. WidgetInv(ui[w], Options[w])
  BY DEF AllInv
<1>2. ui' = BlurOthers(clicked, w)
  BY DEF MouseDownContainer, AllInv
<1>3. WidgetInv(p, Options[w]) /\ p.value = ui[w].value
  BY <1>1, MethodsKept DEF Same
<1> HIDE DEF p
<1>4. Same(ui[w], t, Options[w])
  BY <1>3, MethodsKept DEF Same
<1> HIDE DEF t
<1>5. AllInv(put) /\ Values(put) = Values(ui)
  BY <1>4, PutSame
<1> HIDE DEF put
<1>6. AllInv(clicked) /\ Values(clicked) = Values(ui)
  BY <1>5, FocusSearchKept
<1> HIDE DEF clicked
<1>7. QED
  BY <1>2, <1>6, BlurOthersKept DEF Still

LEMMA PageMouseKept ==
  ASSUME Select2Assumption, AllInv(ui), NEW w \in Widgets,
         MouseDownChoice(w) \/ MouseDownDropdown(w) \/ MouseDownOutside
  PROVE  Still
<1>1. CASE MouseDownChoice(w)
  <2> DEFINE all == BlurOthers(ui, w)
  <2>1. ui' = MoveFocus(all, NoWidget)
    BY <1>1 DEF MouseDownChoice
  <2>2. AllInv(all) /\ Values(all) = Values(ui)
    BY BlurOthersKept
  <2> HIDE DEF all
  <2>3. QED
    BY <2>1, <2>2, MoveFocusKept DEF Still
<1>2. CASE MouseDownDropdown(w)
  <2>1. ui' = MoveFocus(ui, NoWidget)
    BY <1>2 DEF MouseDownDropdown
  <2>2. QED
    BY <2>1, MoveFocusKept DEF Still
<1>3. CASE MouseDownOutside
  <2> DEFINE f(v) == IF ui[v].dropActive THEN Blur(ui[v]) ELSE ui[v]
             all == [v \in Widgets |-> f(v)]
  <2>1. ui' = MoveFocus(all, NoWidget)
    BY <1>3 DEF MouseDownOutside
  <2>2. \A v \in Widgets : Same(ui[v], f(v), Options[v])
    BY BlurKept DEF AllInv, Same
  <2> HIDE DEF f
  <2>3. AllInv(all) /\ Values(all) = Values(ui)
    BY <2>2 DEF AllInv, Values, Same, WidgetInv, SelectionInv
  <2> HIDE DEF all
  <2>4. QED
    BY <2>1, <2>3, MoveFocusKept DEF Still
<1>4. QED
  BY <1>1, <1>2, <1>3

LEMMA ClickCloseKept ==
  ASSUME Select2Assumption, AllInv(ui), NEW w \in Widgets, NEW o, ClickClose(w, o)
  PROVE  Still
<1> DEFINE f == ui[w].fading \cup {o}
           t == [ui[w] EXCEPT !.fading = f]
<1>1. ui[w] \in WidgetState /\ WidgetInv(ui[w], Options[w])
  BY DEF AllInv
<1>2. ui' = [ui EXCEPT ![w] = t]
  BY DEF ClickClose, AllInv
<1>3. f \subseteq ui[w].value /\ f \in SUBSET AllOptions
  BY <1>1 DEF ClickClose, WidgetInv, SelectionInv, WidgetState
<1> HIDE DEF f
<1>4. /\ t \in WidgetState /\ t.fading = f /\ SameResults(ui[w], t)
      /\ t.value = ui[w].value /\ t.announced = ui[w].announced
      /\ t.choices = ui[w].choices /\ t.marked = ui[w].marked
  BY <1>1, <1>3 DEF WidgetState, SameResults
<1> HIDE DEF t
<1>5. SelectionInv(t, Options[w])
  BY <1>1, <1>3, <1>4 DEF WidgetInv, SelectionInv, SameResults, ChoicesAgree
<1>6. RowsInv(t)
  BY <1>1, <1>4 DEF WidgetInv, RowsInv, SameResults, OneLit, Highlighted, Enabled
<1>7. Same(ui[w], t, Options[w])
  BY <1>4, <1>5, <1>6 DEF Same, WidgetInv
<1>8. QED
  BY <1>2, <1>7, PutSame DEF Still

LEMMA HoverStepKept ==
  ASSUME Select2Assumption, AllInv(ui), NEW w \in Widgets, NEW o, Hover(w, o)
  PROVE  Still
<1> DEFINE t == HighlightUnderEvent(ui[w], o)
<1>1. Same(ui[w], t, Options[w])
  BY HoverKept DEF AllInv, Same
<1>2. ui' = [ui EXCEPT ![w] = t]
  BY DEF Hover
<1> HIDE DEF t
<1>3. QED
  BY <1>1, <1>2, PutSame DEF Still

\* A click on an enabled row selects that row, since no other is highlighted then.
LEMMA MouseUpRowKept ==
  ASSUME Select2Assumption, AllInv(ui), NEW w \in Widgets, NEW o, MouseUpRow(w, o)
  PROVE  /\ o \in Enabled(ui[w]) =>
              /\ o \in Options[w] \ ui[w].value
              /\ AllInv(ui')
              /\ Values(ui') = [Values(ui) EXCEPT ![w] = With(ui[w].value, o)]
         /\ o \notin Enabled(ui[w]) => Still
<1>1. WidgetInv(ui[w], Options[w]) /\ Options[w] \in SUBSET AllOptions
  BY DEF AllInv, Select2Assumption
<1>2. CASE o \notin Enabled(ui[w])
  <2>1. ui' = FocusSearch(ui, w)
    <3>1. [ui EXCEPT ![w] = ui[w]] = ui
      BY DEF AllInv
    <3>2. QED
      BY <1>2, <3>1 DEF MouseUpRow
  <2>2. QED
    BY <1>2, <2>1, FocusSearchKept DEF Still
<1>3. CASE o \in Enabled(ui[w])
  <2> DEFINE h == HighlightUnderEvent(ui[w], o)
             t == SelectHighlighted(h)
             all == [ui EXCEPT ![w] = t]
  <2>1. ui' = FocusSearch(all, w)
    BY <1>3 DEF MouseUpRow
  <2>2. Highlighted(h) = {o}
    BY <1>1, <1>3, HoverHighlights
  <2>3. WidgetInv(h, Options[w]) /\ h.value = ui[w].value /\ h.opened = ui[w].opened
    BY <1>1, HoverKept
  <2>4. ui[w].opened
    BY <1>1 DEF MouseUpRow, WidgetInv, RowsInv
  <2> HIDE DEF h
  <2>5. /\ WidgetInv(t, Options[w])
        /\ \E p \in Highlighted(h) : p \in Options[w] \ h.value /\ t.value = With(h.value, p)
    BY <1>1, <2>2, <2>3, <2>4, SelectHighlightedKept
  <2> HIDE DEF t
  <2>6. o \in Options[w] \ ui[w].value /\ t.value = With(ui[w].value, o)
    BY <2>2, <2>3, <2>5
  <2>7. AllInv(all) /\ Values(all) = [Values(ui) EXCEPT ![w] = t.value]
    BY <2>5, PutKept
  <2> HIDE DEF all
  <2>8. AllInv(ui') /\ Values(ui') = Values(all)
    BY <2>1, <2>7, FocusSearchKept
  <2>9. QED
    BY <1>3, <2>6, <2>7, <2>8
<1>4. QED
  BY <1>2, <1>3

LEMMA TypeKept ==
  ASSUME Select2Assumption, AllInv(ui), NEW w \in Widgets, NEW word \in Typed[w],
         Type(w, word)
  PROVE  Still
<1> DEFINE u == Unmarked(ui[w])
           p == Open(u)
           s == Remember(p)
           x == [s.text EXCEPT !.word = word]
           t == [s EXCEPT !.text = x]
<1>1. WidgetInv(ui[w], Options[w]) /\ word \in Words
  BY DEF AllInv, Select2Assumption
<1>2. ui' = [ui EXCEPT ![w] = t]
  BY DEF Type
<1>3. WidgetInv(u, Options[w]) /\ u.value = ui[w].value
  BY <1>1, MethodsKept DEF Same
<1> HIDE DEF u
<1>4. WidgetInv(p, Options[w]) /\ p.value = ui[w].value
  BY <1>3, MethodsKept DEF Same
<1> HIDE DEF p
<1>5. WidgetInv(s, Options[w]) /\ s.value = ui[w].value
  BY <1>4, MethodsKept DEF Same
<1> HIDE DEF s
<1>6. s \in WidgetState
  BY <1>5 DEF WidgetInv, SelectionInv
<1>7. x \in Texts
  BY <1>1, <1>6 DEF WidgetState, Texts
<1> HIDE DEF x
<1>8. Same(ui[w], t, Options[w])
  BY <1>5, <1>6, <1>7, TextFree, FreeKept DEF Same
<1> HIDE DEF t
<1>9. QED
  BY <1>2, <1>8, PutSame DEF Still

LEMMA BackspaceKept ==
  ASSUME Select2Assumption, AllInv(ui), NEW w \in Widgets, Backspace(w)
  PROVE  Still \/ \E o \in Options[w] : Toggled(w, o)
<1> DEFINE s == ui[w]
           c == Close(s)
           first == CHOOSE o \in s.marked : TRUE
           last == s.choices[Len(s.choices)]
           put(t) == ui' = [ui EXCEPT ![w] = t]
<1>1. WidgetInv(s, Options[w]) /\ Options[w] \in SUBSET AllOptions
  BY DEF AllInv, Select2Assumption
<1>2. WidgetInv(c, Options[w]) /\ SameSelection(s, c) /\ c.rows = {}
  BY <1>1, CloseKept
<1>3. \/ put(Erase(Remember(Unmarked(s))))
      \/ s.marked # {} /\ put(Remember(Unselect(c, first)))
      \/ s.choices # <<>> /\ put(Erase(Remember([c EXCEPT !.marked = {last}])))
      \/ put(Erase(Remember(c)))
  BY DEF Backspace
<1> HIDE DEF c
<1>4. ASSUME NEW t, Same(s, t, Options[w]), put(t)
      PROVE  Still
  BY <1>4, PutSame DEF Still
<1>5. ASSUME NEW t, Same(s, t, Options[w])
      PROVE  Same(s, Remember(t), Options[w]) /\ Same(s, Erase(t), Options[w])
  BY <1>5, MethodsKept DEF Same
<1>6. CASE put(Erase(Remember(Unmarked(s))))
  <2>1. Same(s, Unmarked(s), Options[w])
    BY <1>1, MethodsKept
  <2> HIDE DEF s, put
  <2>2. QED
    BY <1>4, <1>5, <1>6, <2>1
<1>7. CASE s.marked # {} /\ put(Remember(Unselect(c, first)))
  <2> DEFINE u == Unselect(c, first)
             t == Remember(u)
  <2>1. first \in s.marked
    BY <1>7
  <2> HIDE DEF first
  <2>2. first \in c.value /\ first \in Options[w]
    BY <1>1, <1>2, <2>1 DEF WidgetInv, SelectionInv, SameSelection
  <2>3. WidgetInv(u, Options[w]) /\ u.value = Minus(c.value, first)
    BY <1>1, <1>2, <2>2, UnselectClosedKept
  <2> HIDE DEF u
  <2>4. WidgetInv(t, Options[w]) /\ t.value = u.value
    BY <2>3, MethodsKept DEF Same
  <2>5. ui' = [ui EXCEPT ![w] = t]
    BY <1>7 DEF u
  <2> HIDE DEF t
  <2>6. AllInv(ui') /\ Values(ui') = [Values(ui) EXCEPT ![w] = t.value]
    BY <2>4, <2>5, PutKept
  <2>7. s.value = c.value
    BY <1>2 DEF SameSelection
  <2>8. Toggled(w, first)
    BY <2>2, <2>3, <2>4, <2>6, <2>7 DEF Toggled
  <2>9. QED
    BY <2>2, <2>8
<1>8. CASE s.choices # <<>> /\ put(Erase(Remember([c EXCEPT !.marked = {last}])))
  <2> DEFINE t == [c EXCEPT !.marked = {last}]
  <2>1. c \in WidgetState /\ s \in WidgetState
    BY <1>1, <1>2 DEF WidgetInv, SelectionInv
  <2>2. last \in s.value
    <3>1. Len(s.choices) \in 1..Len(s.choices)
      BY <1>8, <2>1 DEF WidgetState
    <3>2. QED
      BY <1>1, <3>1 DEF WidgetInv, SelectionInv, ChoicesAgree
  <2> HIDE DEF last
  <2>3. last \in c.value /\ last \in AllOptions
    BY <1>2, <2>1, <2>2 DEF SameSelection, WidgetState
  <2>4. /\ t \in WidgetState /\ t.marked = {last} /\ SameResults(c, t)
        /\ t.value = c.value /\ t.announced = c.announced
        /\ t.choices = c.choices /\ t.fading = c.fading
    BY <2>1, <2>3 DEF WidgetState, SameResults
  <2> HIDE DEF t
  <2>5. SelectionInv(t, Options[w])
    BY <1>2, <2>3, <2>4 DEF WidgetInv, SelectionInv, SameResults, ChoicesAgree
  <2>6. RowsInv(t)
    BY <1>2, <2>4 DEF WidgetInv, RowsInv, SameResults, OneLit, Highlighted, Enabled
  <2>7. Same(s, t, Options[w])
    BY <1>2, <2>4, <2>5, <2>6 DEF Same, WidgetInv, SameSelection
  <2>8. put(Erase(Remember(t)))
    BY <1>8 DEF t
  <2> HIDE DEF s, put
  <2>9. QED
    BY <1>4, <1>5, <2>7, <2>8
<1>9. CASE put(Erase(Remember(c)))
  <2>1. Same(s, c, Options[w])
    BY <1>2 DEF Same, SameSelection
  <2> HIDE DEF s, put
  <2>2. QED
    BY <1>4, <1>5, <1>9, <2>1
<1>10. QED
  BY <1>3, <1>6, <1>7, <1>8, <1>9

LEMMA ArrowKept ==
  ASSUME Select2Assumption, AllInv(ui), NEW w \in Widgets, NEW down \in BOOLEAN,
         Arrow(w, down)
  PROVE  Still
<1> DEFINE s == Unmarked(ui[w])
           m == IF s.opened THEN MoveHighlight(s, down) ELSE Open(s)
           t == Remember(m)
<1>1. WidgetInv(ui[w], Options[w])
  BY DEF AllInv
<1>2. ui' = [ui EXCEPT ![w] = t]
  BY DEF Arrow
<1>3. WidgetInv(s, Options[w]) /\ s.value = ui[w].value
  BY <1>1, MethodsKept DEF Same
<1> HIDE DEF s
<1>4. WidgetInv(m, Options[w]) /\ m.value = ui[w].value
  <2>1. CASE s.opened
    <3>1. m = MoveHighlight(s, down)
      BY <2>1
    <3> HIDE DEF m
    <3>2. QED
      BY <1>3, <3>1, MoveHighlightKept
  <2>2. CASE ~s.opened
    <3>1. m = Open(s)
      BY <2>2
    <3> HIDE DEF m
    <3>2. QED
      BY <1>3, <3>1, MethodsKept DEF Same
  <2>3. QED
    BY <2>1, <2>2
<1> HIDE DEF m
<1>5. Same(ui[w], t, Options[w])
  BY <1>4, MethodsKept DEF Same
<1> HIDE DEF t
<1>6. QED
  BY <1>2, <1>5, PutSame DEF Still

\* To ask for the focus, or not to, and to remember the text, is free.
LEMMA AskKept ==
  ASSUME NEW O, NEW s, WidgetInv(s, O), NEW b \in BOOLEAN
  PROVE  Same(s, Remember([s EXCEPT !.refocus = IF b THEN @ + 1 ELSE @]), O)
<1> DEFINE t == [s EXCEPT !.refocus = IF b THEN @ + 1 ELSE @]
<1>1. s \in WidgetState
  BY DEF WidgetInv, SelectionInv
<1>2. t = [s EXCEPT !.refocus = @ + 1] \/ t = s
  BY <1>1 DEF WidgetState
<1>3. Same(s, t, O)
  BY <1>2, MethodsKept DEF Same
<1> HIDE DEF t
<1>4. Same(s, Remember(t), O)
  BY <1>3, MethodsKept DEF Same
<1>5. QED
  BY <1>4 DEF t

LEMMA EnterKept ==
  ASSUME Select2Assumption, AllInv(ui), NEW w \in Widgets, Enter(w)
  PROVE  Still \/ \E o \in Options[w] : Toggled(w, o)
<1> DEFINE s == Unmarked(ui[w])
           selects == s.opened /\ Highlighted(s) # {}
           e == IF s.opened THEN SelectHighlighted(s) ELSE Open(s)
           t == Remember([e EXCEPT !.refocus = IF selects THEN @ + 1 ELSE @])
<1>1. WidgetInv(ui[w], Options[w]) /\ Options[w] \in SUBSET AllOptions
  BY DEF AllInv, Select2Assumption
<1>2. ui' = [ui EXCEPT ![w] = t]
  BY DEF Enter
<1>3. selects \in BOOLEAN
  <2>1. ui[w] \in WidgetState
    BY <1>1 DEF WidgetInv, SelectionInv
  <2>2. s \in WidgetState
    BY <2>1, FreeMethods DEF Free
  <2> HIDE DEF s
  <2>3. s.opened \in BOOLEAN
    BY <2>2 DEF WidgetState
  <2>4. QED
    BY <2>3
<1>4. WidgetInv(s, Options[w]) /\ s.value = ui[w].value
  BY <1>1, MethodsKept DEF Same
<1> HIDE DEF s
<1>5. CASE ~selects
  <2>1. WidgetInv(e, Options[w]) /\ e.value = ui[w].value
    <3>1. CASE s.opened
      <4>1. e = s
        BY <1>5, <3>1 DEF SelectHighlighted
      <4>2. QED
        BY <1>4, <4>1
    <3>2. CASE ~s.opened
      BY <1>4, <3>2, MethodsKept DEF Same
    <3>3. QED
      BY <3>1, <3>2
  <2> HIDE DEF e, selects
  <2>2. Same(ui[w], t, Options[w])
    BY <1>3, <2>1, AskKept DEF Same
  <2> HIDE DEF t
  <2>3. QED
    BY <1>2, <2>2, PutSame DEF Still
<1>6. CASE selects
  <2>1. e = SelectHighlighted(s)
    BY <1>6
  <2>2. PICK o \in Highlighted(s) :
          o \in Options[w] \ s.value /\ SelectHighlighted(s).value = With(s.value, o)
    BY <1>1, <1>4, <1>6, SelectHighlightedKept
  <2>3. WidgetInv(SelectHighlighted(s), Options[w])
    BY <1>1, <1>4, <1>6, SelectHighlightedKept
  <2> HIDE DEF e, selects
  <2>4. WidgetInv(t, Options[w]) /\ t.value = e.value
    BY <1>3, <2>1, <2>3, AskKept DEF Same
  <2> HIDE DEF t
  <2>5. AllInv(ui') /\ Values(ui') = [Values(ui) EXCEPT ![w] = t.value]
    BY <1>2, <2>4, PutKept
  <2>6. Toggled(w, o)
    BY <1>4, <2>1, <2>2, <2>4, <2>5 DEF Toggled
  <2>7. QED
    BY <2>2, <2>6
<1>7. QED
  BY <1>5, <1>6

LEMMA EscapeKept ==
  ASSUME Select2Assumption, AllInv(ui), NEW w \in Widgets, Escape(w)
  PROVE  Still
<1> DEFINE s == Unmarked(ui[w])
           c == Close(s)
           b == s.opened
           t == Remember([c EXCEPT !.refocus = IF b THEN @ + 1 ELSE @])
<1>1. WidgetInv(ui[w], Options[w])
  BY DEF AllInv
<1>2. ui' = [ui EXCEPT ![w] = t]
  BY DEF Escape
<1>3. WidgetInv(s, Options[w]) /\ s.value = ui[w].value
  BY <1>1, MethodsKept DEF Same
<1> HIDE DEF s
<1>4. b \in BOOLEAN
  BY <1>3 DEF WidgetInv, SelectionInv, WidgetState
<1>5. WidgetInv(c, Options[w]) /\ c.value = ui[w].value
  BY <1>3, MethodsKept DEF Same
<1> HIDE DEF c, b
<1>6. Same(ui[w], t, Options[w])
  BY <1>4, <1>5, AskKept DEF Same
<1> HIDE DEF t
<1>7. QED
  BY <1>2, <1>6, PutSame DEF Still

LEMMA TabAwayKept ==
  ASSUME Select2Assumption, AllInv(ui), NEW w \in Widgets, NEW v, TabAway(w, v)
  PROVE  Still
<1> DEFINE s == Unmarked(ui[w])
           t == Remember(s)
           all == [ui EXCEPT ![w] = t]
<1>1. WidgetInv(ui[w], Options[w])
  BY DEF AllInv
<1>2. ui' = MoveFocus(all, v)
  BY DEF TabAway, AllInv
<1>3. WidgetInv(s, Options[w]) /\ s.value = ui[w].value
  BY <1>1, MethodsKept DEF Same
<1> HIDE DEF s
<1>4. Same(ui[w], t, Options[w])
  BY <1>3, MethodsKept DEF Same
<1> HIDE DEF t
<1>5. AllInv(all) /\ Values(all) = Values(ui)
  BY <1>4, PutSame
<1> HIDE DEF all
<1>6. QED
  BY <1>2, <1>5, MoveFocusKept DEF Still

LEMMA KeyUpKept ==
  ASSUME Select2Assumption, AllInv(ui), NEW w \in Widgets, KeyUp(w)
  PROVE  Still
<1> DEFINE s == [ui[w] EXCEPT !.keyval = Unset]
           initial == FALSE
           t == UpdateResults(s, w, initial)
<1>1. ui[w] \in WidgetState /\ WidgetInv(ui[w], Options[w])
  BY DEF AllInv
<1>2. ui' = [ui EXCEPT ![w] = t]
  BY DEF KeyUp
<1>3. Free(ui[w], s)
  BY <1>1 DEF Free, SameResults, WidgetState
<1> HIDE DEF s
<1>4. WidgetInv(s, Options[w]) /\ s.value = ui[w].value
  BY <1>1, <1>3, FreeKept
<1>5. initial \in BOOLEAN /\ (initial => s.opened)
  OBVIOUS
<1> HIDE DEF initial
<1>6. Same(ui[w], t, Options[w])
  BY <1>4, <1>5, UpdateKept DEF Same
<1> HIDE DEF t
<1>7. QED
  BY <1>2, <1>6, PutSame DEF Still

LEMMA WindowKept ==
  ASSUME Select2Assumption, AllInv(ui),
         (\E w \in Widgets : FocusEnters(w)) \/ FocusLeaves \/ Resize
  PROVE  Still
<1>1. ASSUME NEW w, ui' = MoveFocus(ui, w)
      PROVE  Still
  BY <1>1, MoveFocusKept DEF Still
<1>2. CASE Resize
  <2> DEFINE f(v) == Close(ui[v])
             new == [v \in Widgets |-> f(v)]
  <2>1. ui' = new
    BY <1>2 DEF Resize
  <2>2. \A v \in Widgets : Same(ui[v], f(v), Options[v])
    BY MethodsKept DEF AllInv
  <2> HIDE DEF f
  <2>3. AllInv(new) /\ Values(new) = Values(ui)
    BY <2>2 DEF AllInv, Values, Same, WidgetInv, SelectionInv
  <2>4. QED
    BY <2>1, <2>3 DEF Still
<1>3. QED
  BY <1>1, <1>2 DEF FocusEnters, FocusLeaves

-----------------------------------------------------------------------------
(* The theorems.                                                           *)

LEMMA StepKept ==
  ASSUME Select2Assumption, AllInv(ui), S2Next
  PROVE  Still \/ \E w \in Widgets : \E o \in Options[w] : Toggled(w, o)
<1>1. ASSUME NEW w \in Widgets, Timer(w)
      PROVE  Still \/ \E o \in Options[w] : Toggled(w, o)
  BY <1>1, OpeningKept, RefocusKept, FadeDoneKept DEF Timer
<1>2. ASSUME NEW w \in Widgets, NEW o, MouseUpRow(w, o)
      PROVE  Still \/ \E p \in Options[w] : Toggled(w, p)
  <2>1. CASE o \in Enabled(ui[w])
    <3>1. /\ o \in Options[w] \ ui[w].value
          /\ AllInv(ui')
          /\ Values(ui') = [Values(ui) EXCEPT ![w] = With(ui[w].value, o)]
      BY <1>2, <2>1, MouseUpRowKept
    <3>2. Toggled(w, o)
      BY <3>1 DEF Toggled
    <3>3. QED
      BY <3>1, <3>2
  <2>2. CASE o \notin Enabled(ui[w])
    BY <1>2, <2>2, MouseUpRowKept
  <2>3. QED
    BY <2>1, <2>2
<1>3. ASSUME NEW w \in Widgets, Mouse(w)
      PROVE  Still \/ \E o \in Options[w] : Toggled(w, o)
  BY <1>2, <1>3, ContainerKept, PageMouseKept, ClickCloseKept, HoverStepKept DEF Mouse
<1>4. ASSUME NEW w \in Widgets, Keyboard(w)
      PROVE  Still \/ \E o \in Options[w] : Toggled(w, o)
  BY <1>4, TypeKept, ArrowKept, TabAwayKept, BackspaceKept, EnterKept, EscapeKept,
     KeyUpKept DEF Keyboard
<1>5. CASE MouseDownOutside
  <2>1. CASE Widgets = {}
    <3>1. ui' = [v \in Widgets |-> ui[v]] /\ ui = [v \in Widgets |-> ui[v]]
      BY <1>5, <2>1 DEF MouseDownOutside, MoveFocus, AllInv
    <3>2. QED
      BY <3>1 DEF Still
  <2>2. CASE Widgets # {}
    BY <1>5, <2>2, PageMouseKept
  <2>3. QED
    BY <2>1, <2>2
<1>6. QED
  BY <1>1, <1>3, <1>4, <1>5, WindowKept DEF S2Next

LEMMA InitKept ==
  ASSUME Select2Assumption, S2Init
  PROVE  AllInv(ui)
<1> DEFINE s == InitialState
<1>1. s \in WidgetState
  BY DEF InitialState, WidgetState, Blank, Texts
<1>2. /\ s.value = {} /\ s.announced = {} /\ s.choices = <<>> /\ s.marked = {}
      /\ s.fading = {} /\ s.opened = FALSE /\ s.rows = {} /\ s.selectable = {}
      /\ s.disabled = {} /\ s.lit = {}
  BY DEF InitialState
<1>3. ui = [w \in Widgets |-> s]
  BY DEF S2Init
<1> HIDE DEF s
<1>4. ChoicesAgree(s)
  BY <1>2 DEF ChoicesAgree
<1>5. OneLit(s)
  BY <1>2 DEF OneLit, Highlighted, Enabled
<1>6. ASSUME NEW w \in Widgets
      PROVE  WidgetInv(s, Options[w])
  BY <1>1, <1>2, <1>4, <1>5 DEF WidgetInv, SelectionInv, RowsInv
<1>7. QED
  BY <1>1, <1>3, <1>6 DEF AllInv

\* The invariant the other theorems rest on: of every widget at once, the choices
\* are the selected options, and the rows, shown only while the dropdown is open,
\* are selectable if they are not selected.
THEOREM WidgetsInvariant == S2Spec => []AllInv(ui)
<1> USE Select2Assumption
<1>1. S2Init => AllInv(ui)
  BY InitKept
<1>2. AllInv(ui) /\ [S2Next]_s2Vars => AllInv(ui)'
  <2>1. CASE S2Next
    BY <2>1, StepKept DEF Still, Toggled
  <2>2. CASE UNCHANGED s2Vars
    BY <2>2 DEF s2Vars, AllInv
  <2>3. QED
    BY <2>1, <2>2
<1>3. QED
  BY <1>1, <1>2, PTL DEF S2Spec

\* Whatever the user and the timers do, the choices shown are the selected options
\* and the page was told of them.
THEOREM SelectionShown == S2Spec => []SelectionAgrees
<1>1. AllInv(ui) => SelectionAgrees
  BY DEF AllInv, WidgetInv, SelectionInv, RowsInv, ChoicesAgree, SelectionAgrees
<1>2. QED
  BY <1>1, WidgetsInvariant, PTL

\* No row can be selected twice, no row that is not selected is lost.
THEOREM ResultsSound == S2Spec => []ResultsAgree
<1>1. AllInv(ui) => ResultsAgree
  BY DEF AllInv, WidgetInv, RowsInv, ResultsAgree
<1>2. QED
  BY <1>1, WidgetsInvariant, PTL

\* At most one row is highlighted.
THEOREM HighlightSound == S2Spec => []OneHighlight
<1>1. ASSUME Select2Assumption, AllInv(ui)
      PROVE  OneHighlight
  <2>1. SUFFICES ASSUME NEW w \in Widgets
                 PROVE  Cardinality(Highlighted(ui[w])) <= 1
    BY DEF OneHighlight
  <2>2. OneLit(ui[w])
    BY <1>1 DEF AllInv, WidgetInv, RowsInv
  <2>3. CASE Highlighted(ui[w]) = {}
    BY <2>3, FS_EmptySet
  <2>4. CASE Highlighted(ui[w]) # {}
    <3>1. PICK o : Highlighted(ui[w]) = {o}
      BY <2>2, <2>4 DEF OneLit
    <3>2. QED
      BY <3>1, FS_Singleton
  <2>5. QED
    BY <2>3, <2>4
<1>2. AllInv(ui) => OneHighlight
  BY <1>1, Select2Assumption
<1>3. QED
  BY <1>2, WidgetsInvariant, PTL

\* A click on a row that can be selected selects that row.
THEOREM ClicksSelect == S2Spec => ClickSelects
<1> DEFINE A == \A w \in Widgets : \A o \in Enabled(ui[w]) :
                  MouseUpRow(w, o) => ui'[w].value = ui[w].value \cup {o}
<1>1. ASSUME Select2Assumption, AllInv(ui)
      PROVE  A
  <2>1. SUFFICES ASSUME NEW w \in Widgets, NEW o \in Enabled(ui[w]), MouseUpRow(w, o)
                 PROVE  ui'[w].value = ui[w].value \cup {o}
    OBVIOUS
  <2>2. Values(ui') = [Values(ui) EXCEPT ![w] = With(ui[w].value, o)]
    BY <1>1, <2>1, MouseUpRowKept
  <2>3. QED
    BY <2>2 DEF Values, With
<1>2. AllInv(ui) /\ [S2Next]_s2Vars => [A]_s2Vars
  BY <1>1, Select2Assumption
<1>3. QED
  BY <1>2, WidgetsInvariant, PTL DEF S2Spec, ClickSelects

-----------------------------------------------------------------------------
(* The timers of a widget, and that an open dropdown is an active one: what *)
(* a method that starts no timer and opens nothing leaves as it is.         *)

Calm(s, t) ==
  /\ t \in WidgetState
  /\ t.openings = s.openings /\ t.refocus = s.refocus
  /\ t.opened => s.opened /\ (s.dropActive => t.dropActive)

LEMMA CalmChain ==
  ASSUME NEW s, NEW t, NEW u, Calm(s, t), Calm(t, u)
  PROVE  Calm(s, u)
BY DEF Calm

LEMMA CalmMethods ==
  ASSUME NEW s \in WidgetState
  PROVE  /\ Calm(s, s)
         /\ Calm(s, ClearPlaceholder(s)) /\ Calm(s, OnFocus(s)) /\ Calm(s, OnBlur(s))
         /\ Calm(s, Unmarked(s)) /\ Calm(s, Remember(s)) /\ Calm(s, Erase(s))
<1>1. /\ ClearPlaceholder(s) \in WidgetState
      /\ OnFocus(s) \in WidgetState /\ OnBlur(s) \in WidgetState
      /\ Unmarked(s) \in WidgetState /\ Remember(s) \in WidgetState
      /\ Erase(s) \in WidgetState
  BY FreeMethods DEF Free
<1>2. Calm(s, s)
  BY DEF Calm
<1>3. Calm(s, ClearPlaceholder(s))
  BY <1>1 DEF Calm, ClearPlaceholder, WidgetState
<1>4. Calm(s, OnFocus(s))
  BY <1>1 DEF Calm, OnFocus, ClearPlaceholder, WidgetState
<1>5. Calm(s, OnBlur(s))
  BY <1>1 DEF Calm, OnBlur, ClearSearch, WidgetState
<1>6. Calm(s, Unmarked(s))
  BY <1>1 DEF Calm, Unmarked, WidgetState
<1>7. Calm(s, Remember(s))
  BY <1>1 DEF Calm, Remember, WidgetState
<1>8. Calm(s, Erase(s))
  BY <1>1 DEF Calm, Erase, WidgetState
<1>9. QED
  BY <1>2, <1>3, <1>4, <1>5, <1>6, <1>7, <1>8

LEMMA CloseCalm ==
  ASSUME NEW s \in WidgetState
  PROVE  Calm(s, Close(s)) /\ ~Close(s).opened
<1>1. CASE s.opened
  <2>1. Close(s) \in WidgetState /\ ~Close(s).opened
    BY <1>1, CloseFields
  <2>2. Close(s).openings = s.openings /\ Close(s).refocus = s.refocus
    BY <1>1 DEF Close, ClearSearch, Populate, WidgetState
  <2>3. QED
    BY <2>1, <2>2 DEF Calm
<1>2. CASE ~s.opened
  BY <1>2, CalmMethods DEF Close
<1>3. QED
  BY <1>1, <1>2

LEMMA BlurCalm ==
  ASSUME NEW s \in WidgetState
  PROVE  Calm(s, Blur(s)) /\ ~Blur(s).opened
<1> DEFINE c == Close(s)
           t == [c EXCEPT !.text = Blank, !.active = FALSE, !.dropActive = FALSE,
                          !.marked = {}]
<1>1. Calm(s, c) /\ ~c.opened
  BY CloseCalm
<1>2. Blur(s) = t
  BY DEF Blur, ClearSearch
<1> HIDE DEF c
<1>3. c \in WidgetState
  BY <1>1 DEF Calm
<1>4. Blank \in Texts
  BY DEF Blank, Texts
<1>5. /\ t \in WidgetState /\ t.opened = c.opened
      /\ t.openings = c.openings /\ t.refocus = c.refocus
  BY <1>3, <1>4 DEF WidgetState
<1> HIDE DEF t
<1>6. QED
  BY <1>1, <1>2, <1>5 DEF Calm

LEMMA HighlightCalm ==
  ASSUME Select2Assumption, NEW s \in WidgetState, NEW index \in Int
  PROVE  Calm(s, Highlight(s, index))
<1>1. PICK h \in SUBSET AllOptions : Highlight(s, index) = [s EXCEPT !.lit = h]
  BY HighlightOne
<1>2. Calm(s, [s EXCEPT !.lit = h])
  BY DEF Calm, WidgetState
<1>3. QED
  BY <1>1, <1>2

LEMMA PostprocessCalm ==
  ASSUME Select2Assumption, NEW s \in WidgetState
  PROVE  Calm(s, PostprocessResults(s))
<1> DEFINE taken == s.selectable \cap s.value
           m == [s EXCEPT !.disabled = (@ \ s.selectable) \cup taken,
                          !.selectable = @ \ taken]
           zero == 0
<1>1. Calm(s, m)
  BY DEF Calm, WidgetState
<1>2. PostprocessResults(s) = IF m.selectable = {} THEN m ELSE Highlight(m, zero)
  BY DEF PostprocessResults
<1>3. zero \in Int
  OBVIOUS
<1> HIDE DEF m, zero
<1>4. Calm(m, Highlight(m, zero))
  BY <1>1, <1>3, HighlightCalm DEF Calm
<1>5. QED
  BY <1>1, <1>2, <1>4, CalmChain

LEMMA UpdateCalm ==
  ASSUME Select2Assumption, NEW s \in WidgetState, NEW w \in Widgets,
         NEW initial \in BOOLEAN
  PROVE  Calm(s, UpdateResults(s, w, initial))
<1> DEFINE found == Query(w, s.text)
           p == Populate(s, found)
<1>1. found \subseteq AllOptions
  BY DEF Query, Select2Assumption
<1>2. UpdateResults(s, w, initial) = s \/ UpdateResults(s, w, initial) = PostprocessResults(p)
  BY DEF UpdateResults
<1> HIDE DEF found
<1>3. Calm(s, p)
  BY <1>1 DEF Calm, Populate, WidgetState
<1> HIDE DEF p
<1>4. Calm(p, PostprocessResults(p))
  BY <1>3, PostprocessCalm DEF Calm
<1>5. QED
  BY <1>2, <1>3, <1>4, CalmChain, CalmMethods

LEMMA MoveHighlightCalm ==
  ASSUME Select2Assumption, NEW O, NEW s, WidgetInv(s, O), NEW down \in BOOLEAN
  PROVE  Calm(s, MoveHighlight(s, down))
<1> DEFINE from == HighlightIndex(s)
           beyond == {i \in 0..(Cardinality(s.selectable) - 1) :
                        /\ IF down THEN i > from ELSE i < from
                        /\ Nth(s.selectable, i) \notin s.disabled}
           nearest == CHOOSE i \in beyond :
                        \A k \in beyond : IF down THEN i <= k ELSE i >= k
           last == Cardinality(Enabled(s)) - 1
           at == IF nearest > last THEN last ELSE IF nearest < 0 THEN 0 ELSE nearest
           h == (s.lit \ Enabled(s)) \cup {Nth(Enabled(s), at)}
<1>1. s \in WidgetState
  BY DEF WidgetInv, SelectionInv
<1>2. MoveHighlight(s, down) \in WidgetState
  BY MoveHighlightKept DEF WidgetInv, SelectionInv
<1>3. MoveHighlight(s, down) = s \/ MoveHighlight(s, down) = [s EXCEPT !.lit = h]
  BY DEF MoveHighlight, Highlight
<1> HIDE DEF h
<1>4. /\ [s EXCEPT !.lit = h].openings = s.openings
      /\ [s EXCEPT !.lit = h].refocus = s.refocus
      /\ [s EXCEPT !.lit = h].opened = s.opened
      /\ [s EXCEPT !.lit = h].dropActive = s.dropActive
  BY <1>1 DEF WidgetState
<1>5. QED
  BY <1>2, <1>3, <1>4 DEF Calm

LEMMA HoverCalm ==
  ASSUME Select2Assumption, NEW s \in WidgetState, NEW o
  PROVE  Calm(s, HighlightUnderEvent(s, o))
<1>1. CASE o \notin s.selectable
  <2>1. HighlightUnderEvent(s, o) = [s EXCEPT !.lit = {}]
    BY <1>1 DEF HighlightUnderEvent
  <2>2. Calm(s, [s EXCEPT !.lit = {}])
    BY DEF Calm, WidgetState
  <2>3. QED
    BY <2>1, <2>2
<1>2. CASE o \in s.selectable /\ o \in s.lit
  BY <1>2, CalmMethods DEF HighlightUnderEvent
<1>3. CASE o \in s.selectable /\ o \notin s.lit
  <2>1. HighlightUnderEvent(s, o) = Highlight(s, IndexIn(s.selectable, o))
    BY <1>3 DEF HighlightUnderEvent
  <2>2. IndexIn(s.selectable, o) \in 0..(Cardinality(s.selectable) - 1)
    BY <1>3, EnabledTyped, IndexTyped
  <2>3. IndexIn(s.selectable, o) \in Int
    BY <2>2
  <2>4. QED
    BY <2>1, <2>3, HighlightCalm
<1>4. QED
  BY <1>1, <1>2, <1>3

LEMMA OnSelectCalm ==
  ASSUME Select2Assumption, NEW s \in WidgetState, NEW o \in AllOptions
  PROVE  Calm(s, OnSelect(s, o))
<1> DEFINE ch == Append(s.choices, o)
           v == s.value \cup {o}
           a == [s EXCEPT !.choices = ch, !.value = v]
           b == PostprocessResults(a)
           c == Close(b)
           d == TriggerChange(c)
<1>1. OnSelect(s, o) = d
  BY DEF OnSelect, AddSelectedChoice
<1>2. ch \in Seq(AllOptions) /\ v \in SUBSET AllOptions
  BY DEF WidgetState
<1> HIDE DEF ch, v
<1>3. Calm(s, a)
  BY <1>2 DEF Calm, WidgetState
<1> HIDE DEF a
<1>4. Calm(a, b)
  BY <1>3, PostprocessCalm DEF Calm
<1> HIDE DEF b
<1>5. Calm(b, c)
  BY <1>4, CloseCalm DEF Calm
<1> HIDE DEF c
<1>6. Calm(c, d)
  BY <1>5 DEF Calm, TriggerChange, WidgetState
<1> HIDE DEF d
<1>7. Calm(s, c)
  BY <1>3, <1>4, <1>5, CalmChain
<1>8. QED
  BY <1>1, <1>6, <1>7, CalmChain

LEMMA SelectHighlightedCalm ==
  ASSUME Select2Assumption, NEW s \in WidgetState
  PROVE  Calm(s, SelectHighlighted(s))
<1> DEFINE o == Nth(Highlighted(s), 0)
           chosen == [s EXCEPT !.disabled = @ \cup Highlighted(s)]
           index == HighlightIndex(s)
           t == Highlight(chosen, index)
<1>1. CASE Highlighted(s) = {}
  BY <1>1, CalmMethods DEF SelectHighlighted
<1>2. CASE Highlighted(s) # {}
  <2>1. Highlighted(s) \subseteq AllOptions
    BY EnabledTyped
  <2>2. o \in AllOptions
    BY <1>2, <2>1, LowestExists
  <2>3. index \in Int
    BY <1>2, HighlightIndexTyped
  <2>4. Calm(s, chosen)
    BY <2>1 DEF Calm, WidgetState
  <2>5. SelectHighlighted(s) = OnSelect(t, o)
    BY <1>2 DEF SelectHighlighted
  <2> HIDE DEF o, chosen, index
  <2>6. Calm(chosen, t)
    BY <2>3, <2>4, HighlightCalm DEF Calm
  <2> HIDE DEF t
  <2>7. Calm(t, OnSelect(t, o))
    BY <2>2, <2>6, OnSelectCalm DEF Calm
  <2>8. QED
    BY <2>4, <2>5, <2>6, <2>7, CalmChain
<1>3. QED
  BY <1>1, <1>2

LEMMA UnselectCalm ==
  ASSUME Select2Assumption, NEW O \in SUBSET AllOptions, NEW s, SelectionInv(s, O),
         NEW o \in s.value
  PROVE  Calm(s, Unselect(s, o))
<1> DEFINE v == s.value \ {o}
           a == [s EXCEPT !.value = v]
           b == PostprocessResults(a)
           ch == Without(b.choices, IndexOf(b.choices, o))
           m == b.marked \ {o}
           f == b.fading \ {o}
           c == [b EXCEPT !.choices = ch, !.marked = m, !.fading = f]
           d == [c EXCEPT !.announced = c.value]
<1>1. s \in WidgetState
  BY DEF SelectionInv
<1>2. Unselect(s, o) \in WidgetState
  BY UnselectFields DEF SelectionInv
<1>3. Unselect(s, o) = d
  BY DEF Unselect, TriggerChange
<1>4. v \in SUBSET AllOptions
  BY <1>1 DEF WidgetState
<1> HIDE DEF v
<1>5. Calm(s, a)
  BY <1>1, <1>4 DEF Calm, WidgetState
<1> HIDE DEF a
<1>6. Calm(a, b)
  BY <1>5, PostprocessCalm DEF Calm
<1> HIDE DEF b, ch, m, f
<1>7. /\ d.openings = b.openings /\ d.refocus = b.refocus
      /\ d.opened = b.opened /\ d.dropActive = b.dropActive
  BY <1>6 DEF Calm, WidgetState
<1> HIDE DEF d
<1>8. QED
  BY <1>2, <1>3, <1>5, <1>6, <1>7 DEF Calm

-----------------------------------------------------------------------------
(* The inductive invariant of the timers and the dropdowns.                *)

WidgetFlags(s) ==
  /\ s.openings <= MaxTimers /\ s.refocus <= MaxTimers
  /\ s.opened => s.dropActive

FlagsInv(all) == \A v \in Widgets : WidgetFlags(all[v])

\* The focus is in a widget or in none.
FocusTyped == focus \in Widgets \cup {NoWidget}

S2Inv == AllInv(ui) /\ FlagsInv(ui) /\ FocusTyped

CalmAll(all, new) ==
  /\ new \in [Widgets -> WidgetState]
  /\ \A v \in Widgets : Calm(all[v], new[v])

LEMMA CalmFlags ==
  ASSUME NEW s, WidgetFlags(s), NEW t, Calm(s, t)
  PROVE  WidgetFlags(t)
BY DEF WidgetFlags, Calm

LEMMA CalmAllFlags ==
  ASSUME NEW all, FlagsInv(all), NEW new, CalmAll(all, new)
  PROVE  FlagsInv(new)
BY CalmFlags DEF FlagsInv, CalmAll

LEMMA PutFlags ==
  ASSUME NEW all \in [Widgets -> WidgetState], FlagsInv(all), NEW w \in Widgets,
         NEW t \in WidgetState, WidgetFlags(t)
  PROVE  /\ FlagsInv([all EXCEPT ![w] = t])
         /\ [all EXCEPT ![w] = t] \in [Widgets -> WidgetState]
BY DEF FlagsInv

LEMMA MoveFocusCalm ==
  ASSUME NEW all \in [Widgets -> WidgetState], NEW w
  PROVE  CalmAll(all, MoveFocus(all, w))
<1> DEFINE f(v) == IF v = w /\ v # focus THEN OnFocus(all[v])
                   ELSE IF v = focus /\ v # w THEN OnBlur(all[v])
                   ELSE all[v]
           new == [v \in Widgets |-> f(v)]
<1>1. \A v \in Widgets : Calm(all[v], f(v))
  BY CalmMethods
<1>2. MoveFocus(all, w) = new
  BY DEF MoveFocus
<1> HIDE DEF f
<1>3. CalmAll(all, new)
  BY <1>1 DEF CalmAll, Calm
<1>4. QED
  BY <1>2, <1>3

\* focusSearch() starts one timer, if one more is allowed.
LEMMA FocusSearchFlags ==
  ASSUME Select2Assumption, NEW all \in [Widgets -> WidgetState], FlagsInv(all),
         NEW w \in Widgets, all[w].refocus < MaxTimers
  PROVE  FlagsInv(FocusSearch(all, w))
<1> DEFINE n == all[w].refocus + 1
           t == [all[w] EXCEPT !.refocus = n]
           put == [all EXCEPT ![w] = t]
<1>1. all[w] \in WidgetState /\ all[w].refocus \in Nat /\ MaxTimers \in Nat
  BY DEF WidgetState, Select2Assumption
<1>2. n \in Nat /\ n <= MaxTimers
  BY <1>1
<1>3. FocusSearch(all, w) = MoveFocus(put, w)
  BY DEF FocusSearch
<1> HIDE DEF n
<1>4. /\ t \in WidgetState /\ t.refocus = n /\ t.openings = all[w].openings
      /\ t.opened = all[w].opened /\ t.dropActive = all[w].dropActive
  BY <1>1, <1>2 DEF WidgetState
<1> HIDE DEF t
<1>5. WidgetFlags(t)
  BY <1>2, <1>4 DEF FlagsInv, WidgetFlags
<1>6. FlagsInv(put) /\ put \in [Widgets -> WidgetState]
  BY <1>4, <1>5, PutFlags
<1> HIDE DEF put
<1>7. CalmAll(put, MoveFocus(put, w))
  BY <1>6, MoveFocusCalm
<1>8. QED
  BY <1>3, <1>6, <1>7, CalmAllFlags

LEMMA BlurOthersCalm ==
  ASSUME NEW all \in [Widgets -> WidgetState], NEW w
  PROVE  CalmAll(all, BlurOthers(all, w))
<1> DEFINE f(v) == IF v # w /\ all[v].active THEN Blur(all[v]) ELSE all[v]
           new == [v \in Widgets |-> f(v)]
<1>1. \A v \in Widgets : Calm(all[v], f(v))
  BY BlurCalm, CalmMethods
<1>2. BlurOthers(all, w) = new
  BY DEF BlurOthers
<1> HIDE DEF f
<1>3. CalmAll(all, new)
  BY <1>1 DEF CalmAll, Calm
<1>4. QED
  BY <1>2, <1>3

\* open() starts one timer, if one more is allowed.
LEMMA OpenFlags ==
  ASSUME Select2Assumption, NEW s \in WidgetState, WidgetFlags(s),
         s.opened \/ s.openings < MaxTimers
  PROVE  /\ Open(s) \in WidgetState /\ WidgetFlags(Open(s))
         /\ Open(s).refocus = s.refocus
<1> DEFINE n == s.openings + 1
           t == [s EXCEPT !.openings = n]
<1>1. s.openings \in Nat /\ MaxTimers \in Nat
  BY DEF WidgetState, Select2Assumption
<1>2. n \in Nat
  BY <1>1
<1>3. Open(s) = IF s.opened THEN s ELSE t
  BY DEF Open
<1>4. s.opened \/ n <= MaxTimers
  BY <1>1
<1> HIDE DEF n
<1>5. t \in WidgetState
  BY <1>2 DEF WidgetState
<1>6. /\ t.openings = n /\ t.refocus = s.refocus
      /\ t.opened = s.opened /\ t.dropActive = s.dropActive
  BY DEF WidgetState
<1> HIDE DEF t
<1>7. QED
  BY <1>3, <1>4, <1>5, <1>6 DEF WidgetFlags

\* To ask for the focus from a timer only.
LEMMA AskFlags ==
  ASSUME Select2Assumption, NEW s \in WidgetState, WidgetFlags(s), NEW b \in BOOLEAN,
         b => s.refocus < MaxTimers
  PROVE  WidgetFlags(Remember([s EXCEPT !.refocus = IF b THEN @ + 1 ELSE @]))
<1> DEFINE n == IF b THEN s.refocus + 1 ELSE s.refocus
           t == [s EXCEPT !.refocus = n]
<1>1. s.refocus \in Nat /\ MaxTimers \in Nat /\ s.refocus <= MaxTimers
  BY DEF WidgetState, Select2Assumption, WidgetFlags
<1>2. n \in Nat /\ n <= MaxTimers
  BY <1>1
<1>3. [s EXCEPT !.refocus = IF b THEN @ + 1 ELSE @] = t
  OBVIOUS
<1> HIDE DEF n
<1>4. /\ t \in WidgetState /\ t.refocus = n /\ t.openings = s.openings
      /\ t.opened = s.opened /\ t.dropActive = s.dropActive
  BY <1>2 DEF WidgetState
<1> HIDE DEF t
<1>5. WidgetFlags(t) /\ Calm(t, Remember(t))
  BY <1>2, <1>4, CalmMethods DEF WidgetFlags
<1>6. WidgetFlags(Remember(t))
  BY <1>5, CalmFlags
<1>7. QED
  BY <1>3, <1>6

LEMMA OpeningFlags ==
  ASSUME Select2Assumption, S2Inv, NEW w \in Widgets, Opening(w)
  PROVE  FlagsInv(ui')
<1> DEFINE x == IF ui[w].text = Blank THEN Empty ELSE ui[w].text
           n == ui[w].openings - 1
           s == [ui[w] EXCEPT !.openings = n, !.opened = TRUE, !.active = TRUE,
                              !.text = x]
           initial == TRUE
           u == UpdateResults(s, w, initial)
           shown == [u EXCEPT !.dropActive = TRUE]
           t == ClearPlaceholder(shown)
           all == [ui EXCEPT ![w] = t]
<1>1. /\ ui \in [Widgets -> WidgetState] /\ ui[w] \in WidgetState
      /\ FlagsInv(ui) /\ WidgetFlags(ui[w])
  BY DEF S2Inv, AllInv, FlagsInv
<1>2. x \in Texts /\ n \in Nat /\ n <= MaxTimers
  <2>1. ui[w].openings \in Nat /\ MaxTimers \in Nat /\ ui[w].openings <= MaxTimers
    BY <1>1 DEF WidgetState, Select2Assumption, WidgetFlags
  <2>2. x \in Texts
    BY <1>1 DEF Empty, Texts, WidgetState
  <2>3. QED
    BY <2>1, <2>2 DEF Opening
<1>3. ui' = FocusSearch(all, w) /\ ui[w].refocus < MaxTimers
  BY DEF Opening, MayRefocus
<1> HIDE DEF x, n
<1>4. s \in WidgetState /\ s.openings = n /\ s.refocus = ui[w].refocus
  BY <1>1, <1>2 DEF WidgetState
<1> HIDE DEF s
<1>5. initial \in BOOLEAN
  OBVIOUS
<1> HIDE DEF initial
<1>6. Calm(s, u)
  BY <1>4, <1>5, UpdateCalm
<1> HIDE DEF u
<1>7. /\ shown \in WidgetState /\ shown.dropActive
      /\ shown.openings = n /\ shown.refocus = ui[w].refocus
  BY <1>4, <1>6 DEF Calm, WidgetState
<1> HIDE DEF shown
<1>8. WidgetFlags(shown)
  BY <1>1, <1>2, <1>7 DEF WidgetFlags
<1>9. Calm(shown, t)
  BY <1>7, CalmMethods
<1> HIDE DEF t
<1>10. t \in WidgetState /\ WidgetFlags(t) /\ t.refocus = ui[w].refocus
  BY <1>7, <1>8, <1>9, CalmFlags DEF Calm
<1>11. /\ FlagsInv(all) /\ all \in [Widgets -> WidgetState]
       /\ all[w].refocus < MaxTimers
  BY <1>1, <1>3, <1>10, PutFlags
<1> HIDE DEF all
<1>12. QED
  BY <1>3, <1>11, FocusSearchFlags

LEMMA RefocusFlags ==
  ASSUME Select2Assumption, S2Inv, NEW w \in Widgets, Refocus(w)
  PROVE  FlagsInv(ui')
<1> DEFINE n == ui[w].refocus - 1
           t == [ui[w] EXCEPT !.refocus = n]
           all == [ui EXCEPT ![w] = t]
<1>1. /\ ui \in [Widgets -> WidgetState] /\ ui[w] \in WidgetState
      /\ FlagsInv(ui) /\ WidgetFlags(ui[w])
  BY DEF S2Inv, AllInv, FlagsInv
<1>2. n \in Nat /\ n <= MaxTimers
  BY <1>1 DEF Refocus, WidgetState, Select2Assumption, WidgetFlags
<1>3. ui' = MoveFocus(all, w)
  BY DEF Refocus
<1> HIDE DEF n
<1>4. /\ t \in WidgetState /\ t.refocus = n /\ t.openings = ui[w].openings
      /\ t.opened = ui[w].opened /\ t.dropActive = ui[w].dropActive
  BY <1>1, <1>2 DEF WidgetState
<1> HIDE DEF t
<1>5. WidgetFlags(t)
  BY <1>1, <1>2, <1>4 DEF WidgetFlags
<1>6. FlagsInv(all) /\ all \in [Widgets -> WidgetState]
  BY <1>1, <1>4, <1>5, PutFlags
<1> HIDE DEF all
<1>7. CalmAll(all, MoveFocus(all, w))
  BY <1>6, MoveFocusCalm
<1>8. QED
  BY <1>3, <1>6, <1>7, CalmAllFlags

LEMMA FadeDoneFlags ==
  ASSUME Select2Assumption, S2Inv, NEW w \in Widgets, NEW o, FadeDone(w, o)
  PROVE  FlagsInv(ui')
<1> DEFINE u == Unselect(ui[w], o)
           x == [u EXCEPT !.marked = {}]
           t == Close(x)
           all == [ui EXCEPT ![w] = t]
<1>1. /\ ui \in [Widgets -> WidgetState] /\ ui[w] \in WidgetState
      /\ FlagsInv(ui) /\ WidgetFlags(ui[w])
      /\ SelectionInv(ui[w], Options[w]) /\ Options[w] \in SUBSET AllOptions
  BY DEF S2Inv, AllInv, FlagsInv, WidgetInv, Select2Assumption
<1>2. o \in ui[w].value
  BY <1>1 DEF FadeDone, SelectionInv
<1>3. ui' = FocusSearch(all, w) /\ ui[w].refocus < MaxTimers
  BY DEF FadeDone, MayRefocus
<1>4. Calm(ui[w], u)
  BY <1>1, <1>2, UnselectCalm
<1> HIDE DEF u
<1>5. Calm(u, x)
  BY <1>4 DEF Calm, WidgetState
<1> HIDE DEF x
<1>6. Calm(x, t)
  BY <1>5, CloseCalm DEF Calm
<1> HIDE DEF t
<1>7. Calm(ui[w], t)
  BY <1>4, <1>5, <1>6, CalmChain
<1>8. t \in WidgetState /\ WidgetFlags(t) /\ t.refocus = ui[w].refocus
  BY <1>1, <1>7, CalmFlags DEF Calm
<1>9. /\ FlagsInv(all) /\ all \in [Widgets -> WidgetState]
      /\ all[w].refocus < MaxTimers
  BY <1>1, <1>3, <1>8, PutFlags
<1> HIDE DEF all
<1>10. QED
  BY <1>3, <1>9, FocusSearchFlags

LEMMA ContainerFlags ==
  ASSUME Select2Assumption, S2Inv, NEW w \in Widgets, MouseDownContainer(w)
  PROVE  FlagsInv(ui')
<1> DEFINE p == ClearPlaceholder(ui[w])
           t == Open(p)
           put == [ui EXCEPT ![w] = t]
           clicked == FocusSearch(put, w)
<1>1. /\ ui \in [Widgets -> WidgetState] /\ ui[w] \in WidgetState
      /\ FlagsInv(ui) /\ WidgetFlags(ui[w]) /\ AllInv(ui)
  BY DEF S2Inv, AllInv, FlagsInv
<1>2. /\ ui' = BlurOthers(clicked, w)
      /\ ui[w].refocus < MaxTimers
      /\ ui[w].opened \/ ui[w].openings < MaxTimers
  BY <1>1 DEF MouseDownContainer, MayOpen, MayRefocus
<1>3. Calm(ui[w], p) /\ p.opened = ui[w].opened
  BY <1>1, CalmMethods, FreeMethods DEF Free, SameResults
<1> HIDE DEF p
<1>4. p \in WidgetState /\ WidgetFlags(p) /\ p.refocus = ui[w].refocus
  BY <1>1, <1>3, CalmFlags DEF Calm
<1>5. p.opened \/ p.openings < MaxTimers
  BY <1>2, <1>3 DEF Calm
<1>6. t \in WidgetState /\ WidgetFlags(t) /\ t.refocus = p.refocus
  BY <1>4, <1>5, OpenFlags
<1> HIDE DEF t
<1>7. /\ FlagsInv(put) /\ put \in [Widgets -> WidgetState]
      /\ put[w].refocus < MaxTimers
  BY <1>1, <1>2, <1>4, <1>6, PutFlags
<1>8. FlagsInv(clicked)
  BY <1>7, FocusSearchFlags
<1>9. clicked \in [Widgets -> WidgetState]
  <2> DEFINE m == put[w].refocus + 1
             r == [put[w] EXCEPT !.refocus = m]
             all == [put EXCEPT ![w] = r]
  <2>1. clicked = MoveFocus(all, w)
    BY <1>7 DEF FocusSearch
  <2>2. put[w] \in WidgetState /\ m \in Nat
    BY <1>7 DEF WidgetState
  <2> HIDE DEF m
  <2>3. r \in WidgetState
    BY <2>2 DEF WidgetState
  <2> HIDE DEF r
  <2>4. all \in [Widgets -> WidgetState]
    BY <1>7, <2>3
  <2> HIDE DEF all, clicked
  <2>5. QED
    BY <2>1, <2>4, MoveFocusCalm DEF CalmAll
<1> HIDE DEF clicked
<1>10. CalmAll(clicked, BlurOthers(clicked, w))
  BY <1>9, BlurOthersCalm
<1>11. QED
  BY <1>2, <1>8, <1>10, CalmAllFlags

LEMMA PageMouseFlags ==
  ASSUME Select2Assumption, S2Inv,
         \/ MouseDownOutside
         \/ \E w \in Widgets : MouseDownChoice(w) \/ MouseDownDropdown(w)
  PROVE  FlagsInv(ui')
<1>1. ui \in [Widgets -> WidgetState] /\ FlagsInv(ui)
  BY DEF S2Inv, AllInv
<1>2. ASSUME NEW all, CalmAll(ui, all), NEW w, ui' = MoveFocus(all, w)
      PROVE  FlagsInv(ui')
  <2>1. FlagsInv(all)
    BY <1>1, <1>2, CalmAllFlags
  <2>2. CalmAll(all, MoveFocus(all, w))
    BY <1>2, MoveFocusCalm DEF CalmAll
  <2>3. QED
    BY <1>2, <2>1, <2>2, CalmAllFlags
<1>3. ASSUME NEW w \in Widgets, MouseDownChoice(w)
      PROVE  FlagsInv(ui')
  <2>1. CalmAll(ui, BlurOthers(ui, w))
    BY <1>1, BlurOthersCalm
  <2>2. ui' = MoveFocus(BlurOthers(ui, w), NoWidget)
    BY <1>3 DEF MouseDownChoice
  <2>3. QED
    BY <1>2, <2>1, <2>2
<1>4. ASSUME NEW w \in Widgets, MouseDownDropdown(w)
      PROVE  FlagsInv(ui')
  <2>1. CalmAll(ui, ui)
    BY <1>1, CalmMethods DEF CalmAll
  <2>2. ui' = MoveFocus(ui, NoWidget)
    BY <1>4 DEF MouseDownDropdown
  <2>3. QED
    BY <1>2, <2>1, <2>2
<1>5. CASE MouseDownOutside
  <2> DEFINE f(v) == IF ui[v].dropActive THEN Blur(ui[v]) ELSE ui[v]
             all == [v \in Widgets |-> f(v)]
  <2>1. ui' = MoveFocus(all, NoWidget)
    BY <1>5 DEF MouseDownOutside
  <2>2. \A v \in Widgets : Calm(ui[v], f(v))
    BY <1>1, BlurCalm, CalmMethods
  <2> HIDE DEF f
  <2>3. CalmAll(ui, all)
    BY <2>2 DEF CalmAll, Calm
  <2> HIDE DEF all
  <2>4. QED
    BY <1>2, <2>1, <2>3
<1>6. QED
  BY <1>3, <1>4, <1>5

\* A step that puts a widget in a state its timers allow.
LEMMA PutStep ==
  ASSUME S2Inv, NEW w \in Widgets, NEW t \in WidgetState, WidgetFlags(t),
         ui' = [ui EXCEPT ![w] = t]
  PROVE  FlagsInv(ui')
BY PutFlags DEF S2Inv, AllInv

LEMMA PutCalm ==
  ASSUME S2Inv, NEW w \in Widgets, NEW t, Calm(ui[w], t), ui' = [ui EXCEPT ![w] = t]
  PROVE  FlagsInv(ui')
<1>1. WidgetFlags(ui[w])
  BY DEF S2Inv, FlagsInv
<1>2. t \in WidgetState /\ WidgetFlags(t)
  BY <1>1, CalmFlags DEF Calm
<1>3. QED
  BY <1>2, PutStep

LEMMA RowMouseFlags ==
  ASSUME Select2Assumption, S2Inv, NEW w \in Widgets, NEW o \in Options[w],
         ClickClose(w, o) \/ Hover(w, o) \/ MouseUpRow(w, o)
  PROVE  FlagsInv(ui')
<1>1. /\ ui \in [Widgets -> WidgetState] /\ ui[w] \in WidgetState
      /\ FlagsInv(ui) /\ WidgetFlags(ui[w])
  BY DEF S2Inv, AllInv, FlagsInv
<1>2. CASE ClickClose(w, o)
  <2> DEFINE f == ui[w].fading \cup {o}
             t == [ui[w] EXCEPT !.fading = f]
  <2>1. f \in SUBSET AllOptions
    BY <1>1 DEF WidgetState, Select2Assumption
  <2>2. ui' = [ui EXCEPT ![w] = t]
    BY <1>2 DEF ClickClose
  <2> HIDE DEF f
  <2>3. Calm(ui[w], t)
    BY <1>1, <2>1 DEF Calm, WidgetState
  <2> HIDE DEF t
  <2>4. QED
    BY <2>2, <2>3, PutCalm
<1>3. CASE Hover(w, o)
  <2> DEFINE t == HighlightUnderEvent(ui[w], o)
  <2>1. ui' = [ui EXCEPT ![w] = t]
    BY <1>3 DEF Hover
  <2>2. Calm(ui[w], t)
    BY <1>1, HoverCalm
  <2> HIDE DEF t
  <2>3. QED
    BY <2>1, <2>2, PutCalm
<1>4. CASE MouseUpRow(w, o)
  <2> DEFINE h == HighlightUnderEvent(ui[w], o)
             t == IF o \in Enabled(ui[w]) THEN SelectHighlighted(h) ELSE ui[w]
             all == [ui EXCEPT ![w] = t]
  <2>1. ui' = FocusSearch(all, w) /\ ui[w].refocus < MaxTimers
    BY <1>4 DEF MouseUpRow, MayRefocus
  <2>2. Calm(ui[w], t)
    <3>1. Calm(ui[w], h)
      BY <1>1, HoverCalm
    <3> HIDE DEF h
    <3>2. Calm(h, SelectHighlighted(h))
      BY <3>1, SelectHighlightedCalm DEF Calm
    <3>3. Calm(ui[w], SelectHighlighted(h))
      BY <3>1, <3>2, CalmChain
    <3>4. QED
      BY <1>1, <3>3, CalmMethods
  <2> HIDE DEF t
  <2>3. t \in WidgetState /\ WidgetFlags(t) /\ t.refocus = ui[w].refocus
    BY <1>1, <2>2, CalmFlags DEF Calm
  <2>4. /\ FlagsInv(all) /\ all \in [Widgets -> WidgetState]
        /\ all[w].refocus < MaxTimers
    BY <1>1, <2>1, <2>3, PutFlags
  <2> HIDE DEF all
  <2>5. QED
    BY <2>1, <2>4, FocusSearchFlags
<1>5. QED
  BY <1>2, <1>3, <1>4

\* The keys that may ask for the dropdown start from its choices unmarked.
LEMMA UnmarkedFlags ==
  ASSUME Select2Assumption, S2Inv, NEW w \in Widgets
  PROVE  LET s == Unmarked(ui[w]) IN
         /\ s \in WidgetState /\ WidgetFlags(s) /\ WidgetInv(s, Options[w])
         /\ s.opened = ui[w].opened
         /\ s.openings = ui[w].openings /\ s.refocus = ui[w].refocus
<1> DEFINE s == Unmarked(ui[w])
<1>1. ui[w] \in WidgetState /\ WidgetFlags(ui[w]) /\ WidgetInv(ui[w], Options[w])
  BY DEF S2Inv, AllInv, FlagsInv
<1>2. Free(ui[w], s) /\ Calm(ui[w], s)
  BY <1>1, FreeMethods, CalmMethods
<1> HIDE DEF s
<1>3. WidgetInv(s, Options[w]) /\ WidgetFlags(s)
  BY <1>1, <1>2, FreeKept, CalmFlags
<1>4. /\ s \in WidgetState /\ WidgetFlags(s) /\ WidgetInv(s, Options[w])
      /\ s.opened = ui[w].opened
      /\ s.openings = ui[w].openings /\ s.refocus = ui[w].refocus
  BY <1>2, <1>3 DEF Free, SameResults, Calm
<1>5. QED
  BY <1>4 DEF s

LEMMA TypeFlags ==
  ASSUME Select2Assumption, S2Inv, NEW w \in Widgets, NEW word \in Typed[w],
         Type(w, word)
  PROVE  FlagsInv(ui')
<1> DEFINE u == Unmarked(ui[w])
           p == Open(u)
           s == Remember(p)
           x == [s.text EXCEPT !.word = word]
           t == [s EXCEPT !.text = x]
<1>1. /\ u \in WidgetState /\ WidgetFlags(u)
      /\ u.opened = ui[w].opened /\ u.openings = ui[w].openings
  BY UnmarkedFlags
<1>2. ui' = [ui EXCEPT ![w] = t] /\ (ui[w].opened \/ ui[w].openings < MaxTimers)
  BY DEF Type, MayOpen
<1>3. word \in Words
  BY DEF Select2Assumption
<1> HIDE DEF u
<1>4. u.opened \/ u.openings < MaxTimers
  BY <1>1, <1>2
<1>5. p \in WidgetState /\ WidgetFlags(p)
  BY <1>1, <1>4, OpenFlags
<1> HIDE DEF p
<1>6. Calm(p, s)
  BY <1>5, CalmMethods
<1> HIDE DEF s
<1>7. s \in WidgetState /\ WidgetFlags(s)
  BY <1>5, <1>6, CalmFlags DEF Calm
<1>8. x \in Texts
  BY <1>3, <1>7 DEF WidgetState, Texts
<1> HIDE DEF x
<1>9. Calm(s, t)
  BY <1>7, <1>8 DEF Calm, WidgetState
<1> HIDE DEF t
<1>10. t \in WidgetState /\ WidgetFlags(t)
  BY <1>7, <1>9, CalmFlags DEF Calm
<1>11. QED
  BY <1>2, <1>10, PutStep

LEMMA BackspaceFlags ==
  ASSUME Select2Assumption, S2Inv, NEW w \in Widgets, Backspace(w)
  PROVE  FlagsInv(ui')
<1> DEFINE s == ui[w]
           c == Close(s)
           first == CHOOSE o \in s.marked : TRUE
           last == s.choices[Len(s.choices)]
           lastMarked == [c EXCEPT !.marked = {last}]
           put(t) == ui' = [ui EXCEPT ![w] = t]
<1>1. s \in WidgetState /\ WidgetInv(s, Options[w]) /\ Options[w] \in SUBSET AllOptions
  BY DEF S2Inv, AllInv, Select2Assumption
<1>2. Calm(s, c) /\ WidgetInv(c, Options[w]) /\ SameSelection(s, c)
  BY <1>1, CloseCalm, CloseKept
<1>3. \/ put(Erase(Remember(Unmarked(s))))
      \/ s.marked # {} /\ put(Remember(Unselect(c, first)))
      \/ s.choices # <<>> /\ put(Erase(Remember(lastMarked)))
      \/ put(Erase(Remember(c)))
  BY DEF Backspace
<1> HIDE DEF c
<1>4. ASSUME NEW t, Calm(s, t), put(t)
      PROVE  FlagsInv(ui')
  BY <1>4, PutCalm
<1>5. ASSUME NEW t, Calm(s, t)
      PROVE  Calm(s, Remember(t)) /\ Calm(s, Erase(t))
  <2>1. Calm(t, Remember(t)) /\ Calm(t, Erase(t))
    BY <1>5, CalmMethods DEF Calm
  <2>2. QED
    BY <1>5, <2>1, CalmChain
<1>6. CASE put(Erase(Remember(Unmarked(s))))
  <2>1. Calm(s, Unmarked(s))
    BY <1>1, CalmMethods
  <2> HIDE DEF s, put
  <2>2. QED
    BY <1>4, <1>5, <1>6, <2>1
<1>7. CASE s.marked # {} /\ put(Remember(Unselect(c, first)))
  <2>1. first \in s.marked
    BY <1>7
  <2> HIDE DEF first
  <2>2. SelectionInv(c, Options[w]) /\ first \in c.value
    BY <1>1, <1>2, <2>1 DEF WidgetInv, SelectionInv, SameSelection
  <2>3. Calm(c, Unselect(c, first))
    BY <1>1, <2>2, UnselectCalm
  <2>4. Calm(s, Unselect(c, first))
    BY <1>2, <2>3, CalmChain
  <2> HIDE DEF s, put
  <2>5. QED
    BY <1>4, <1>5, <1>7, <2>4
<1>8. CASE s.choices # <<>> /\ put(Erase(Remember(lastMarked)))
  <2>1. last \in AllOptions
    <3>1. Len(s.choices) \in 1..Len(s.choices)
      BY <1>1, <1>8 DEF WidgetState
    <3>2. QED
      BY <1>1, <3>1 DEF WidgetState
  <2> HIDE DEF last
  <2>2. Calm(c, lastMarked)
    BY <1>2, <2>1 DEF Calm, WidgetState
  <2>3. Calm(s, lastMarked)
    BY <1>2, <2>2, CalmChain
  <2> HIDE DEF s, put, lastMarked
  <2>4. QED
    BY <1>4, <1>5, <1>8, <2>3
<1>9. CASE put(Erase(Remember(c)))
  <2> HIDE DEF s, put
  <2>1. QED
    BY <1>2, <1>4, <1>5, <1>9
<1>10. QED
  BY <1>3, <1>6, <1>7, <1>8, <1>9

LEMMA ArrowFlags ==
  ASSUME Select2Assumption, S2Inv, NEW w \in Widgets, NEW down \in BOOLEAN,
         Arrow(w, down)
  PROVE  FlagsInv(ui')
<1> DEFINE s == Unmarked(ui[w])
           m == IF s.opened THEN MoveHighlight(s, down) ELSE Open(s)
           t == Remember(m)
<1>1. /\ s \in WidgetState /\ WidgetFlags(s) /\ WidgetInv(s, Options[w])
      /\ s.opened = ui[w].opened /\ s.openings = ui[w].openings
  BY UnmarkedFlags
<1>2. ui' = [ui EXCEPT ![w] = t] /\ (ui[w].opened \/ ui[w].openings < MaxTimers)
  BY DEF Arrow, MayOpen
<1> HIDE DEF s
<1>3. s.opened \/ s.openings < MaxTimers
  BY <1>1, <1>2
<1>4. Open(s) \in WidgetState /\ WidgetFlags(Open(s))
  BY <1>1, <1>3, OpenFlags
<1>5. Calm(s, MoveHighlight(s, down))
  BY <1>1, MoveHighlightCalm
<1>6. MoveHighlight(s, down) \in WidgetState /\ WidgetFlags(MoveHighlight(s, down))
  BY <1>1, <1>5, CalmFlags DEF Calm
<1>7. m \in WidgetState /\ WidgetFlags(m)
  BY <1>4, <1>6
<1> HIDE DEF m
<1>8. Calm(m, t)
  BY <1>7, CalmMethods
<1> HIDE DEF t
<1>9. t \in WidgetState /\ WidgetFlags(t)
  BY <1>7, <1>8, CalmFlags DEF Calm
<1>10. QED
  BY <1>2, <1>9, PutStep

LEMMA EnterFlags ==
  ASSUME Select2Assumption, S2Inv, NEW w \in Widgets, Enter(w)
  PROVE  FlagsInv(ui')
<1> DEFINE s == Unmarked(ui[w])
           selects == s.opened /\ Highlighted(s) # {}
           e == IF s.opened THEN SelectHighlighted(s) ELSE Open(s)
           t == Remember([e EXCEPT !.refocus = IF selects THEN @ + 1 ELSE @])
<1>1. /\ s \in WidgetState /\ WidgetFlags(s)
      /\ s.opened = ui[w].opened /\ s.openings = ui[w].openings
      /\ s.refocus = ui[w].refocus
  BY UnmarkedFlags
<1>2. /\ ui' = [ui EXCEPT ![w] = t]
      /\ ui[w].opened \/ ui[w].openings < MaxTimers
      /\ selects => ui[w].refocus < MaxTimers
  BY DEF Enter, MayOpen, MayRefocus
<1> HIDE DEF s
<1>3. s.opened \/ s.openings < MaxTimers
  BY <1>1, <1>2
<1>4. /\ Open(s) \in WidgetState /\ WidgetFlags(Open(s)) /\ Open(s).refocus = s.refocus
  BY <1>1, <1>3, OpenFlags
<1>5. Calm(s, SelectHighlighted(s))
  BY <1>1, SelectHighlightedCalm
<1>6. /\ SelectHighlighted(s) \in WidgetState /\ WidgetFlags(SelectHighlighted(s))
      /\ SelectHighlighted(s).refocus = s.refocus
  BY <1>1, <1>5, CalmFlags DEF Calm
<1>7. e \in WidgetState /\ WidgetFlags(e) /\ e.refocus = s.refocus
  BY <1>4, <1>6
<1>8. selects \in BOOLEAN /\ (selects => e.refocus < MaxTimers)
  <2>1. s.opened \in BOOLEAN
    BY <1>1 DEF WidgetState
  <2>2. QED
    BY <1>1, <1>2, <1>7, <2>1
<1> HIDE DEF e, selects
<1>9. WidgetFlags(t)
  BY <1>7, <1>8, AskFlags
<1>10. t \in WidgetState
  BY <1>2, EnterKept DEF S2Inv, Still, Toggled, AllInv
<1> HIDE DEF t
<1>11. QED
  BY <1>2, <1>9, <1>10, PutStep

LEMMA EscapeFlags ==
  ASSUME Select2Assumption, S2Inv, NEW w \in Widgets, Escape(w)
  PROVE  FlagsInv(ui')
<1> DEFINE s == Unmarked(ui[w])
           c == Close(s)
           b == s.opened
           t == Remember([c EXCEPT !.refocus = IF b THEN @ + 1 ELSE @])
<1>1. /\ s \in WidgetState /\ WidgetFlags(s)
      /\ s.opened = ui[w].opened /\ s.refocus = ui[w].refocus
  BY UnmarkedFlags
<1>2. ui' = [ui EXCEPT ![w] = t] /\ (b => ui[w].refocus < MaxTimers)
  BY DEF Escape, MayRefocus
<1> HIDE DEF s
<1>3. Calm(s, c)
  BY <1>1, CloseCalm
<1> HIDE DEF c
<1>4. c \in WidgetState /\ WidgetFlags(c) /\ c.refocus = ui[w].refocus
  BY <1>1, <1>3, CalmFlags DEF Calm
<1>5. b \in BOOLEAN /\ (b => c.refocus < MaxTimers)
  BY <1>1, <1>2, <1>4 DEF WidgetState
<1> HIDE DEF b
<1>6. WidgetFlags(t)
  BY <1>4, <1>5, AskFlags
<1>7. t \in WidgetState
  BY <1>2, EscapeKept DEF S2Inv, Still, AllInv
<1> HIDE DEF t
<1>8. QED
  BY <1>2, <1>6, <1>7, PutStep

LEMMA TabAwayFlags ==
  ASSUME Select2Assumption, S2Inv, NEW w \in Widgets, NEW v, TabAway(w, v)
  PROVE  FlagsInv(ui')
<1> DEFINE s == Unmarked(ui[w])
           t == Remember(s)
           all == [ui EXCEPT ![w] = t]
<1>1. s \in WidgetState /\ WidgetFlags(s)
  BY UnmarkedFlags
<1>2. ui \in [Widgets -> WidgetState] /\ FlagsInv(ui)
  BY DEF S2Inv, AllInv
<1>3. ui' = MoveFocus(all, v)
  BY DEF TabAway
<1> HIDE DEF s
<1>4. Calm(s, t)
  BY <1>1, CalmMethods
<1> HIDE DEF t
<1>5. t \in WidgetState /\ WidgetFlags(t)
  BY <1>1, <1>4, CalmFlags DEF Calm
<1>6. FlagsInv(all) /\ all \in [Widgets -> WidgetState]
  BY <1>2, <1>5, PutFlags
<1> HIDE DEF all
<1>7. CalmAll(all, MoveFocus(all, v))
  BY <1>6, MoveFocusCalm
<1>8. QED
  BY <1>3, <1>6, <1>7, CalmAllFlags

LEMMA KeyUpFlags ==
  ASSUME Select2Assumption, S2Inv, NEW w \in Widgets, KeyUp(w)
  PROVE  FlagsInv(ui')
<1> DEFINE s == [ui[w] EXCEPT !.keyval = Unset]
           initial == FALSE
           t == UpdateResults(s, w, initial)
<1>1. ui[w] \in WidgetState
  BY DEF S2Inv, AllInv
<1>2. ui' = [ui EXCEPT ![w] = t]
  BY DEF KeyUp
<1>3. Calm(ui[w], s)
  BY <1>1 DEF Calm, WidgetState
<1>4. initial \in BOOLEAN
  OBVIOUS
<1> HIDE DEF s, initial
<1>5. Calm(s, t)
  BY <1>3, <1>4, UpdateCalm DEF Calm
<1> HIDE DEF t
<1>6. Calm(ui[w], t)
  BY <1>3, <1>5, CalmChain
<1>7. QED
  BY <1>2, <1>6, PutCalm

LEMMA WindowFlags ==
  ASSUME Select2Assumption, S2Inv,
         (\E w \in Widgets : FocusEnters(w)) \/ FocusLeaves \/ Resize
  PROVE  FlagsInv(ui')
<1>1. ui \in [Widgets -> WidgetState] /\ FlagsInv(ui)
  BY DEF S2Inv, AllInv
<1>2. ASSUME NEW w, ui' = MoveFocus(ui, w)
      PROVE  FlagsInv(ui')
  <2>1. CalmAll(ui, MoveFocus(ui, w))
    BY <1>1, MoveFocusCalm
  <2>2. QED
    BY <1>1, <1>2, <2>1, CalmAllFlags
<1>3. CASE Resize
  <2> DEFINE f(v) == Close(ui[v])
             new == [v \in Widgets |-> f(v)]
  <2>1. ui' = new
    BY <1>3 DEF Resize
  <2>2. \A v \in Widgets : Calm(ui[v], f(v))
    BY <1>1, CloseCalm
  <2> HIDE DEF f
  <2>3. CalmAll(ui, new)
    BY <2>2 DEF CalmAll, Calm
  <2> HIDE DEF new
  <2>4. QED
    BY <1>1, <2>1, <2>3, CalmAllFlags
<1>4. QED
  BY <1>2, <1>3 DEF FocusEnters, FocusLeaves

LEMMA FocusStep ==
  ASSUME FocusTyped, S2Next
  PROVE  FocusTyped'
BY DEF FocusTyped, S2Next, Timer, Mouse, Keyboard, Opening, Refocus, FadeDone,
       MouseDownContainer, MouseDownChoice, MouseDownDropdown, ClickClose, Hover,
       MouseUpRow, MouseDownOutside, Type, Backspace, Arrow, Enter, Escape, TabAway,
       KeyUp, FocusEnters, FocusLeaves, Resize

LEMMA FlagsStep ==
  ASSUME Select2Assumption, S2Inv, S2Next
  PROVE  FlagsInv(ui')
<1>1. ASSUME NEW w \in Widgets, Timer(w)
      PROVE  FlagsInv(ui')
  BY <1>1, OpeningFlags, RefocusFlags, FadeDoneFlags DEF Timer
<1>2. ASSUME NEW w \in Widgets, Mouse(w)
      PROVE  FlagsInv(ui')
  BY <1>2, ContainerFlags, PageMouseFlags, RowMouseFlags DEF Mouse
<1>3. ASSUME NEW w \in Widgets, Keyboard(w)
      PROVE  FlagsInv(ui')
  BY <1>3, TypeFlags, ArrowFlags, TabAwayFlags, BackspaceFlags, EnterFlags,
     EscapeFlags, KeyUpFlags DEF Keyboard
<1>4. QED
  BY <1>1, <1>2, <1>3, PageMouseFlags, WindowFlags DEF S2Next

\* The invariant of the dropdowns and timers: an open dropdown is an active one,
\* whatever was blurred in between, since only blur() ends the one and it closes
\* the dropdown first.
THEOREM DropdownsInvariant == S2Spec => []S2Inv
<1> USE Select2Assumption
<1>1. S2Init => S2Inv
  <2>1. ASSUME S2Init
        PROVE  FlagsInv(ui) /\ FocusTyped
    <3> DEFINE s == InitialState
    <3>1. ui = [w \in Widgets |-> s] /\ focus = NoWidget
      BY <2>1 DEF S2Init
    <3>2. s.openings = 0 /\ s.refocus = 0 /\ s.opened = FALSE
      BY DEF InitialState
    <3>3. 0 <= MaxTimers
      BY DEF Select2Assumption
    <3> HIDE DEF s
    <3>4. WidgetFlags(s)
      BY <3>2, <3>3 DEF WidgetFlags
    <3>5. QED
      BY <3>1, <3>4 DEF FlagsInv, FocusTyped
  <2>2. QED
    BY <2>1, InitKept DEF S2Inv
<1>2. S2Inv /\ [S2Next]_s2Vars => S2Inv'
  <2>1. ASSUME S2Inv, S2Next
        PROVE  S2Inv'
    <3>1. AllInv(ui')
      BY <2>1, StepKept DEF S2Inv, Still, Toggled
    <3>2. FlagsInv(ui')
      BY <2>1, FlagsStep
    <3>3. FocusTyped'
      BY <2>1, FocusStep DEF S2Inv
    <3>4. QED
      BY <3>1, <3>2, <3>3 DEF S2Inv, AllInv, FlagsInv
  <2>2. CASE UNCHANGED s2Vars
    BY <2>2 DEF s2Vars, S2Inv, AllInv, FlagsInv, FocusTyped
  <2>3. QED
    BY <2>1, <2>2
<1>3. QED
  BY <1>1, <1>2, PTL DEF S2Spec

\* Every widget keeps the type of its state, and of each kind no more timers are
\* pending than the model allows.
THEOREM Select2TypeCorrect == S2Spec => []S2TypeOK
<1>1. S2Inv => S2TypeOK
  BY DEF S2Inv, AllInv, FlagsInv, WidgetFlags, FocusTyped, S2TypeOK
<1>2. QED
  BY <1>1, DropdownsInvariant, PTL

\* A click beside the widgets closes every dropdown: each open one is among those
\* that the page's handler blurs, although its container may not be active.
THEOREM OutsideClicksClose == S2Spec => OutsideClickCloses
<1> DEFINE A == MouseDownOutside => \A w \in Widgets : ~ui'[w].opened
<1>1. ASSUME S2Inv, MouseDownOutside, NEW w \in Widgets
      PROVE  ~ui'[w].opened
  <2> DEFINE f(v) == IF ui[v].dropActive THEN Blur(ui[v]) ELSE ui[v]
             all == [v \in Widgets |-> f(v)]
  <2>1. ui' = MoveFocus(all, NoWidget)
    BY <1>1 DEF MouseDownOutside
  <2>2. ui \in [Widgets -> WidgetState] /\ FlagsInv(ui)
    BY <1>1 DEF S2Inv, AllInv
  <2>3. \A v \in Widgets : f(v) \in WidgetState /\ ~f(v).opened
    BY <2>2, BlurCalm DEF FlagsInv, WidgetFlags, Calm
  <2> HIDE DEF f
  <2>4. all \in [Widgets -> WidgetState] /\ ~all[w].opened
    BY <2>3
  <2> HIDE DEF all
  <2>5. CalmAll(all, MoveFocus(all, NoWidget))
    BY <2>4, MoveFocusCalm
  <2>6. QED
    BY <2>1, <2>4, <2>5 DEF CalmAll, Calm
<1>2. S2Inv /\ [S2Next]_s2Vars => [A]_s2Vars
  BY <1>1
<1>3. QED
  BY <1>2, DropdownsInvariant, PTL DEF S2Spec, OutsideClickCloses

-----------------------------------------------------------------------------
(* The archive page: what is shown, for all filters, options and archived  *)
(* runs.                                                                   *)

\* A filter matches some run if and only if an option of it is selected: no option
\* is offered under which no run was filed.
LEMMA UnionEmpty ==
  ASSUME ArchiveAssumption, NEW all, AllInv(all), NEW w \in Widgets
  PROVE  Union(all, w) # {} <=> Values(all)[w] # {}
<1>1. all[w].value \subseteq Options[w] /\ Values(all)[w] = all[w].value
  BY DEF AllInv, WidgetInv, SelectionInv, Values
<1>2. \A o \in Options[w] : \E r \in Runs : o \in Keys[w][r]
  BY DEF ArchiveAssumption
<1>3. QED
  BY <1>1, <1>2 DEF Union

\* intersect() shows the runs that match the selection.
LEMMA IntersectShows ==
  ASSUME ArchiveAssumption, NEW all, AllInv(all)
  PROVE  Intersect(all) = Filter!Shown(Values(all))
<1> DEFINE sel == Values(all)
           full == {i \in 1..Len(Filters) : Union(all, Filters[i]) # {}}
           first == CHOOSE i \in full : \A k \in full : i <= k
<1>1. /\ Widgets = {Filters[i] : i \in 1..Len(Filters)}
      /\ Len(Filters) \in Nat
  BY DEF ArchiveAssumption
<1>2. \A i \in 1..Len(Filters) : i \in full <=> sel[Filters[i]] # {}
  BY <1>1, UnionEmpty
<1>3. \A r \in Runs : \A w \in Widgets :
        r \in Union(all, w) <=> Keys[w][r] \cap sel[w] # {}
  BY DEF Union, Values
<1>4. \A w \in Widgets : Union(all, w) \subseteq Runs
  BY DEF Union
<1>5. full \subseteq Nat /\ full \subseteq 1..Len(Filters)
  BY <1>1
<1>6. Intersect(all) = IF full = {} THEN {}
                       ELSE {r \in Union(all, Filters[first]) :
                               \A i \in full : r \in Union(all, Filters[i])}
  BY DEF Intersect
<1> HIDE DEF full, sel
<1>7. CASE full = {}
  <2>1. Filter!Selected(sel) = {}
    BY <1>1, <1>2, <1>7 DEF Filter!Selected
  <2>2. QED
    BY <1>6, <1>7, <2>1 DEF Filter!Shown, sel
<1>8. CASE full # {}
  <2>1. first \in full
    BY <1>5, <1>8, FirstPosition
  <2> HIDE DEF first
  <2>2. Filter!Selected(sel) = {Filters[i] : i \in full}
    BY <1>1, <1>2, <1>5 DEF Filter!Selected
  <2>3. Filter!Selected(sel) # {}
    <3>1. Filters[first] \in Filter!Selected(sel)
      BY <2>1, <2>2, Zenon
    <3>2. QED
      BY <3>1, Zenon
  <2>4. Intersect(all) = {r \in Runs : \A i \in full : r \in Union(all, Filters[i])}
    BY <1>1, <1>4, <1>5, <1>6, <1>8, <2>1
  <2>5. \A r \in Runs : (\A i \in full : r \in Union(all, Filters[i]))
          <=> (\A w \in Filter!Selected(sel) : Keys[w][r] \cap sel[w] # {})
    BY <1>1, <1>3, <1>5, <2>2
  <2>6. Filter!Shown(sel) = Filter!Admitted(sel)
    BY <2>3 DEF Filter!Shown
  <2>7. QED
    BY <2>4, <2>5, <2>6 DEF Filter!Admitted, sel
<1>9. QED
  BY <1>7, <1>8

\* The page told of a change if and only if a selection changed.
LEMMA ChangedWhenToggled ==
  ASSUME AllInv(ui), AllInv(ui)'
  PROVE  Changed <=> Values(ui') # Values(ui)
<1>1. \A w \in Widgets : ui[w].announced = ui[w].value /\ ui'[w].announced = ui'[w].value
  BY DEF AllInv, WidgetInv, RowsInv
<1>2. Changed <=> \E w \in Widgets : ui'[w].value # ui[w].value
  BY <1>1 DEF Changed
<1>3. QED
  BY <1>2 DEF Values

LEMMA PageStep ==
  ASSUME Select2Assumption, ArchiveAssumption, AllInv(ui), PageNext
  PROVE  Filter!Next \/ UNCHANGED <<Values(ui), table>>
<1>1. S2Next /\ table' = IF Changed THEN Intersect(ui') ELSE table
  BY DEF PageNext
<1>2. CASE Still
  <2>1. AllInv(ui)' /\ Values(ui)' = Values(ui)
    BY <1>2 DEF Still
  <2>2. ~Changed
    BY <2>1, ChangedWhenToggled
  <2>3. QED
    BY <1>1, <2>1, <2>2
<1>3. ASSUME NEW w \in Widgets, NEW o \in Options[w], Toggled(w, o)
      PROVE  Filter!Next
  <2>1. AllInv(ui)'
    BY <1>3 DEF Toggled
  <2>2. Values(ui)' = [Values(ui) EXCEPT ![w] = IF o \in @ THEN @ \ {o} ELSE @ \cup {o}]
    <3>1. Values(ui)[w] = ui[w].value
      BY DEF Values
    <3>2. QED
      BY <1>3, <3>1 DEF Toggled, Minus, With
  <2>3. Values(ui') # Values(ui)
    <3>1. Values(ui)' [w] = IF o \in Values(ui)[w] THEN Values(ui)[w] \ {o}
                            ELSE Values(ui)[w] \cup {o}
      BY <2>2 DEF Values
    <3>2. QED
      BY <3>1
  <2>4. table' = Intersect(ui')
    BY <1>1, <2>1, <2>3, ChangedWhenToggled
  <2>5. table' = Filter!Shown(Values(ui'))
    BY <2>1, <2>4, IntersectShows
  <2>6. Filter!Change(w, o)
    BY <2>2, <2>5 DEF Filter!Change, Values
  <2>7. QED
    BY <2>6 DEF Filter!Next
<1>4. QED
  BY <1>1, <1>2, <1>3, StepKept

\* The page is one that plays by the rules of the widgets.
LEMMA PageImplementsWidgets == PageSpec => S2Spec
<1>1. PageInit => S2Init
  BY DEF PageInit
<1>2. [PageNext]_pageVars => [S2Next]_s2Vars
  BY DEF PageNext, pageVars, s2Vars
<1>3. QED
  BY <1>1, <1>2, PTL DEF PageSpec, S2Spec

\* The archive page implements ArchiveFilter: whatever the user and the timers do,
\* one option at a time is selected or removed, and the table is that of the current
\* selection.
THEOREM PageFilters == PageSpec => KeepsFilter
<1> DEFINE selection == [w \in Widgets |-> ui[w].value]
<1>1. PageInit => Filter!Init
  BY DEF PageInit, S2Init, InitialState, Filter!Init
<1>2. AllInv(ui) /\ [PageNext]_pageVars => [Filter!Next]_<<selection, table>>
  <2>1. CASE PageNext
    BY <2>1, PageStep, Select2Assumption, ArchiveAssumption DEF Values
  <2>2. CASE UNCHANGED pageVars
    BY <2>2 DEF pageVars, s2Vars
  <2>3. QED
    BY <2>1, <2>2
<1>3. QED
  BY <1>1, <1>2, PageImplementsWidgets, WidgetsInvariant, PTL
     DEF PageSpec, KeepsFilter, Filter!Spec
=============================================================================
