------------------------------- MODULE Select2 -------------------------------
(***************************************************************************)
(* The selection widgets of the archive page: RCubic/web/js/select2.js, as *)
(* archive.html uses it, that is select2() with no options on several      *)
(* <select multiple> elements of flat <option>s (MultiSelect2).            *)
(*                                                                         *)
(* Events and timers of a page run one at a time, so every handler is one  *)
(* action.  A handler composes methods of the widget: a method that        *)
(* changes the widget is an operator from its state to its next state, and *)
(* an action applies them in the order of the handler.  What the user does *)
(* next, and which timer fires next, is left open.                         *)
(*                                                                         *)
(* Left out: markup, positions and widths; what no caller here turns on    *)
(* (ajax, tags, placeholder, limits, disable).                             *)
(***************************************************************************)
EXTENDS Integers, Sequences, FiniteSets

CONSTANTS
  Widgets,    \* the elements select2() was called on
  NoWidget,   \* where the focus is when no search field has it
  AllOptions, \* the values of all their options
  Options,    \* Options[w]: the options of w
  Position,   \* Position[o]: where o stands in its element
  Words,      \* what the user types
  NoWord,
  Typed,      \* bound: Typed[w], the words the user types into w
  Matching,   \* Matching[word]: the options whose text contains word
  Unset,
  MaxTimers   \* bound: timers of one kind a widget has pending

(***************************************************************************)
(* The text of a search field: a word that was typed, after the space that *)
(* clearSearch leaves in an unused field or not.                           *)
(***************************************************************************)
Texts == [spaced : BOOLEAN, word : Words \cup {NoWord}]
Empty == [spaced |-> FALSE, word |-> NoWord]
Blank == [spaced |-> TRUE, word |-> NoWord]

ASSUME Select2Assumption ==
  /\ NoWidget \notin Widgets
  /\ Options \in [Widgets -> SUBSET AllOptions]
  /\ IsFiniteSet(AllOptions)
  /\ Position \in [AllOptions -> Nat]
  /\ \A o, p \in AllOptions : Position[o] = Position[p] => o = p
  /\ NoWord \notin Words
  /\ Typed \in [Widgets -> SUBSET Words]
  /\ Matching \in [Words -> SUBSET AllOptions]
  /\ Unset \notin Texts
  /\ MaxTimers \in Nat \ {0}

WidgetState ==
  [value      : SUBSET AllOptions,       \* the selected options of the element
   announced  : SUBSET AllOptions,       \* its value when it last triggered "change"
   choices    : Seq(AllOptions),         \* the choices shown in the container
   marked     : SUBSET AllOptions,       \* choices with select2-search-choice-focus
   fading     : SUBSET AllOptions,       \* choices that are removed when faded out
   opened     : BOOLEAN,                 \* select2-dropdown-open
   active     : BOOLEAN,                 \* select2-container-active
   dropActive : BOOLEAN,                 \* select2-drop-active
   openings   : Nat,                     \* pending timers of open()
   refocus    : Nat,                     \* pending timers of focusSearch()
   rows       : SUBSET AllOptions,       \* the results, in the order of Position
   selectable : SUBSET AllOptions,       \* those with select2-result-selectable,
   disabled   : SUBSET AllOptions,       \* with select2-disabled,
   lit        : SUBSET AllOptions,       \* with select2-highlighted
   text       : Texts,                   \* the search field
   keyval     : Texts \cup {Unset}]      \* its data "keyup-change-value"

VARIABLES
  ui,     \* ui[w]: the state of w
  focus   \* the widget whose search field is document.activeElement

s2Vars == <<ui, focus>>

-----------------------------------------------------------------------------
(* The results.                                                            *)

IndexIn(S, o) == Cardinality({p \in S : Position[p] < Position[o]})
Nth(S, i) == CHOOSE o \in S : IndexIn(S, o) = i

\* ".select2-result-selectable" that are not ".select2-disabled".
Enabled(s) == s.selectable \ s.disabled

Highlighted(s) == Enabled(s) \cap s.lit

\* highlight(): the index of the highlighted one among those that are enabled.
HighlightIndex(s) == IndexIn(Enabled(s), Nth(Highlighted(s), 0))

\* Slip: the highlight stays where it was as well.
HighlightAlso(s, index) ==
  LET last == Cardinality(Enabled(s)) - 1
      i == IF index > last THEN last ELSE IF index < 0 THEN 0 ELSE index
  IN IF last < 0 THEN s
     ELSE [s EXCEPT !.lit = @ \cup {Nth(Enabled(s), i)}]

Highlight(s, index) ==
  LET last == Cardinality(Enabled(s)) - 1
      i == IF index > last THEN last ELSE IF index < 0 THEN 0 ELSE index
  IN IF last < 0 THEN s
     ELSE [s EXCEPT !.lit = (@ \ Enabled(s)) \cup {Nth(Enabled(s), i)}]

\* The nearest enabled result above or below the highlighted one, if any.
MoveHighlight(s, down) ==
  LET from == HighlightIndex(s)
      beyond == {i \in 0..(Cardinality(s.selectable) - 1) :
                   /\ IF down THEN i > from ELSE i < from
                   /\ Nth(s.selectable, i) \notin s.disabled}
      nearest == CHOOSE i \in beyond :
                   \A k \in beyond : IF down THEN i <= k ELSE i >= k
  IN IF Highlighted(s) = {} \/ beyond = {} THEN s ELSE Highlight(s, nearest)

\* Slip: the row is counted from one.
HighlightUnderNext(s, o) ==
  IF o \notin s.selectable THEN [s EXCEPT !.lit = {}]
  ELSE IF o \in s.lit THEN s
  ELSE Highlight(s, IndexIn(s.selectable, o) + 1)

\* The mouse is over row o: the index it has among all selectable rows is used
\* for those that are not disabled.
HighlightUnderEvent(s, o) ==
  IF o \notin s.selectable THEN [s EXCEPT !.lit = {}]
  ELSE IF o \in s.lit THEN s
  ELSE Highlight(s, IndexIn(s.selectable, o))

\* Slip: a result that is selected already stays selectable.
PostprocessNothing(s) == IF s.selectable = {} THEN s ELSE Highlight(s, 0)

\* postprocessResults: what is selected cannot be selected again.
PostprocessResults(s) ==
  LET taken == s.selectable \cap s.value
      marked == [s EXCEPT !.disabled = (@ \ s.selectable) \cup taken,
                          !.selectable = @ \ taken]
  IN IF marked.selectable = {} THEN marked ELSE Highlight(marked, 0)

\* No date, version or group name has a space in it.
Matches(t, o) == ~t.spaced /\ (t.word = NoWord \/ o \in Matching[t.word])

\* opts.query, which prepareOpts sets for a <select>, calls back at once.
Query(w, t) == {o \in Options[w] : Matches(t, o)}

\* results.empty() and populateResults.
Populate(s, found) ==
  [s EXCEPT !.rows = found, !.selectable = found, !.disabled = {}, !.lit = {}]

UpdateResults(s, w, initial) ==
  IF ~initial /\ ~s.opened THEN s
  ELSE PostprocessResults(Populate(s, Query(w, s.text)))

-----------------------------------------------------------------------------
(* The search field and the dropdown.                                      *)

ClearSearch(s) == [s EXCEPT !.text = Blank]

ClearPlaceholder(s) == [s EXCEPT !.text = IF @ = Blank THEN Empty ELSE @]

\* The handlers of the search field's "focus" and "blur".
OnFocus(s) == [ClearPlaceholder(s) EXCEPT !.active = TRUE, !.dropActive = TRUE]
OnBlur(s) == [ClearSearch(s) EXCEPT !.active = FALSE]

\* Slip: an open dropdown is opened again.
OpenAgain(s) == [s EXCEPT !.openings = @ + 1]

\* open(): the dropdown opens in a timer's callback, unless it is open now.
Open(s) == IF s.opened THEN s ELSE [s EXCEPT !.openings = @ + 1]

\* Slip: an open dropdown does not count as active.
CloseInactive(s) ==
  IF ~s.opened \/ ~s.active THEN s
  ELSE [ClearSearch(Populate(s, {})) EXCEPT !.opened = FALSE, !.active = FALSE]

Close(s) ==
  IF ~s.opened THEN s
  ELSE [ClearSearch(Populate(s, {})) EXCEPT !.opened = FALSE, !.active = FALSE]

\* blur(), which also gives up the focus.
Blur(s) ==
  [ClearSearch(Close(s)) EXCEPT !.active = FALSE, !.dropActive = FALSE, !.marked = {}]

\* The search field of w, or none, gets the focus; whoever had it loses it.
MoveFocus(all, w) ==
  [v \in Widgets |-> IF v = w /\ v # focus THEN OnFocus(all[v])
                     ELSE IF v = focus /\ v # w THEN OnBlur(all[v])
                     ELSE all[v]]

\* focusSearch(): now, and again from a timer.
FocusSearch(all, w) == MoveFocus([all EXCEPT ![w].refocus = @ + 1], w)

-----------------------------------------------------------------------------
(* The selection.                                                          *)

\* The position of o among the choices, and the choices without the i-th.
IndexOf(choices, o) == CHOOSE i \in 1..Len(choices) : choices[i] = o
Without(choices, i) ==
  [k \in 1..(Len(choices) - 1) |-> IF k < i THEN choices[k] ELSE choices[k + 1]]

TriggerChange(s) == [s EXCEPT !.announced = s.value]

\* Slip: the choice is shown but the element's value is not set.
AddChoiceOnly(s, o) == [s EXCEPT !.choices = Append(@, o)]

AddSelectedChoice(s, o) ==
  [s EXCEPT !.choices = Append(@, o), !.value = @ \cup {o}]

\* onSelect, up to the focusSearch() that ends it.
OnSelect(s, o) ==
  TriggerChange(Close(PostprocessResults(AddSelectedChoice(s, o))))

\* The highlighted result is disabled before it is selected.
SelectHighlighted(s) ==
  IF Highlighted(s) = {} THEN s
  ELSE LET chosen == [s EXCEPT !.disabled = @ \cup Highlighted(s)]
       IN OnSelect(Highlight(chosen, HighlightIndex(s)), Nth(Highlighted(s), 0))

\* unselect: o's choice is removed.
Unselect(s, o) ==
  LET unset == IF o \in s.value
               THEN PostprocessResults([s EXCEPT !.value = @ \ {o}]) ELSE s
  IN TriggerChange([unset EXCEPT !.choices = Without(@, IndexOf(@, o)),
                                 !.marked = @ \ {o},
                                 !.fading = @ \ {o}])

-----------------------------------------------------------------------------
(* select2() on elements of which no option is selected.                   *)

InitialState ==
  [value |-> {}, announced |-> {}, choices |-> <<>>, marked |-> {}, fading |-> {},
   opened |-> FALSE, active |-> FALSE, dropActive |-> FALSE,
   openings |-> 0, refocus |-> 0,
   rows |-> {}, selectable |-> {}, disabled |-> {}, lit |-> {},
   text |-> Blank, keyval |-> Unset]

S2Init ==
  /\ ui = [w \in Widgets |-> InitialState]
  /\ focus = NoWidget

-----------------------------------------------------------------------------
(* Timers.                                                                 *)

\* Bound: the pending timers of one kind.
MayOpen(w) == ui[w].opened \/ ui[w].openings < MaxTimers
MayRefocus(w) == ui[w].refocus < MaxTimers

\* opening(), of the subclass and of the superclass.
Opening(w) ==
  LET s == [ui[w] EXCEPT !.openings = @ - 1, !.opened = TRUE, !.active = TRUE,
                         !.text = IF @ = Blank THEN Empty ELSE @]
      shown == [UpdateResults(s, w, TRUE) EXCEPT !.dropActive = TRUE]
      all == [ui EXCEPT ![w] = ClearPlaceholder(shown)]
  IN /\ ui[w].openings > 0
     /\ MayRefocus(w)
     /\ ui' = FocusSearch(all, w)
     /\ focus' = w

\* The timer of focusSearch takes the focus from whoever has it by then.
Refocus(w) ==
  /\ ui[w].refocus > 0
  /\ ui' = MoveFocus([ui EXCEPT ![w].refocus = @ - 1], w)
  /\ focus' = w

\* A choice whose close link was clicked has faded out.  The callback of a second
\* click on it finds its data gone and throws before it changes anything.
FadeDone(w, o) ==
  LET s == [Unselect(ui[w], o) EXCEPT !.marked = {}]
  IN /\ o \in ui[w].fading
     /\ MayRefocus(w)
     /\ ui' = FocusSearch([ui EXCEPT ![w] = Close(s)], w)
     /\ focus' = w

-----------------------------------------------------------------------------
(* The mouse.                                                              *)

\* The page's handler of a mousedown in the container of w.
BlurOthers(all, w) ==
  [v \in Widgets |-> IF v # w /\ all[v].active THEN Blur(all[v]) ELSE all[v]]

\* On the container of w, beside its choices: the dropdown is to open.
MouseDownContainer(w) ==
  LET clicked == FocusSearch([ui EXCEPT ![w] = Open(ClearPlaceholder(@))], w)
  IN /\ MayOpen(w)
     /\ MayRefocus(w)
     /\ ui' = BlurOthers(clicked, w)
     /\ focus' = w

\* On a choice: only the page's handler, and the focus goes to the page.
MouseDownChoice(w) ==
  /\ ui[w].choices # <<>>
  /\ ui' = MoveFocus(BlurOthers(ui, w), NoWidget)
  /\ focus' = NoWidget

\* On the close link of a choice: it starts to fade out, nobody else is told.
ClickClose(w, o) ==
  /\ o \in ui[w].value
  /\ ui' = [ui EXCEPT ![w].fading = @ \cup {o}]
  /\ UNCHANGED focus

\* Anywhere else: the page's handler blurs every widget of an active dropdown.
MouseDownOutside ==
  LET blurred == [v \in Widgets |-> IF ui[v].dropActive THEN Blur(ui[v]) ELSE ui[v]]
  IN /\ ui' = MoveFocus(blurred, NoWidget)
     /\ focus' = NoWidget

\* In a dropdown, which hides the event from the page: the focus is lost.
MouseDownDropdown(w) ==
  /\ ui[w].opened
  /\ ui' = MoveFocus(ui, NoWidget)
  /\ focus' = NoWidget

Hover(w, o) ==
  /\ o \in ui[w].rows
  /\ ui' = [ui EXCEPT ![w] = HighlightUnderEvent(@, o)]
  /\ UNCHANGED focus

\* On a result: it is selected, if it can be.
MouseUpRow(w, o) ==
  LET s == IF o \in Enabled(ui[w])
           THEN SelectHighlighted(HighlightUnderEvent(ui[w], o)) ELSE ui[w]
  IN /\ o \in ui[w].rows
     /\ MayRefocus(w)
     /\ ui' = FocusSearch([ui EXCEPT ![w] = s], w)
     /\ focus' = w

Mouse(w) ==
  \/ MouseDownContainer(w)
  \/ MouseDownChoice(w)
  \/ MouseDownDropdown(w)
  \/ \E o \in Options[w] : ClickClose(w, o) \/ Hover(w, o) \/ MouseUpRow(w, o)

-----------------------------------------------------------------------------
(* The keyboard, in the search field that has the focus.  The handler that *)
(* remembers the field's text runs after the widget's own and before the   *)
(* browser changes the text.                                               *)

Remember(s) == IF s.keyval = Unset THEN [s EXCEPT !.keyval = s.text] ELSE s

Unmarked(s) == [s EXCEPT !.marked = {}]

\* What the Backspace key does to the text.
Erase(s) ==
  [s EXCEPT !.text = IF @.word # NoWord THEN [@ EXCEPT !.word = NoWord] ELSE Empty]

\* Bound: a field holds one word at a time.
Type(w, word) ==
  LET s == Remember(Open(Unmarked(ui[w])))
  IN /\ focus = w
     /\ ui[w].text.word = NoWord
     /\ MayOpen(w)
     /\ ui' = [ui EXCEPT ![w] = [s EXCEPT !.text.word = word]]
     /\ UNCHANGED focus

\* In an empty field: the first time the last choice is marked, then unselected.
Backspace(w) ==
  LET s == ui[w]
      closed == Close(s)
      last == s.choices[Len(s.choices)]
      first == CHOOSE o \in s.marked : TRUE
      pressed ==
        IF s.text # Empty THEN Erase(Remember(Unmarked(s)))
        ELSE IF s.marked # {} THEN Remember(Unselect(closed, first))
        ELSE IF s.choices # <<>> THEN Erase(Remember([closed EXCEPT !.marked = {last}]))
        ELSE Erase(Remember(closed))
  IN /\ focus = w
     /\ ui' = [ui EXCEPT ![w] = pressed]
     /\ UNCHANGED focus

Arrow(w, down) ==
  LET s == Unmarked(ui[w])
  IN /\ focus = w
     /\ MayOpen(w)
     /\ ui' = [ui EXCEPT ![w] = Remember(IF s.opened THEN MoveHighlight(s, down)
                                         ELSE Open(s))]
     /\ UNCHANGED focus

\* Enter, and Tab in an open dropdown.  Only a selection asks for the focus.
Enter(w) ==
  LET s == Unmarked(ui[w])
      selects == s.opened /\ Highlighted(s) # {}
      entered == IF s.opened THEN SelectHighlighted(s) ELSE Open(s)
  IN /\ focus = w
     /\ MayOpen(w)
     /\ selects => MayRefocus(w)
     /\ ui' = [ui EXCEPT ![w] = Remember([entered EXCEPT
                                  !.refocus = IF selects THEN @ + 1 ELSE @])]
     /\ UNCHANGED focus

\* Escape: cancel() of an open dropdown.
Escape(w) ==
  LET s == Unmarked(ui[w])
  IN /\ focus = w
     /\ s.opened => MayRefocus(w)
     /\ ui' = [ui EXCEPT ![w] = Remember([Close(s) EXCEPT
                                  !.refocus = IF s.opened THEN @ + 1 ELSE @])]
     /\ UNCHANGED focus

\* Tab in a closed widget: the next field, or the page, gets the focus.
TabAway(w, v) ==
  /\ focus = w /\ v # w
  /\ ~ui[w].opened
  /\ ui' = MoveFocus([ui EXCEPT ![w] = Remember(Unmarked(@))], v)
  /\ focus' = v

\* A key is released: the results are updated if the text is not what it was.
KeyUp(w) ==
  LET s == ui[w]
  IN /\ focus = w
     /\ s.keyval # Unset /\ s.text # s.keyval
     /\ ui' = [ui EXCEPT ![w] = UpdateResults([s EXCEPT !.keyval = Unset], w, FALSE)]
     /\ UNCHANGED focus

Keyboard(w) ==
  \/ \E word \in Typed[w] : Type(w, word)
  \/ \E down \in BOOLEAN : Arrow(w, down)
  \/ \E v \in Widgets \cup {NoWidget} : TabAway(w, v)
  \/ Backspace(w)
  \/ Enter(w)
  \/ Escape(w)
  \/ KeyUp(w)

-----------------------------------------------------------------------------
(* The window gets or loses the focus, or is resized.                      *)

FocusEnters(w) ==
  /\ focus = NoWidget
  /\ ui' = MoveFocus(ui, w)
  /\ focus' = w

FocusLeaves ==
  /\ focus # NoWidget
  /\ ui' = MoveFocus(ui, NoWidget)
  /\ focus' = NoWidget

\* An open dropdown is closed when the window is resized.
Resize ==
  /\ ui' = [w \in Widgets |-> Close(ui[w])]
  /\ UNCHANGED focus

Timer(w) ==
  \/ Opening(w)
  \/ Refocus(w)
  \/ \E o \in Options[w] : FadeDone(w, o)

S2Next ==
  \/ \E w \in Widgets : Timer(w) \/ Mouse(w) \/ Keyboard(w) \/ FocusEnters(w)
  \/ MouseDownOutside
  \/ FocusLeaves
  \/ Resize

S2Spec == S2Init /\ [][S2Next]_s2Vars

-----------------------------------------------------------------------------
S2TypeOK ==
  /\ ui \in [Widgets -> WidgetState]
  /\ focus \in Widgets \cup {NoWidget}
  /\ \A w \in Widgets : ui[w].openings <= MaxTimers /\ ui[w].refocus <= MaxTimers

\* The choices a widget shows are the selected options of its element, each once,
\* and the page was told of every change of them.  Code: onSelect, unselect from a
\* fade-out's callback or from the keyboard, and what may come between.
SelectionAgrees ==
  \A w \in Widgets :
    LET s == ui[w] IN
    /\ s.value = {s.choices[i] : i \in 1..Len(s.choices)}
    /\ \A i, k \in 1..Len(s.choices) : s.choices[i] = s.choices[k] => i = k
    /\ s.announced = s.value

\* What is selected cannot be selected again, and what is not can be, in results
\* that were shown before other options were removed: unselect() never makes a row
\* selectable again, it is closing the dropdown that hides the stale rows.
ResultsAgree ==
  \A w \in Widgets :
    /\ ui[w].selectable = ui[w].rows \ ui[w].value
    /\ ~ui[w].opened => ui[w].rows = {}

\* No two results are highlighted, so Enter selects the one the user sees.
OneHighlight == \A w \in Widgets : Cardinality(Highlighted(ui[w])) <= 1

\* A click on a result selects that result, though its index among all selectable
\* rows is used as one among the enabled rows.
ClickSelects ==
  [][\A w \in Widgets : \A o \in Enabled(ui[w]) :
       MouseUpRow(w, o) => ui'[w].value = ui[w].value \cup {o}]_s2Vars

\* A click beside the widgets closes every dropdown, also one whose container is
\* no longer active because its search field lost the focus.
OutsideClickCloses ==
  [][MouseDownOutside => \A w \in Widgets : ~ui'[w].opened]_s2Vars
=============================================================================
