CONSTANTS
  Widgets = {"date", "group"}
  NoWidget = "page"
  AllOptions = {"mon", "tue", "app"}
  Options <- FilterOptions
  Position <- OptionPosition
  Words = {"t"}
  NoWord = "none"
  Typed <- TypedInto
  Matching <- WordMatches
  Unset = Unset
  MaxTimers = 1
  Filters <- TwoFilters
  Runs = {"r1", "r2", "r3"}
  Keys <- FiledUnder
SPECIFICATION PageSpec
INVARIANTS S2TypeOK SelectionAgrees ResultsAgree OneHighlight
PROPERTIES ClickSelects OutsideClickCloses KeepsFilter
