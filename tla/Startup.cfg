CONSTANTS
  Names <- ScriptNames
  Matches <- PatternMatches
  Groups = {"g1", "g2", "g3"}
  NoNumber <- NoNumeral
  NotInstalled = NotInstalled
  GroupOf <- ScriptGroup
  Root = "rcubic"
  Releases <- AllReleases
SPECIFICATION ParserSpec
INVARIANTS ParserTypeOK AcceptedIsSound GraphAsDeclared RefusedForCause AutoselectUpgrades
PROPERTIES StartDecides
CHECK_DEADLOCK FALSE
