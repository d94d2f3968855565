CONSTANTS
  Jobs = {"a", "b", "c", "d"}
  Resources = {"net", "disk", "default"}
  Needs <- Crossed
  Avail <- LimitTwo
  MaxAttempts = 2
SPECIFICATION FairSpec
INVARIANTS TypeOK LastLimitRespected NothingLeaks
PROPERTIES WaitingEnds
