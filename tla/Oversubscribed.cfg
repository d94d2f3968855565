CONSTANTS
  Jobs = {"a", "b", "c"}
  Resources = {"net", "disk", "default"}
  Needs <- Crossed
  Avail <- LimitTwo
  MaxAttempts = 2
SPECIFICATION Spec
INVARIANTS LimitRespected
