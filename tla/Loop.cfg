CONSTANTS
  Jobs <- LoopJobs
  Trees <- LoopTrees
  Root = "rcubic"
  TreeOf <- LoopTreeOf
  SubtreeOf <- LoopSubtreeOf
  NoTree = "none"
  ParentDeps <- LoopDeps
  Undefined = {}
  MustComplete <- LoopJobs
  WithResources = {}
  WaitSuccess = {"rcubic", "loops"}
  ArgCount <- LoopArgCount
  MaxGreenlets = 2
  CanFail = {"draw", "play"}
  CanRaise = {}
  Requests = {"signal", "abort", "reschedule", "timeout"}
SPECIFICATION FairSpec
INVARIANTS OneExecution RunsInOrder RunningIsAlive AllIterationsRan
PROPERTIES RunSucceeds
