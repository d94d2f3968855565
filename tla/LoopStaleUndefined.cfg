CONSTANTS
  Jobs <- LoopJobs
  Trees <- LoopTrees
  Root = "rcubic"
  TreeOf <- LoopTreeOf
  SubtreeOf <- LoopSubtreeOf
  NoTree = "none"
  ParentDeps <- LoopDeps
  Undefined = {"gap"}
  MustComplete <- LoopJobs
  WithResources = {}
  WaitSuccess = {"rcubic", "loops"}
  ArgCount <- LoopArgCount
  MaxGreenlets = 2
  CanFail = {}
  CanRaise = {}
  Requests = {}
SPECIFICATION Spec
INVARIANTS RunsInOrder
