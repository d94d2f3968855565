CONSTANTS
  Jobs <- SideJobs
  Trees <- LoopTrees
  Root = "rcubic"
  TreeOf <- SideTreeOf
  SubtreeOf <- SideSubtreeOf
  NoTree = "none"
  ParentDeps <- SideDeps
  Undefined = {}
  MustComplete <- SideJobs
  WithResources = {}
  WaitSuccess = {}
  ArgCount <- LoopArgCount
  MaxGreenlets = 2
  CanFail = {"side", "draw"}
  CanRaise = {}
  Requests = {}
  Groups = {"base", "app"}
  NoGroup = "nogroup"
  GroupOf <- SideGroupOf
  SessionMode = TRUE
SPECIFICATION RCubicFairSpec
PROPERTIES SessionEnds
CHECK_DEADLOCK FALSE
