CONSTANTS
  Jobs <- AppJobs
  Trees <- FlatTrees
  Root = "rcubic"
  TreeOf <- AppTreeOf
  SubtreeOf <- AppSubtreeOf
  NoTree = "none"
  ParentDeps <- AppDeps
  Undefined = {"hole", "check"}
  MustComplete <- AppMustComplete
  WithResources = {}
  WaitSuccess = {}
  ArgCount <- FlatArgCount
  MaxGreenlets = 1
  CanFail = {"fetch", "install", "report"}
  CanRaise = {}
  Requests = {"abort", "signal"}
  Groups = {"base", "app"}
  NoGroup = "nogroup"
  GroupOf <- AppGroupOf
  SessionMode = TRUE
SPECIFICATION RCubicFairSpec
INVARIANTS LeavesAtMostOne
PROPERTIES KeepsContract SessionEnds
