CONSTANTS
  Jobs <- PairJobs
  Trees <- FlatTrees
  Root = "rcubic"
  TreeOf <- PairTreeOf
  SubtreeOf <- PairSubtreeOf
  NoTree = "none"
  ParentDeps <- PairDeps
  Undefined = {}
  MustComplete <- PairJobs
  WithResources = {"work"}
  WaitSuccess = {"rcubic"}
  ArgCount <- FlatArgCount
  MaxGreenlets = 2
  CanFail = {}
  CanRaise = {}
  Requests = {"abort"}
SPECIFICATION Spec
PROPERTIES NoStartAfterCancel
