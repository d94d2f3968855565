CONSTANTS
  Jobs <- FlatJobs
  Trees <- FlatTrees
  Root = "rcubic"
  TreeOf <- FlatTreeOf
  SubtreeOf <- FlatSubtreeOf
  NoTree = "none"
  ParentDeps <- FlatDeps
  Undefined = {"hole"}
  MustComplete <- FlatMustComplete
  WithResources = {"check"}
  WaitSuccess = {"rcubic"}
  ArgCount <- FlatArgCount
  MaxGreenlets = 2
  CanFail = {"fetch", "install", "check"}
  CanRaise = {"rescue"}
  Requests = {"signal", "abort", "reschedule", "override", "timeout"}
SPECIFICATION Spec
INVARIANTS TypeOK OneGreenlet DependencyOrder RunsInOrder NoLostWakeup CompletionNoticed
PROPERTIES CancelStopsStarts
