CONSTANTS
  Jobs <- SiteJobs
  Trees <- FlatTrees
  Root = "rcubic"
  TreeOf <- SiteTreeOf
  SubtreeOf <- SiteSubtreeOf
  NoTree = "none"
  ParentDeps <- SiteDeps
  Undefined = {"hole", "check", "docs"}
  MustComplete <- SiteMustComplete
  WithResources = {}
  WaitSuccess = {"rcubic"}
  ArgCount <- FlatArgCount
  MaxGreenlets = 1
  CanFail = {"fetch", "install", "report"}
  CanRaise = {}
  Requests = {"abort"}
  Groups = {"base", "app", "manual"}
  NoGroup = "nogroup"
  GroupOf <- SiteGroupOf
  SessionMode = FALSE
SPECIFICATION RCubicFairSpec
INVARIANTS RCubicTypeOK   GroupRecordSound
PROPERTIES AbortEndsRun
