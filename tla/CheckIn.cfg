CONSTANTS
  Processes = {"p1", "p2"}
  Users = {"ann", "bob"}
  Nobody = "nobody"
  Names = {"deploy", "test"}
  Plans <- SmallPlans
  Ports = {8002, 8003}
  LPort = 8002
SPECIFICATION FairSpec
INVARIANTS CheckInTypeOK SuccessIsEarned
PROPERTIES RequestEnds
