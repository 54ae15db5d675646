SPECIFICATION Spec
CONSTANTS
  n1 = n1  n2 = n2  worker = worker  ok = ok  again = again  return = return
  None = None  Manager = Manager  Judge = Judge
  Nodes = {n1, n2}
  StartNode = n1
  Results = {ok}
  Return = return
  Roles = {worker}
  Target <- ChainTarget
  RoleOf <- ChainRole
  NodeScoped = {}
  CompactOff = {}
  Fallback = {worker, Judge}
  Commands = {"block", "actorBlock", "resumeActor", "resumeJudge", "respawn", "setRoleModel", "reset", "restart"}
  MaxCommands = 1
  MaxInputs = 2
  MaxVisits = 2
INVARIANTS TypeOK StoreAccepts ExitsAreJudged OneHandoffAtATime
PROPERTIES HistoryIsFinal ImplementsSerialWorkflow
CHECK_DEADLOCK FALSE
