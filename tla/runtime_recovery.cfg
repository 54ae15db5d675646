SPECIFICATION Spec
CONSTANTS
  n1 = n1  n2 = n2  worker = worker  ok = ok  again = again  return = return
  None = None  Manager = Manager  Judge = Judge
  Nodes = {n1, n2}
  StartNode = n1
  Results = {ok}
  Return = return
  Roles = {worker}
  Target <- ChainTarget
  RoleOf <- ChainRole
  NodeScoped = {}
  CompactOff = {}
  Fallback = {}
  Commands = {"block", "actorBlock", "resumeActor", "resumeJudge", "respawn"}
  MaxCommands = 2
  MaxInputs = 2
  MaxVisits = 2
INVARIANTS JudgeReadsClosedWork SendsToIdleSessions NeverAbandoned
PROPERTIES AcceptedDispatchIsPublished
CHECK_DEADLOCK FALSE
