SPECIFICATION FairSpec
CONSTANTS
  n1 = n1  n2 = n2  worker = worker  ok = ok  again = again  return = return
  None = None  Manager = Manager  Judge = Judge
  Nodes = {n1}
  StartNode = n1
  Results = {ok}
  Return = return
  Roles = {worker}
  Target <- OneTarget
  RoleOf <- OneRole
  NodeScoped = {}
  CompactOff = {}
  Fallback = {worker, Judge}
  Commands = {"reset", "block", "actorBlock", "resumeActor", "respawn", "restart"}
  MaxCommands = 2
  MaxInputs = 2
  MaxVisits = 2
PROPERTIES RunsSettle
CHECK_DEADLOCK FALSE
