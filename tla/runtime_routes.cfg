SPECIFICATION Spec
CONSTANTS
  n1 = n1  n2 = n2  worker = worker  ok = ok  again = again  return = return
  None = None  Manager = Manager  Judge = Judge
  Nodes = {n1, n2}
  StartNode = n1
  Results = {ok, again}
  Return = return
  Roles = {worker}
  Target <- LoopTarget
  RoleOf <- LoopRole
  NodeScoped = {worker}
  CompactOff = {}
  Fallback = {worker, Judge}
  Commands = {"block", "actorBlock", "resumeActor", "resumeJudge", "respawn", "setRoleModel", "reset", "restart"}
  MaxCommands = 2
  MaxInputs = 1
  MaxVisits = 3
INVARIANTS NodeScopedSessionsAreFresh HistoryIsAPath
PROPERTIES JudgeReplacementsRunOut
CHECK_DEADLOCK FALSE
