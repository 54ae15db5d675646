SPECIFICATION Spec
CONSTANTS
  None = None
  Nodes = {"outer", "inner", "role", "program", "last"}
  Workflows = {"main", "mid", "deep"}
  Returns = {"good", "poor", "done", "failed", "success"}
  Kind <- NestedKind
  WorkflowOf <- NestedWorkflowOf
  Callee <- NestedCallee
  StartNode <- NestedStartNode
  Target <- NestedTarget
  Root = "main"
  MaxVisits = 9
  MaxCommands = 4
INVARIANTS CallsAreNested HandoffsAreTraced ProgramIsAwaited
PROPERTIES RolesWaitForJudges
CHECK_DEADLOCK FALSE
