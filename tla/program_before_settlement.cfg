SPECIFICATION Spec
CONSTANTS
  None = None
  Nodes = {"outer", "inner", "role", "program", "last"}
  Workflows = {"main", "mid", "deep"}
  Returns = {"good", "poor", "done", "failed", "success"}
  Kind <- NestedKind
  WorkflowOf <- NestedWorkflowOf
  Callee <- NestedCallee
  StartNode <- NestedStartNode
  Target <- NestedTarget
  Root = "main"
  MaxVisits = 7
  MaxCommands = 1
PROPERTIES WorkWaitsForJudges
CHECK_DEADLOCK FALSE
