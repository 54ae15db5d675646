---------------------------- MODULE MCCallStack ----------------------------
(* A Run of two nested Child workflows for the run of CallStack.           *)
(*   main:  outer -> last                                                  *)
(*   outer: inner -> program          inner: role                          *)
EXTENDS CallStack

NestedKind == [n \in Nodes |-> CASE n \in {"outer", "inner"} -> "child"
                                 [] n = "program" -> "program" [] OTHER -> "task"]
NestedWorkflowOf == [n \in Nodes |-> CASE n \in {"outer", "last"} -> "main"
                                       [] n = "role" -> "deep" [] OTHER -> "mid"]
NestedCallee == [n \in {"outer", "inner"} |-> IF n = "outer" THEN "mid" ELSE "deep"]
NestedStartNode == [w \in Workflows |-> CASE w = "main" -> "outer" [] w = "mid" -> "inner"
                                          [] OTHER -> "role"]
\* The role's "bad" leaves both Children at once, under another name at each.
NestedTarget == [n \in Nodes |->
  CASE n = "role"    -> [r \in {"ok", "bad"} |-> IF r = "ok" THEN "good" ELSE "poor"]
    [] n = "inner"   -> [r \in {"good", "poor"} |-> IF r = "good" THEN "program" ELSE "failed"]
    [] n = "program" -> [r \in {"PASS", "FAIL"} |-> IF r = "PASS" THEN "done" ELSE "failed"]
    [] n = "outer"   -> [r \in {"done", "failed"} |-> IF r = "done" THEN "success" ELSE "last"]
    [] n = "last"    -> [r \in {"ok", "again"} |-> IF r = "ok" THEN "success" ELSE "outer"]]
=============================================================================
