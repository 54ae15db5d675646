------------------------------ MODULE MCEditor ------------------------------
(* What is opened, typed and chosen in the runs of Editor. *)
EXTENDS Editor

IdsDef == {"a", "b", "m", "p", "ok", "done", "main", "manager", "judge", "wf"}
R(to) == [crit |-> "w", to |-> to]
Node(kind, who, text, routes) ==
  [kind |-> kind, who |-> who, text |-> text, common |-> None, config |-> None, routes |-> routes]
PlainJudge == [persona |-> "w", model |-> None, fallback |-> None, deny |-> None]
Worker == [persona |-> " w ", model |-> None, fallback |-> None, reuse |-> "continuable", compact |-> None, deny |-> None]
Flow(start, nodes) == [start |-> start, returns |-> {"done"}, nodes |-> nodes]
ToDone == <<"return", "done">>
Config(roles, flows) == [persona |-> None, roles |-> roles, judge |-> PlainJudge, flows |-> flows]
Manager(to) == Node("actor", "manager", "w", "ok" :> R(to))
TwoSteps(second) == "wf" :> Flow("m", "m" :> Manager(<<"node", "p">>) @@ "p" :> second)
FilesDef ==
  {[family |-> "roles", layout |-> None,
    config |-> Config("a" :> Worker, TwoSteps(Node("actor", "a", "w", "ok" :> R(ToDone))))],
   [family |-> "routes", config |-> Config("a" :> Worker, TwoSteps(Manager(ToDone))),
    layout |-> "wf" :> (<<"node", "m">> :> 3 @@ <<"return", "done">> :> 4 @@ <<"edge", "m", "ok">> :> 5
                        @@ <<"edge", "p", "ok">> :> 6 @@ <<"node", "b">> :> None)],
   [family |-> "programs", layout |-> Corrupt,
    config |-> Config(<<>>, TwoSteps(Node("program", "initialize", None,
                                          [PASS |-> R(ToDone), FAIL |-> R(<<"node", "m">>)])))],
   [family |-> "subflows",
    config |-> Config(<<>>, TwoSteps(Node("child", "a", None, "done" :> [crit |-> None, to |-> ToDone]))
                            @@ "a" :> Flow("m", "m" :> Manager(ToDone))),
    layout |-> "wf" :> (<<"edge", "p", "done">> :> 5) @@ "a" :> (<<"return", "done">> :> 4)]}
ModelsDef == {None, [provider |-> " w ", modelId |-> "w", effort |-> None], [provider |-> "w", modelId |-> "w", effort |-> " "]}
DenialsDef == {None, {}, {"w"}, {" w "}, {"judge_claim"}}

NoEdits == [roles |-> 0, routes |-> 0, programs |-> 0, subflows |-> 0]
MaxEditsDef == [roles |-> 2, routes |-> 2, programs |-> 2, subflows |-> 3]

WithPersona == [MinimalConfigOf EXCEPT !.persona = "w"]
Invalid == [MinimalConfigOf EXCEPT !.flows["wf"].start = "other"]
DisksDef ==
  {[d1 |-> [f |-> [config |-> MinimalConfigOf, layout |-> None],
            g |-> [config |-> Invalid, layout |-> None]],
    d2 |-> [f |-> [config |-> WithPersona,
                   layout |-> "wf" :> (<<"node", "main">> :> 5 @@ <<"node", "gone">> :> 6)]]]}
=============================================================================
