----------------------------- MODULE DraftEdits -----------------------------
(***************************************************************************)
(* The edits of a draft in src/editor/draft.ts, as operators on a session  *)
(*   [config, layout, dirtyBusiness, dirtyLayout, past, future].           *)
(* Each returns [ok, session].  A flow is named by its id; flowId          *)
(* undefined is MainFlow.  The order of refusals does not matter: none of  *)
(* them changes the session.                                               *)
(***************************************************************************)
EXTENDS WorkflowConfig, Sequences

CONSTANT HistoryLimit   \* HISTORY_LIMIT
ASSUME HistoryLimitAssumption == HistoryLimit \in Nat \ {0}

Clear == "<null>"       \* a patch that clears; None leaves alone

Snapshot(s) == [config |-> s.config, layout |-> s.layout,
                dirtyBusiness |-> s.dirtyBusiness, dirtyLayout |-> s.dirtyLayout]
Newest(h) == IF Len(h) > HistoryLimit THEN Tail(h) ELSE h
PushHistory(s) == [s EXCEPT !.past = Newest(Append(@, Snapshot(s))), !.future = <<>>]

Refuse(s) == [ok |-> FALSE, session |-> s]
Done(s) == [ok |-> TRUE, session |-> s]
Edited(s, config) ==
  Done([PushHistory(s) EXCEPT !.config = config, !.dirtyBusiness = TRUE])
EditedWith(s, config, layout, moved) ==
  Done([PushHistory(s) EXCEPT !.config = config, !.layout = layout,
                              !.dirtyBusiness = TRUE, !.dirtyLayout = @ \/ moved])
\* An edit that would change nothing leaves no trace.
EditUnlessSame(s, config) == IF config = s.config THEN Done(s) ELSE Edited(s, config)

Last(h) == h[Len(h)]
Front(h) == SubSeq(h, 1, Len(h) - 1)
Restored(s, snap) == [s EXCEPT !.config = snap.config, !.layout = snap.layout,
                               !.dirtyBusiness = snap.dirtyBusiness, !.dirtyLayout = snap.dirtyLayout]
Undo(s) ==
  IF s.past = <<>> THEN Refuse(s)
  ELSE Done([Restored(s, Last(s.past)) EXCEPT !.past = Front(@), !.future = Append(@, Snapshot(s))])
Redo(s) ==
  IF s.future = <<>> THEN Refuse(s)
  ELSE Done([Restored(s, Last(s.future)) EXCEPT !.future = Front(@), !.past = Append(@, Snapshot(s))])

NewSession(config, layout) ==
  [config |-> config, layout |-> FillMissingPositions(config, layout),
   dirtyBusiness |-> FALSE, dirtyLayout |-> FALSE, past |-> <<>>, future |-> <<>>]
LoadDraft(file, layoutFile) ==
  IF Valid(file) /\ DirectSelfLoops(file) = {}
  THEN Done(NewSession(Normalized(file), ParseLayoutFile(layoutFile)))
  ELSE Refuse(None)

SetActorCommonPersona(s, value) ==
  IF value # None /\ Trim(value) = "" THEN Refuse(s)
  ELSE EditUnlessSame(s, [s.config EXCEPT !.persona = IF value = None THEN None ELSE Trim(value)])

NodeExists(s, f, n) == f \in DOMAIN s.config.flows /\ n \in DOMAIN s.config.flows[f].nodes
SetNodePosition(s, f, key, pos) ==
  IF \/ pos \notin Nat \/ f \notin DOMAIN s.config.flows
     \/ ~\/ key[1] = "node" /\ key[2] \in DOMAIN s.config.flows[f].nodes
         \/ key[1] = "return" /\ key[2] \in s.config.flows[f].returns
  THEN Refuse(s)
  ELSE IF key \in DOMAIN Table(s.layout, f) /\ s.layout[f][key] = pos THEN Done(s)
  ELSE Done([PushHistory(s) EXCEPT !.layout = SetPosition(@, f, key, pos), !.dirtyLayout = TRUE])

-----------------------------------------------------------------------------
(* Roles and the Judge. *)

RoleKeyOk(key) == key \in Ids \ Reserved
ModelInputOk(m) == m = None \/ (Trim(m.provider) # "" /\ Trim(m.modelId) # "" /\ (m.effort = None \/ Trim(m.effort) # ""))
ModelOf(m) ==
  IF m = None THEN None
  ELSE [provider |-> Trim(m.provider), modelId |-> Trim(m.modelId),
        effort |-> IF m.effort = None THEN None ELSE Trim(m.effort)]
DenyInputOk(deny) == deny = None \/ (deny # {} /\ \A t \in deny : Trim(t) # "")
DenyOf(deny) == IF deny = None THEN None ELSE {Trim(t) : t \in deny}

AddRole(s, key, r) ==
  IF \/ ~RoleKeyOk(key) \/ key \in DOMAIN s.config.roles \/ Trim(r.persona) = ""
     \/ ~ModelInputOk(r.model) \/ r.reuse \notin {None, "node", "continuable"}
     \/ r.compact \notin {None, TRUE, FALSE} \/ ~DenyInputOk(r.deny)
  THEN Refuse(s)
  ELSE Edited(s, [s.config EXCEPT !.roles = With(@, key,
         [persona |-> Trim(r.persona), model |-> ModelOf(r.model), fallback |-> None, reuse |-> r.reuse,
          compact |-> IF r.compact = FALSE THEN FALSE ELSE None, deny |-> DenyOf(r.deny)])])

SetRole(s, key, role) == EditUnlessSame(s, [s.config EXCEPT !.roles[key] = role])

SetRolePersona(s, key, persona) ==
  IF key \notin DOMAIN s.config.roles \/ Trim(persona) = "" THEN Refuse(s)
  ELSE SetRole(s, key, [s.config.roles[key] EXCEPT !.persona = Trim(persona)])
SetRoleModel(s, key, m) ==
  IF key \notin DOMAIN s.config.roles \/ ~ModelInputOk(m) THEN Refuse(s)
  ELSE SetRole(s, key, [s.config.roles[key] EXCEPT !.model = ModelOf(m)])
SetRoleFallbackModel(s, key, m) ==
  IF key \notin DOMAIN s.config.roles \/ ~ModelInputOk(m) THEN Refuse(s)
  ELSE SetRole(s, key, [s.config.roles[key] EXCEPT !.fallback = ModelOf(m)])
\* What is the default anyway is omitted; setting what is in force does nothing.
SetRoleCompactBeforeReuse(s, key, compact) ==
  IF key \notin DOMAIN s.config.roles \/ compact \notin BOOLEAN THEN Refuse(s)
  ELSE IF CompactOf(s.config.roles[key]) = compact THEN Done(s)
  ELSE SetRole(s, key, [s.config.roles[key] EXCEPT !.compact = IF compact THEN None ELSE FALSE])
SetRoleReuse(s, key, reuse) ==
  IF key \notin DOMAIN s.config.roles \/ reuse \notin {"node", "continuable"} THEN Refuse(s)
  ELSE IF ReuseOf(s.config.roles[key]) = reuse THEN Done(s)
  ELSE SetRole(s, key, [s.config.roles[key] EXCEPT !.reuse = IF reuse = "node" THEN None ELSE reuse])
SetRoleDeny(s, key, deny) ==
  IF key \notin DOMAIN s.config.roles \/ ~DenyInputOk(deny) THEN Refuse(s)
  ELSE SetRole(s, key, [s.config.roles[key] EXCEPT !.deny = DenyOf(deny)])

\* Nodes as update(f, n) makes them.
WithNodes(c, update(_, _)) ==
  [c EXCEPT !.flows = [f \in DOMAIN c.flows |->
     [c.flows[f] EXCEPT !.nodes = [n \in DOMAIN c.flows[f].nodes |-> update(f, n)]]]]

RenameRole(s, old, new) ==
  IF old \notin DOMAIN s.config.roles THEN Refuse(s)
  ELSE IF old = new THEN Done(s)
  ELSE IF ~RoleKeyOk(new) \/ new \in DOMAIN s.config.roles THEN Refuse(s)
  ELSE LET played(f, n) == LET node == s.config.flows[f].nodes[n] IN
             IF node.kind = "actor" /\ node.who = old THEN [node EXCEPT !.who = new] ELSE node
       IN Edited(s, WithNodes([s.config EXCEPT !.roles = Renamed(@, [x \in {old} |-> new])], played))
\* The references stay as they are.
DeleteRole(s, key) ==
  IF key \notin DOMAIN s.config.roles THEN Refuse(s)
  ELSE Edited(s, [s.config EXCEPT !.roles = Without(@, key)])

SetJudgePersona(s, persona) ==
  IF Trim(persona) = "" THEN Refuse(s) ELSE EditUnlessSame(s, [s.config EXCEPT !.judge.persona = Trim(persona)])
SetJudgeModel(s, m) ==
  IF ~ModelInputOk(m) THEN Refuse(s) ELSE EditUnlessSame(s, [s.config EXCEPT !.judge.model = ModelOf(m)])
SetJudgeFallbackModel(s, m) ==
  IF ~ModelInputOk(m) THEN Refuse(s) ELSE EditUnlessSame(s, [s.config EXCEPT !.judge.fallback = ModelOf(m)])
SetJudgeDeny(s, deny) ==
  IF ~DenyInputOk(deny) THEN Refuse(s) ELSE EditUnlessSame(s, [s.config EXCEPT !.judge.deny = DenyOf(deny)])

-----------------------------------------------------------------------------
(* Nodes, results and returns of a flow. *)

MinimalFlow ==
  [start |-> "main", returns |-> {"done"},
   nodes |-> [n \in {"main"} |->
     [kind |-> "actor", who |-> "manager", text |-> "minimal", common |-> None, config |-> None,
      routes |-> [r \in {"done"} |-> [crit |-> "minimal", to |-> <<"return", "done">>]]]]]

ActorRoleOk(s, role) == role = "manager" \/ (role \in Ids \ {"judge"} /\ role \in DOMAIN s.config.roles)
CheckerOk(checker) == checker \in {None, "judge.claim-correct"}

\* Just one of a node and a return of this flow, and not the node itself.
\* Mutant: any node id will do.
AnyTarget(flow, t, self) ==
  (t[1] = "node" /\ t[2] \in Ids \ {self}) \/ (t[1] = "return" /\ t[2] \in flow.returns)
TargetOk(flow, t, self) ==
  \/ t[1] = "node" /\ t[2] \in (Ids \ {self}) \cap DOMAIN flow.nodes
  \/ t[1] = "return" /\ t[2] \in Ids \cap flow.returns

IsKind(s, f, n, kind) == NodeExists(s, f, n) /\ s.config.flows[f].nodes[n].kind = kind
SetNode(c, f, n, node) == [c EXCEPT !.flows[f].nodes = With(@, n, node)]
\* A new node goes to the next cell of the grid.
AddNode(s, f, n, node) ==
  LET c == SetNode(s.config, f, n, node) IN
  EditedWith(s, c, SetPosition(s.layout, f, <<"node", n>>, GridPosition(Cardinality(DOMAIN c.flows[f].nodes) - 1)), TRUE)
CanAddNode(s, f, n) == f \in DOMAIN s.config.flows /\ n \in Ids \ DOMAIN s.config.flows[f].nodes

AddActorNode(s, f, n, x) ==
  IF \/ ~CanAddNode(s, f, n) \/ ~ActorRoleOk(s, x.role) \/ Trim(x.text) = "" \/ ~CheckerOk(x.checker)
     \/ (x.common # None /\ ~CriteriaOk(x.common)) \/ x.result \notin Ids
     \/ ~CriteriaOk(x.crit) \/ ~TargetOk(s.config.flows[f], x.to, n)
  THEN Refuse(s)
  ELSE AddNode(s, f, n, [kind |-> "actor", who |-> x.role, text |-> Trim(x.text),
                         common |-> IF x.common = None THEN None ELSE Trim(x.common), config |-> None,
                         routes |-> [r \in {x.result} |-> [crit |-> Trim(x.crit), to |-> x.to]]])

Patched(patch, current) ==
  IF patch = None THEN current ELSE IF patch = Clear THEN None ELSE Trim(patch)
\* The entry of the main flow stays the Manager's.
SetActorFields(s, f, n, p) ==
  IF \/ ~IsKind(s, f, n, "actor")
     \/ p.role # None /\ \/ ~ActorRoleOk(s, p.role)
                         \/ f = MainFlow /\ n = s.config.flows[f].start /\ p.role # "manager"
     \/ (p.text # None /\ Trim(p.text) = "") \/ ~CheckerOk(p.checker)
     \/ (p.common \notin {None, Clear} /\ ~CriteriaOk(p.common))
  THEN Refuse(s)
  ELSE LET node == s.config.flows[f].nodes[n] IN
       EditUnlessSame(s, SetNode(s.config, f, n,
         [node EXCEPT !.who = IF p.role = None THEN @ ELSE p.role,
                      !.text = Patched(p.text, @), !.common = Patched(p.common, @)]))

\* Targets that were from are to.
Redirected(node, from, to) ==
  [node EXCEPT !.routes = [r \in DOMAIN node.routes |->
     IF node.routes[r].to = from THEN [node.routes[r] EXCEPT !.to = to] ELSE node.routes[r]]]

\* Mutant: the results that lead to the node keep its old name.
RenameNodeOnly(s, f, old, new) ==
  IF ~NodeExists(s, f, old) THEN Refuse(s)
  ELSE IF old = new THEN Done(s)
  ELSE IF new \notin Ids \/ NodeExists(s, f, new) THEN Refuse(s)
  ELSE LET keys == {k \in DOMAIN Table(s.layout, f) : k = <<"node", old>> \/ (k[1] = "edge" /\ k[2] = old)} IN
       EditedWith(s,
         [s.config EXCEPT !.flows[f].start = IF @ = old THEN new ELSE @,
                          !.flows[f].nodes = Renamed(@, [x \in {old} |-> new])],
         IF keys = {} THEN s.layout ELSE [s.layout EXCEPT ![f] = Renamed(@, [k \in keys |-> [k EXCEPT ![2] = new]])],
         keys # {})
RenameNode(s, f, old, new) ==
  IF ~NodeExists(s, f, old) THEN Refuse(s)
  ELSE IF old = new THEN Done(s)
  ELSE IF new \notin Ids \/ NodeExists(s, f, new) THEN Refuse(s)
  ELSE LET flow == s.config.flows[f]
           nodes == Renamed(flow.nodes, [x \in {old} |-> new])
           keys == {k \in DOMAIN Table(s.layout, f) : k = <<"node", old>> \/ (k[1] = "edge" /\ k[2] = old)}
       IN EditedWith(s,
            [s.config EXCEPT !.flows[f] =
               [start |-> IF flow.start = old THEN new ELSE flow.start, returns |-> flow.returns,
                nodes |-> [n \in DOMAIN nodes |-> Redirected(nodes[n], <<"node", old>>, <<"node", new>>)]]],
            IF keys = {} THEN s.layout
            ELSE [s.layout EXCEPT ![f] = Renamed(@, [k \in keys |-> [k EXCEPT ![2] = new]])],
            keys # {})

DeleteNode(s, f, n) ==
  IF ~NodeExists(s, f, n) THEN Refuse(s)
  ELSE EditedWith(s, [s.config EXCEPT !.flows[f].nodes = Without(@, n)],
                  IF f \in DOMAIN s.layout THEN [s.layout EXCEPT ![f] = Without(@, <<"node", n>>)] ELSE s.layout, TRUE)

SetRoutes(s, f, n, routes) == [s.config EXCEPT !.flows[f].nodes[n].routes = routes]
RoutesOf(s, f, n) == s.config.flows[f].nodes[n].routes

AddNodeResult(s, f, n, name, crit, to) ==
  IF \/ ~IsKind(s, f, n, "actor") \/ name \notin Ids \/ name \in DOMAIN RoutesOf(s, f, n)
     \/ ~CriteriaOk(crit) \/ ~TargetOk(s.config.flows[f], to, n)
  THEN Refuse(s)
  ELSE Edited(s, SetRoutes(s, f, n, With(RoutesOf(s, f, n), name, [crit |-> Trim(crit), to |-> to])))

\* setNodeResult and setProgramResult, for the kind of node each edits.
PatchResult(s, f, n, kind, name, p) ==
  IF \/ ~IsKind(s, f, n, kind) \/ name \notin DOMAIN RoutesOf(s, f, n)
     \/ (p.crit # None /\ ~CriteriaOk(p.crit))
     \/ (p.to # None /\ ~TargetOk(s.config.flows[f], p.to, n))
  THEN Refuse(s)
  ELSE LET routes == RoutesOf(s, f, n) IN
       EditUnlessSame(s, SetRoutes(s, f, n,
         [routes EXCEPT ![name] = [crit |-> Patched(p.crit, @.crit), to |-> IF p.to = None THEN @.to ELSE p.to]]))
SetNodeResult(s, f, n, name, p) == PatchResult(s, f, n, "actor", name, p)

\* A bend of the edge goes with the name.
RenameNodeResult(s, f, n, old, new) ==
  IF ~IsKind(s, f, n, "actor") \/ old \notin DOMAIN RoutesOf(s, f, n) THEN Refuse(s)
  ELSE IF old = new THEN Done(s)
  ELSE IF new \notin Ids \/ new \in DOMAIN RoutesOf(s, f, n) THEN Refuse(s)
  ELSE LET keys == {<<"edge", n, old>>} \cap DOMAIN Table(s.layout, f) IN
       EditedWith(s, SetRoutes(s, f, n, Renamed(RoutesOf(s, f, n), [x \in {old} |-> new])),
                  IF keys = {} THEN s.layout
                  ELSE [s.layout EXCEPT ![f] = Renamed(@, [k \in keys |-> <<"edge", n, new>>])],
                  keys # {})
DeleteNodeResult(s, f, n, name) ==
  IF ~IsKind(s, f, n, "actor") \/ name \notin DOMAIN RoutesOf(s, f, n) THEN Refuse(s)
  ELSE Edited(s, SetRoutes(s, f, n, Without(RoutesOf(s, f, n), name)))

SetFlowStartNode(s, f, n) ==
  IF ~NodeExists(s, f, n) \/ (f = MainFlow /\ ~(IsKind(s, f, n, "actor") /\ s.config.flows[f].nodes[n].who = "manager"))
  THEN Refuse(s)
  ELSE EditUnlessSame(s, [s.config EXCEPT !.flows[f].start = n])

AddFlowReturn(s, f, name) ==
  IF f \notin DOMAIN s.config.flows \/ name \notin Ids \/ name \in s.config.flows[f].returns THEN Refuse(s)
  ELSE Edited(s, [s.config EXCEPT !.flows[f].returns = @ \cup {name}])

\* The targets of the flow, its end's position, and the keys and edges of the
\* nodes that call it.
RenameFlowReturn(s, f, old, new) ==
  IF f \notin DOMAIN s.config.flows \/ old \notin s.config.flows[f].returns THEN Refuse(s)
  ELSE IF old = new THEN Done(s)
  ELSE IF new \notin Ids \/ new \in s.config.flows[f].returns THEN Refuse(s)
  ELSE LET maps(g, n) == /\ IsKind(s, g, n, "child") /\ s.config.flows[g].nodes[n].who = f
                         /\ old \in DOMAIN RoutesOf(s, g, n)
           node(g, n) ==
             LET own == IF g = f THEN Redirected(s.config.flows[g].nodes[n], <<"return", old>>, <<"return", new>>)
                        ELSE s.config.flows[g].nodes[n]
             IN IF maps(g, n) THEN [own EXCEPT !.routes = Renamed(@, [x \in {old} |-> new])] ELSE own
           ends(g) == {k \in DOMAIN s.layout[g] : g = f /\ k = <<"return", old>>}
           edges(g) == {k \in DOMAIN s.layout[g] : k[1] = "edge" /\ k[3] = old /\ maps(g, k[2])}
       IN EditedWith(s,
            WithNodes([s.config EXCEPT !.flows[f].returns = (@ \ {old}) \cup {new}], node),
            [g \in DOMAIN s.layout |->
               Renamed(s.layout[g], [k \in ends(g) \cup edges(g) |-> [k EXCEPT ![Len(k)] = new]])],
            \E g \in DOMAIN s.layout : edges(g) # {})

DeleteFlowReturn(s, f, name) ==
  IF f \notin DOMAIN s.config.flows \/ name \notin s.config.flows[f].returns THEN Refuse(s)
  ELSE EditedWith(s, [s.config EXCEPT !.flows[f].returns = @ \ {name}],
                  IF f \in DOMAIN s.layout THEN [s.layout EXCEPT ![f] = Without(@, <<"return", name>>)] ELSE s.layout,
                  FALSE)

-----------------------------------------------------------------------------
(* Programs. *)

\* The parameters a Program knows, of the type it expects.
ParamOk(program, key, value) ==
  /\ key \in DOMAIN ProgramParameters[program]
  /\ value[1] = ProgramParameters[program][key]
  /\ value[1] = "string" => Trim(value[2]) # ""
ConfigTooLarge(config) == \E k \in DOMAIN config : config[k] = <<"string", "overlong">>

AddProgramNode(s, f, n, x) ==
  IF \/ ~CanAddNode(s, f, n) \/ x.program \notin DOMAIN ProgramParameters
     \/ (x.text # None /\ Trim(x.text) = "")
     \/ x.config # None /\ \/ \E k \in DOMAIN x.config : ~ParamOk(x.program, k, x.config[k])
                           \/ ConfigTooLarge(x.config)
     \/ \E r \in ProgramResults : ~CriteriaOk(x.routes[r].crit) \/ ~TargetOk(s.config.flows[f], x.routes[r].to, n)
  THEN Refuse(s)
  ELSE AddNode(s, f, n, [kind |-> "program", who |-> x.program,
                         text |-> IF x.text = None THEN None ELSE Trim(x.text), common |-> None, config |-> x.config,
                         routes |-> [r \in ProgramResults |-> [x.routes[r] EXCEPT !.crit = Trim(@)]]])

\* Another Program keeps the parameters of the one before.
SetProgramFields(s, f, n, p) ==
  IF \/ ~IsKind(s, f, n, "program") \/ p.program \notin {None} \cup DOMAIN ProgramParameters
     \/ (p.text \notin {None, Clear} /\ Trim(p.text) = "")
  THEN Refuse(s)
  ELSE LET node == s.config.flows[f].nodes[n] IN
       EditUnlessSame(s, SetNode(s.config, f, n,
         [node EXCEPT !.who = IF p.program = None THEN @ ELSE p.program, !.text = Patched(p.text, @)]))

\* The parameter goes when the value is None, and config with the last one.
SetProgramParam(s, f, n, key, value) ==
  IF ~IsKind(s, f, n, "program") \/ key = "" THEN Refuse(s)
  ELSE LET node == s.config.flows[f].nodes[n]
           config == IF node.config = None THEN <<>> ELSE node.config
           next == IF value = None THEN Without(config, key) ELSE With(config, key, value)
       IN IF value = None
          THEN IF key \notin DOMAIN config THEN Refuse(s)
               ELSE Edited(s, SetNode(s.config, f, n,
                      [node EXCEPT !.config = IF DOMAIN next = {} THEN None ELSE next]))
          ELSE IF ~ParamOk(node.who, key, value) THEN Refuse(s)
          ELSE IF next = config THEN Done(s)
          ELSE IF ConfigTooLarge(next) THEN Refuse(s)
          ELSE Edited(s, SetNode(s.config, f, n, [node EXCEPT !.config = next]))

SetProgramResult(s, f, n, name, p) ==
  IF name \notin ProgramResults THEN Refuse(s) ELSE PatchResult(s, f, n, "program", name, p)

-----------------------------------------------------------------------------
(* Child workflows and the nodes that call them. *)

ChildReaches(c, from, target) == target \in CallsLeadTo(c, {from})
CalleeOk(s, caller, callee) ==
  /\ callee \in Ids /\ callee \in DOMAIN s.config.flows \ {MainFlow}
  /\ callee # caller /\ ~ChildReaches(s.config, callee, caller)

AddSubflow(s, f) ==
  IF f \notin Ids \/ f \in DOMAIN s.config.flows THEN Refuse(s)
  ELSE EditedWith(s, [s.config EXCEPT !.flows = With(@, f, MinimalFlow)],
                  SetPosition(s.layout, f, <<"node", "main">>, GridPosition(0)), TRUE)

RenameSubflow(s, old, new) ==
  IF old \notin DOMAIN s.config.flows \ {MainFlow} THEN Refuse(s)
  ELSE IF old = new THEN Done(s)
  ELSE IF new \notin Ids \/ new \in DOMAIN s.config.flows THEN Refuse(s)
  ELSE LET flows == Renamed(s.config.flows, [x \in {old} |-> new])
           called(g, n) == LET node == flows[g].nodes[n] IN
             IF node.kind = "child" /\ node.who = old THEN [node EXCEPT !.who = new] ELSE node
       IN EditedWith(s, WithNodes([s.config EXCEPT !.flows = flows], called),
                     IF old \in DOMAIN s.layout THEN Renamed(s.layout, [x \in {old} |-> new]) ELSE s.layout,
                     old \in DOMAIN s.layout)

DeleteSubflow(s, f) ==
  IF f \notin DOMAIN s.config.flows \ {MainFlow} THEN Refuse(s)
  ELSE EditedWith(s, [s.config EXCEPT !.flows = Without(@, f)], Without(s.layout, f), f \in DOMAIN s.layout)

\* A target for each return of the callee, all at once.
AddChildNode(s, f, n, callee, targets) ==
  IF \/ ~CanAddNode(s, f, n) \/ ~CalleeOk(s, f, callee)
     \/ DOMAIN targets # s.config.flows[callee].returns
     \/ \E r \in DOMAIN targets : ~TargetOk(s.config.flows[f], targets[r], n)
  THEN Refuse(s)
  ELSE AddNode(s, f, n, [kind |-> "child", who |-> callee, text |-> None, common |-> None, config |-> None,
                         routes |-> [r \in DOMAIN targets |-> [crit |-> None, to |-> targets[r]]]])

SetChildWorkflowId(s, f, n, callee) ==
  IF ~IsKind(s, f, n, "child") \/ ~CalleeOk(s, f, callee) THEN Refuse(s)
  ELSE EditUnlessSame(s, [s.config EXCEPT !.flows[f].nodes[n].who = callee])

SetChildReturnTarget(s, f, n, name, to) ==
  IF ~IsKind(s, f, n, "child") \/ name \notin Ids THEN Refuse(s)
  ELSE LET callee == s.config.flows[f].nodes[n].who
           routes == RoutesOf(s, f, n)
       IN IF callee \notin DOMAIN s.config.flows \ {MainFlow} THEN Refuse(s)
          ELSE IF to = None
          THEN IF name \notin DOMAIN routes THEN Refuse(s) ELSE Edited(s, SetRoutes(s, f, n, Without(routes, name)))
          ELSE IF name \notin s.config.flows[callee].returns \/ ~TargetOk(s.config.flows[f], to, n) THEN Refuse(s)
          ELSE EditUnlessSame(s, SetRoutes(s, f, n, With(routes, name, [crit |-> None, to |-> to])))
=============================================================================
