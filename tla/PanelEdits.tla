----------------------------- MODULE PanelEdits -----------------------------
(***************************************************************************)
(* The edits of the editor's page, src/web-client/src/edits.js, as         *)
(* operators on the part of the page's state they change:                  *)
(*   [draft, positions, personaInput, dirtyBusiness, dirtyLayout,          *)
(*    past, future].                                                       *)
(* The page keeps a second implementation of src/editor/draft.ts; this     *)
(* module translates it from its own source.  Each edit returns            *)
(* [ok, state].                                                            *)
(***************************************************************************)
EXTENDS WorkflowConfig, Sequences

CONSTANT PanelHistoryLimit   \* HISTORY_LIMIT of the page
ASSUME PanelHistoryLimitAssumption == PanelHistoryLimit \in Nat \ {0}

Null == "<null>"             \* a patch that clears

SnapshotOf(st) == [draft |-> st.draft, positions |-> st.positions, personaInput |-> st.personaInput,
                   dirtyBusiness |-> st.dirtyBusiness, dirtyLayout |-> st.dirtyLayout]
WithPast(st) ==
  LET past == Append(st.past, SnapshotOf(st)) IN
  [st EXCEPT !.future = <<>>,
             !.past = SubSeq(past, IF Len(past) > PanelHistoryLimit THEN Len(past) - PanelHistoryLimit + 1 ELSE 1, Len(past))]

Rejected(st) == [ok |-> FALSE, state |-> st]
NoOp(st) == [ok |-> TRUE, state |-> st]
Applied(st, draft) == [ok |-> TRUE, state |-> [WithPast(st) EXCEPT !.draft = draft, !.dirtyBusiness = TRUE]]
AppliedMoving(st, draft, positions, dirtyLayout) ==
  [ok |-> TRUE, state |-> [WithPast(st) EXCEPT !.draft = draft, !.positions = positions,
                                               !.dirtyBusiness = TRUE, !.dirtyLayout = dirtyLayout]]
IsDirty(st) == st.dirtyBusiness \/ st.dirtyLayout

Back(st, snap) == [st EXCEPT !.draft = snap.draft, !.positions = snap.positions, !.personaInput = snap.personaInput,
                             !.dirtyBusiness = snap.dirtyBusiness, !.dirtyLayout = snap.dirtyLayout]
UndoEdit(st) ==
  IF Len(st.past) = 0 \/ st.draft = None THEN Rejected(st)
  ELSE NoOp([Back(st, st.past[Len(st.past)])
             EXCEPT !.past = SubSeq(@, 1, Len(@) - 1), !.future = Append(@, SnapshotOf(st))])
RedoEdit(st) ==
  IF Len(st.future) = 0 \/ st.draft = None THEN Rejected(st)
  ELSE NoOp([Back(st, st.future[Len(st.future)])
             EXCEPT !.future = SubSeq(@, 1, Len(@) - 1), !.past = Append(@, SnapshotOf(st))])

\* What is set is what the text field holds.
ApplyPersonaEdit(st, clear) ==
  LET next == IF clear THEN None ELSE Trim(st.personaInput) IN
  IF next = "" \/ st.draft = None THEN Rejected(st)
  ELSE IF next = st.draft.persona THEN NoOp(st)
  ELSE [ok |-> TRUE, state |-> [Applied(st, [st.draft EXCEPT !.persona = next]).state
                                EXCEPT !.personaInput = IF next = None THEN "" ELSE next]]

\* Whatever the canvas lets be dragged.
MoveNodeEdit(st, f, key, pos) ==
  IF pos \notin Nat \/ st.draft = None THEN Rejected(st)
  ELSE LET table == IF f \in DOMAIN st.positions THEN st.positions[f] ELSE <<>> IN
       IF key \in DOMAIN table /\ table[key] = pos THEN NoOp(st)
       ELSE [ok |-> TRUE, state |-> [WithPast(st) EXCEPT
               !.positions = With(@, f, With(table, key, pos)), !.dirtyLayout = TRUE]]

-----------------------------------------------------------------------------
(* Roles and the Judge. *)

RoleKeyError(key) == key \notin Ids \/ key \in {"manager", "judge"}
ModelError(m) ==
  m # None /\ (Trim(m.provider) = "" \/ Trim(m.modelId) = "" \/ (m.effort # None /\ Trim(m.effort) = ""))
ModelValue(m) ==
  IF m = None THEN None
  ELSE [m EXCEPT !.provider = Trim(@), !.modelId = Trim(@), !.effort = IF @ = None THEN None ELSE Trim(@)]
DenyError(deny) == deny # None /\ (deny = {} \/ \E t \in deny : Trim(t) = "")
DenyValue(deny) == IF deny = None THEN None ELSE {Trim(t) : t \in deny}
HasRole(st, key) == key \in DOMAIN st.draft.roles

AddRoleEdit(st, key, r) ==
  IF \/ RoleKeyError(key) \/ HasRole(st, key) \/ Trim(r.persona) = "" \/ ModelError(r.model)
     \/ (r.reuse # None /\ r.reuse \notin {"node", "continuable"}) \/ r.compact \notin {None} \cup BOOLEAN
     \/ DenyError(r.deny)
  THEN Rejected(st)
  ELSE Applied(st, [st.draft EXCEPT !.roles =
         (key :> [persona |-> Trim(r.persona), model |-> ModelValue(r.model), fallback |-> None, reuse |-> r.reuse,
                  compact |-> IF r.compact = FALSE THEN FALSE ELSE None, deny |-> DenyValue(r.deny)]) @@ @])

RoleIs(st, key, role) ==
  IF role = st.draft.roles[key] THEN NoOp(st) ELSE Applied(st, [st.draft EXCEPT !.roles[key] = role])
SetRolePersonaEdit(st, key, persona) ==
  IF ~HasRole(st, key) \/ Trim(persona) = "" THEN Rejected(st)
  ELSE RoleIs(st, key, [st.draft.roles[key] EXCEPT !.persona = Trim(persona)])
SetRoleModelEdit(st, key, m) ==
  IF ~HasRole(st, key) \/ ModelError(m) THEN Rejected(st)
  ELSE RoleIs(st, key, [st.draft.roles[key] EXCEPT !.model = ModelValue(m)])
SetRoleFallbackModelEdit(st, key, m) ==
  IF ~HasRole(st, key) \/ ModelError(m) THEN Rejected(st)
  ELSE RoleIs(st, key, [st.draft.roles[key] EXCEPT !.fallback = ModelValue(m)])
SetRoleCompactBeforeReuseEdit(st, key, compact) ==
  IF ~HasRole(st, key) \/ compact \notin BOOLEAN THEN Rejected(st)
  ELSE LET role == st.draft.roles[key] IN
       IF compact = (role.compact # FALSE) THEN NoOp(st)
       ELSE RoleIs(st, key, [role EXCEPT !.compact = IF compact THEN None ELSE FALSE])
SetRoleReuseEdit(st, key, reuse) ==
  IF ~HasRole(st, key) \/ reuse \notin {"node", "continuable"} THEN Rejected(st)
  ELSE LET role == st.draft.roles[key] IN
       IF reuse = IF role.reuse = None THEN "node" ELSE role.reuse THEN NoOp(st)
       ELSE RoleIs(st, key, [role EXCEPT !.reuse = IF reuse = "node" THEN None ELSE reuse])
SetRoleDenyEdit(st, key, deny) ==
  IF ~HasRole(st, key) \/ DenyError(deny) THEN Rejected(st)
  ELSE RoleIs(st, key, [st.draft.roles[key] EXCEPT !.deny = DenyValue(deny)])

\* Every node of every flow.
EachNode(draft, change(_)) ==
  [draft EXCEPT !.flows = [f \in DOMAIN draft.flows |->
     [draft.flows[f] EXCEPT !.nodes = [n \in DOMAIN draft.flows[f].nodes |-> change(draft.flows[f].nodes[n])]]]]

RenameRoleEdit(st, old, new) ==
  IF ~HasRole(st, old) THEN Rejected(st)
  ELSE IF old = new THEN NoOp(st)
  ELSE IF RoleKeyError(new) \/ HasRole(st, new) THEN Rejected(st)
  ELSE LET roles == (new :> st.draft.roles[old]) @@ Without(st.draft.roles, old)
           change(node) == IF node.kind = "actor" /\ node.who = old THEN [node EXCEPT !.who = new] ELSE node
       IN Applied(st, EachNode([st.draft EXCEPT !.roles = roles], change))
DeleteRoleEdit(st, key) ==
  IF ~HasRole(st, key) THEN Rejected(st) ELSE Applied(st, [st.draft EXCEPT !.roles = Without(@, key)])

JudgeIs(st, judge) == IF judge = st.draft.judge THEN NoOp(st) ELSE Applied(st, [st.draft EXCEPT !.judge = judge])
SetJudgePersonaEdit(st, persona) ==
  IF Trim(persona) = "" THEN Rejected(st) ELSE JudgeIs(st, [st.draft.judge EXCEPT !.persona = Trim(persona)])
SetJudgeModelEdit(st, m) ==
  IF ModelError(m) THEN Rejected(st) ELSE JudgeIs(st, [st.draft.judge EXCEPT !.model = ModelValue(m)])
SetJudgeFallbackModelEdit(st, m) ==
  IF ModelError(m) THEN Rejected(st) ELSE JudgeIs(st, [st.draft.judge EXCEPT !.fallback = ModelValue(m)])
SetJudgeDenyEdit(st, deny) ==
  IF DenyError(deny) THEN Rejected(st) ELSE JudgeIs(st, [st.draft.judge EXCEPT !.deny = DenyValue(deny)])

-----------------------------------------------------------------------------
(* Nodes, results and returns of a flow. *)

MinimalFlowDefOf ==
  [start |-> "main", returns |-> {"done"},
   nodes |-> [n \in {"main"} |->
                [kind |-> "actor", who |-> "manager", text |-> "minimal", common |-> None, config |-> None,
                 routes |-> "done" :> [crit |-> "minimal", to |-> <<"return", "done">>]]]]
MinimalConfigOf ==
  [persona |-> None, roles |-> <<>>,
   judge |-> [persona |-> "minimal", model |-> None, fallback |-> None, deny |-> None],
   flows |-> [f \in {MainFlow} |-> MinimalFlowDefOf]]

HasFlow(st, f) == f \in DOMAIN st.draft.flows
HasNode(st, f, n) == HasFlow(st, f) /\ n \in DOMAIN st.draft.flows[f].nodes
NodeAt(st, f, n) == st.draft.flows[f].nodes[n]
KindIs(st, f, n, kind) == HasNode(st, f, n) /\ NodeAt(st, f, n).kind = kind
HasRoute(st, f, n, name) == name \in DOMAIN NodeAt(st, f, n).routes

ActorRoleError(st, role) == role # "manager" /\ (role = "judge" \/ role \notin Ids \/ ~HasRole(st, role))
CheckerError(checker) == checker # None /\ checker # "judge.claim-correct"
CriteriaError(crit) == Trim(crit) = "" \/ Trim(crit) = "overlong"
FlowTargetError(st, f, to, self) ==
  LET flow == st.draft.flows[f] IN
  CASE to[1] = "node" -> to[2] \notin Ids \/ to[2] = self \/ to[2] \notin DOMAIN flow.nodes
    [] to[1] = "return" -> to[2] \notin Ids \/ to[2] \notin flow.returns
    [] OTHER -> TRUE

NodeIs(st, f, n, node) ==
  IF node = NodeAt(st, f, n) THEN NoOp(st) ELSE Applied(st, [st.draft EXCEPT !.flows[f].nodes[n] = node])
\* positions.children[flowId] ??= {}
PositionsOf(positions, f) == IF f \in DOMAIN positions THEN positions[f] ELSE <<>>
NewNode(st, f, n, node) ==
  LET draft == [st.draft EXCEPT !.flows[f].nodes = (n :> node) @@ @] IN
  AppliedMoving(st, draft,
    (f :> ((<<"node", n>> :> Cardinality(DOMAIN draft.flows[f].nodes) - 1) @@ PositionsOf(st.positions, f))) @@ st.positions,
    TRUE)

AddActorNodeEdit(st, f, n, x) ==
  IF \/ ~HasFlow(st, f) \/ n \notin Ids \/ HasNode(st, f, n) \/ ActorRoleError(st, x.role) \/ Trim(x.text) = ""
     \/ CheckerError(x.checker) \/ (x.common # None /\ CriteriaError(x.common)) \/ x.result \notin Ids
     \/ CriteriaError(x.crit) \/ FlowTargetError(st, f, x.to, n)
  THEN Rejected(st)
  ELSE NewNode(st, f, n,
         [kind |-> "actor", who |-> x.role, text |-> Trim(x.text),
          common |-> IF x.common = None THEN None ELSE Trim(x.common), config |-> None,
          routes |-> x.result :> [crit |-> Trim(x.crit), to |-> x.to]])

SetActorFieldsEdit(st, f, n, p) ==
  IF \/ ~KindIs(st, f, n, "actor")
     \/ (p.role # None /\ ActorRoleError(st, p.role))
     \/ (p.role \notin {None, "manager"} /\ f = MainFlow /\ n = st.draft.flows[f].start)
     \/ (p.text # None /\ Trim(p.text) = "") \/ CheckerError(p.checker)
     \/ (p.common # None /\ p.common # Null /\ CriteriaError(p.common))
  THEN Rejected(st)
  ELSE NodeIs(st, f, n, [NodeAt(st, f, n) EXCEPT
         !.who = IF p.role # None THEN p.role ELSE @,
         !.text = IF p.text # None THEN Trim(p.text) ELSE @,
         !.common = CASE p.common = None -> @ [] p.common = Null -> None [] OTHER -> Trim(p.common)])

\* Every target of a node that was from.
Turned(node, from, to) ==
  [node EXCEPT !.routes = [r \in DOMAIN @ |-> IF @[r].to = from THEN [@[r] EXCEPT !.to = to] ELSE @[r]]]
\* table[to] = table[from], then delete table[from], when there is one.
MoveKey(table, from, to) ==
  IF from \in DOMAIN table THEN (to :> table[from]) @@ Without(table, from) ELSE table

RenameNodeEdit(st, f, old, new) ==
  IF ~HasNode(st, f, old) THEN Rejected(st)
  ELSE IF old = new THEN NoOp(st)
  ELSE IF new \notin Ids \/ HasNode(st, f, new) THEN Rejected(st)
  ELSE LET flow == st.draft.flows[f]
           nodes == MoveKey(flow.nodes, old, new)
           table == MoveKey(PositionsOf(st.positions, f), <<"node", old>>, <<"node", new>>)
           edges == {k \in DOMAIN table : k[1] = "edge" /\ k[2] = old}
           kept == [k \in DOMAIN table \ edges |-> table[k]]
           turned == [k \in {<<"edge", new, e[3]>> : e \in edges} |-> table[<<"edge", old, k[3]>>]]
       IN AppliedMoving(st,
            [st.draft EXCEPT !.flows[f].start = IF @ = old THEN new ELSE @,
                             !.flows[f].nodes = [n \in DOMAIN nodes |-> Turned(nodes[n], <<"node", old>>, <<"node", new>>)]],
            IF f \in DOMAIN st.positions THEN [st.positions EXCEPT ![f] = turned @@ kept] ELSE st.positions,
            st.dirtyLayout \/ edges # {} \/ <<"node", new>> \in DOMAIN table)

DeleteNodeEdit(st, f, n) ==
  IF ~HasNode(st, f, n) THEN Rejected(st)
  ELSE AppliedMoving(st, [st.draft EXCEPT !.flows[f].nodes = Without(@, n)],
         [g \in DOMAIN st.positions |-> IF g = f THEN Without(st.positions[g], <<"node", n>>) ELSE st.positions[g]], TRUE)

RoutesAre(st, f, n, routes) == Applied(st, [st.draft EXCEPT !.flows[f].nodes[n].routes = routes])

AddNodeResultEdit(st, f, n, name, crit, to) ==
  IF \/ ~KindIs(st, f, n, "actor") \/ name \notin Ids \/ HasRoute(st, f, n, name)
     \/ CriteriaError(crit) \/ FlowTargetError(st, f, to, n)
  THEN Rejected(st)
  ELSE RoutesAre(st, f, n, (name :> [crit |-> Trim(crit), to |-> to]) @@ NodeAt(st, f, n).routes)

RoutePatched(st, f, n, name, p) ==
  IF (p.crit # None /\ CriteriaError(p.crit)) \/ (p.to # None /\ FlowTargetError(st, f, p.to, n)) THEN Rejected(st)
  ELSE NodeIs(st, f, n, [NodeAt(st, f, n) EXCEPT
         !.routes[name].crit = IF p.crit # None THEN Trim(p.crit) ELSE @,
         !.routes[name].to = IF p.to # None THEN p.to ELSE @])
SetNodeResultEdit(st, f, n, name, p) ==
  IF ~KindIs(st, f, n, "actor") \/ ~HasRoute(st, f, n, name) THEN Rejected(st) ELSE RoutePatched(st, f, n, name, p)

RenameNodeResultEdit(st, f, n, old, new) ==
  IF ~KindIs(st, f, n, "actor") \/ ~HasRoute(st, f, n, old) THEN Rejected(st)
  ELSE IF old = new THEN NoOp(st)
  ELSE IF new \notin Ids \/ HasRoute(st, f, n, new) THEN Rejected(st)
  ELSE LET bent == <<"edge", n, old>> \in DOMAIN PositionsOf(st.positions, f) IN
       AppliedMoving(st,
         [st.draft EXCEPT !.flows[f].nodes[n].routes = MoveKey(@, old, new)],
         IF bent THEN [st.positions EXCEPT ![f] = MoveKey(@, <<"edge", n, old>>, <<"edge", n, new>>)] ELSE st.positions,
         st.dirtyLayout \/ bent)
DeleteNodeResultEdit(st, f, n, name) ==
  IF ~KindIs(st, f, n, "actor") \/ ~HasRoute(st, f, n, name) THEN Rejected(st)
  ELSE RoutesAre(st, f, n, Without(NodeAt(st, f, n).routes, name))

SetFlowStartNodeEdit(st, f, n) ==
  IF \/ ~HasNode(st, f, n)
     \/ (f = MainFlow /\ (NodeAt(st, f, n).kind # "actor" \/ NodeAt(st, f, n).who # "manager"))
  THEN Rejected(st)
  ELSE IF st.draft.flows[f].start = n THEN NoOp(st)
  ELSE Applied(st, [st.draft EXCEPT !.flows[f].start = n])

AddFlowReturnEdit(st, f, name) ==
  IF ~HasFlow(st, f) \/ name \notin Ids \/ name \in st.draft.flows[f].returns THEN Rejected(st)
  ELSE Applied(st, [st.draft EXCEPT !.flows[f].returns = {name} \cup @])

\* Mutant: the nodes that call the flow keep the old name.
RenameFlowReturnEditAlone(st, f, old, new) ==
  IF ~HasFlow(st, f) \/ old \notin st.draft.flows[f].returns THEN Rejected(st)
  ELSE IF old = new THEN NoOp(st)
  ELSE IF new \notin Ids \/ new \in st.draft.flows[f].returns THEN Rejected(st)
  ELSE AppliedMoving(st,
         [st.draft EXCEPT !.flows[f].nodes = [n \in DOMAIN @ |-> Turned(@[n], <<"return", old>>, <<"return", new>>)],
                          !.flows[f].returns = {IF r = old THEN new ELSE r : r \in @}],
         [g \in DOMAIN st.positions |->
            IF g = f THEN MoveKey(st.positions[g], <<"return", old>>, <<"return", new>>) ELSE st.positions[g]],
         st.dirtyLayout)
RenameFlowReturnEdit(st, f, old, new) ==
  IF ~HasFlow(st, f) \/ old \notin st.draft.flows[f].returns THEN Rejected(st)
  ELSE IF old = new THEN NoOp(st)
  ELSE IF new \notin Ids \/ new \in st.draft.flows[f].returns THEN Rejected(st)
  ELSE LET inner == [n \in DOMAIN st.draft.flows[f].nodes |->
                       Turned(NodeAt(st, f, n), <<"return", old>>, <<"return", new>>)]
           draft == [st.draft EXCEPT !.flows[f].nodes = inner,
                                     !.flows[f].returns = {IF r = old THEN new ELSE r : r \in @}]
           calls(node) == node.kind = "child" /\ node.who = f /\ old \in DOMAIN node.routes
           change(node) == IF calls(node) THEN [node EXCEPT !.routes = MoveKey(@, old, new)] ELSE node
           bends(g) == {n \in IF g \in DOMAIN draft.flows THEN DOMAIN draft.flows[g].nodes ELSE {} :
                          calls(draft.flows[g].nodes[n]) /\ <<"edge", n, old>> \in DOMAIN st.positions[g]}
           moved(g) == LET table == st.positions[g] IN
             [k \in (DOMAIN table \ {<<"edge", n, old>> : n \in bends(g)}) \cup {<<"edge", n, new>> : n \in bends(g)} |->
                IF k[1] = "edge" /\ k[2] \in bends(g) /\ k[3] = new THEN table[<<"edge", k[2], old>>] ELSE table[k]]
       IN AppliedMoving(st, EachNode(draft, change),
            [g \in DOMAIN st.positions |->
               IF g = f THEN MoveKey(moved(g), <<"return", old>>, <<"return", new>>) ELSE moved(g)],
            st.dirtyLayout \/ \E g \in DOMAIN st.positions : bends(g) # {})

DeleteFlowReturnEdit(st, f, name) ==
  IF ~HasFlow(st, f) \/ name \notin st.draft.flows[f].returns THEN Rejected(st)
  ELSE AppliedMoving(st, [st.draft EXCEPT !.flows[f].returns = @ \ {name}],
         IF f \in DOMAIN st.positions THEN [st.positions EXCEPT ![f] = Without(@, <<"return", name>>)] ELSE st.positions,
         st.dirtyLayout)

-----------------------------------------------------------------------------
(* Programs.  The catalogue is what the metadata endpoint answered. *)

ProgramParamError(program, key, value) ==
  \/ key \notin DOMAIN ProgramParameters[program]
  \/ ProgramParameters[program][key] # value[1]
  \/ (value[1] = "string" /\ Trim(value[2]) = "")
ProgramConfigSizeError(config) == <<"string", "overlong">> \in {config[k] : k \in DOMAIN config}

AddProgramNodeEdit(st, f, n, x) ==
  IF \/ ~HasFlow(st, f) \/ n \notin Ids \/ HasNode(st, f, n) \/ x.program \notin DOMAIN ProgramParameters
     \/ (x.text # None /\ Trim(x.text) = "")
     \/ (x.config # None /\ \/ \E k \in DOMAIN x.config : ProgramParamError(x.program, k, x.config[k])
                            \/ ProgramConfigSizeError(x.config))
     \/ CriteriaError(x.routes["PASS"].crit) \/ FlowTargetError(st, f, x.routes["PASS"].to, n)
     \/ CriteriaError(x.routes["FAIL"].crit) \/ FlowTargetError(st, f, x.routes["FAIL"].to, n)
  THEN Rejected(st)
  ELSE NewNode(st, f, n,
         [kind |-> "program", who |-> x.program, text |-> IF x.text = None THEN None ELSE Trim(x.text),
          common |-> None, config |-> x.config,
          routes |-> [PASS |-> [crit |-> Trim(x.routes["PASS"].crit), to |-> x.routes["PASS"].to],
                      FAIL |-> [crit |-> Trim(x.routes["FAIL"].crit), to |-> x.routes["FAIL"].to]]])

SetProgramFieldsEdit(st, f, n, p) ==
  IF \/ ~KindIs(st, f, n, "program") \/ (p.program # None /\ p.program \notin DOMAIN ProgramParameters)
     \/ (p.text # None /\ p.text # Null /\ Trim(p.text) = "")
  THEN Rejected(st)
  ELSE NodeIs(st, f, n, [NodeAt(st, f, n) EXCEPT
         !.who = IF p.program # None THEN p.program ELSE @,
         !.text = CASE p.text = None -> @ [] p.text = Null -> None [] OTHER -> Trim(p.text)])

SetProgramParamEdit(st, f, n, key, value) ==
  IF ~KindIs(st, f, n, "program") \/ key = "" THEN Rejected(st)
  ELSE LET node == NodeAt(st, f, n)
           config == IF node.config = None THEN <<>> ELSE node.config
           has == key \in DOMAIN config
           rest == Without(config, key)
           set == (key :> value) @@ config
       IN CASE value = None -> IF ~has THEN Rejected(st)
                               ELSE NodeIs(st, f, n, [node EXCEPT !.config = IF DOMAIN rest = {} THEN None ELSE rest])
            [] value # None /\ ProgramParamError(node.who, key, value) -> Rejected(st)
            [] OTHER -> IF has /\ config[key] = value THEN NoOp(st)
                        ELSE IF ProgramConfigSizeError(set) THEN Rejected(st)
                        ELSE NodeIs(st, f, n, [node EXCEPT !.config = set])

SetProgramResultEdit(st, f, n, name, p) ==
  IF ~KindIs(st, f, n, "program") \/ name \notin {"PASS", "FAIL"} \/ ~HasRoute(st, f, n, name) THEN Rejected(st)
  ELSE RoutePatched(st, f, n, name, p)

-----------------------------------------------------------------------------
(* Child workflows and the nodes that call them. *)

ChildCallGraphOf(draft) ==
  [f \in DOMAIN draft.flows |->
     {draft.flows[f].nodes[n].who : n \in {x \in DOMAIN draft.flows[f].nodes : draft.flows[f].nodes[x].kind = "child"}}]
\* Depth first, and back to nothing already seen.
ChildReachesEdit(draft, from, target) ==
  LET graph == ChildCallGraphOf(draft)
      reaches[seen \in SUBSET Ids, at \in Ids] ==
        \/ at = target
        \/ at \notin seen /\ at \in DOMAIN graph /\ \E next \in graph[at] : reaches[seen \cup {at}, next]
  IN reaches[{}, from]
ChildCalleeError(st, caller, callee) ==
  \/ callee \notin Ids \/ ~HasFlow(st, callee) \/ callee = MainFlow \/ callee = caller
  \/ ChildReachesEdit(st.draft, callee, caller)

AddSubflowEdit(st, f) ==
  IF f \notin Ids \/ f = MainFlow \/ HasFlow(st, f) THEN Rejected(st)
  ELSE AppliedMoving(st, [st.draft EXCEPT !.flows = (f :> MinimalFlowDefOf) @@ @],
         (f :> ((<<"node", "main">> :> 0) @@ PositionsOf(st.positions, f))) @@ st.positions, TRUE)

RenameSubflowEdit(st, old, new) ==
  IF old = MainFlow \/ ~HasFlow(st, old) THEN Rejected(st)
  ELSE IF old = new THEN NoOp(st)
  ELSE IF new \notin Ids \/ new = MainFlow \/ HasFlow(st, new) THEN Rejected(st)
  ELSE LET change(node) == IF node.kind = "child" /\ node.who = old THEN [node EXCEPT !.who = new] ELSE node IN
       AppliedMoving(st, EachNode([st.draft EXCEPT !.flows = MoveKey(@, old, new)], change),
                     MoveKey(st.positions, old, new), st.dirtyLayout \/ old \in DOMAIN st.positions)

DeleteSubflowEdit(st, f) ==
  IF f = MainFlow \/ ~HasFlow(st, f) THEN Rejected(st)
  ELSE AppliedMoving(st, [st.draft EXCEPT !.flows = Without(@, f)],
                     Without(st.positions, f), st.dirtyLayout \/ f \in DOMAIN st.positions)

AddChildNodeEdit(st, f, n, callee, targets) ==
  IF \/ ~HasFlow(st, f) \/ n \notin Ids \/ HasNode(st, f, n) \/ ChildCalleeError(st, f, callee)
     \/ st.draft.flows[callee].returns \ DOMAIN targets # {} \/ DOMAIN targets \ st.draft.flows[callee].returns # {}
     \/ \E name \in DOMAIN targets : FlowTargetError(st, f, targets[name], n)
  THEN Rejected(st)
  ELSE NewNode(st, f, n,
         [kind |-> "child", who |-> callee, text |-> None, common |-> None, config |-> None,
          routes |-> [name \in DOMAIN targets |-> [crit |-> None, to |-> targets[name]]]])

SetChildWorkflowIdEdit(st, f, n, callee) ==
  IF ~KindIs(st, f, n, "child") \/ ChildCalleeError(st, f, callee) THEN Rejected(st)
  ELSE NodeIs(st, f, n, [NodeAt(st, f, n) EXCEPT !.who = callee])

SetChildReturnTargetEdit(st, f, n, name, to) ==
  IF ~KindIs(st, f, n, "child") \/ name \notin Ids THEN Rejected(st)
  ELSE LET node == NodeAt(st, f, n) IN
       IF node.who = MainFlow \/ ~HasFlow(st, node.who) THEN Rejected(st)
       ELSE CASE to = None -> IF ~HasRoute(st, f, n, name) THEN Rejected(st)
                              ELSE RoutesAre(st, f, n, Without(node.routes, name))
              [] to # None /\ (name \notin st.draft.flows[node.who].returns \/ FlowTargetError(st, f, to, n)) -> Rejected(st)
              [] OTHER -> NodeIs(st, f, n, [node EXCEPT !.routes = (name :> [crit |-> None, to |-> to]) @@ @])
=============================================================================
