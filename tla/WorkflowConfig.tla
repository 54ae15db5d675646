--------------------------- MODULE WorkflowConfig ---------------------------
(***************************************************************************)
(* The workflow definition the catalog loads and the editor edits, what    *)
(* makes one valid (src/catalog/schema.ts, src/catalog/validate.ts), and   *)
(* the layout file beside it (src/editor/layout.ts).                       *)
(*                                                                         *)
(* A config is [persona, roles, judge, flows]; flows holds the main flow,  *)
(* under the id its file gives it, and the child workflows.  A flow is     *)
(* [start, returns, nodes].  The three kinds of nodes have one shape:      *)
(*   [kind, who, text, common, config, routes]                             *)
(* where who is the Role, the Program or the callee and routes the named   *)
(* results, or a child's onReturn.  A target is <<"node", id>> or          *)
(* <<"return", name>>.  An omitted key is None.                            *)
(***************************************************************************)
EXTENDS Naturals, FiniteSets, TLC

CONSTANTS
  None,       \* an omitted key
  Corrupt,    \* a layout file that cannot be read as one
  MainFlow,   \* the main flow's id
  Ids         \* the names that match ID_PATTERN

\* The shape of a definition: Target, ResultDef, NodeDef, WorkflowDef, WorkflowConfig.
IsTarget(t) == t \in {<<"node", t[2]>>, <<"return", t[2]>>}
IsRoutes(routes) ==
  \A r \in DOMAIN routes : DOMAIN routes[r] = {"crit", "to"} /\ IsTarget(routes[r].to)
IsNode(x) == DOMAIN x = {"kind", "who", "text", "common", "config", "routes"} /\ IsRoutes(x.routes)
IsFlow(flow) ==
  DOMAIN flow = {"start", "returns", "nodes"} /\ \A n \in DOMAIN flow.nodes : IsNode(flow.nodes[n])
IsDefinition(c) ==
  DOMAIN c = {"persona", "roles", "judge", "flows"} /\ \A f \in DOMAIN c.flows : IsFlow(c.flows[f])

\* Texts: a word, the same word between blanks, blanks, one beyond every limit.
Trim(t) == CASE t = " w " -> "w" [] t = " " -> "" [] OTHER -> t
CriteriaOk(t) == Trim(t) \notin {"", "overlong"}

Reserved == {"manager", "judge"}
ProtectedTools == {"judge_claim"}
ProgramResults == {"PASS", "FAIL"}
ProgramParameters ==
  [initialize |-> [title |-> "string", branchName |-> "string"],
   complete   |-> [milestoneNumber |-> "number"]]

\* Records that are used as maps.
With(f, k, v) == [x \in DOMAIN f \cup {k} |-> IF x = k THEN v ELSE f[x]]
Without(f, k) == [x \in DOMAIN f \ {k} |-> f[x]]
\* The keys of rn get their new names, over what was there.
Renamed(f, rn) ==
  [k \in (DOMAIN f \ DOMAIN rn) \cup {rn[x] : x \in DOMAIN rn} |->
     IF \E x \in DOMAIN rn : rn[x] = k THEN f[CHOOSE x \in DOMAIN rn : rn[x] = k] ELSE f[k]]

NodeTargets(node) == {node.routes[r].to : r \in DOMAIN node.routes}
ReuseOf(role) == IF role.reuse = None THEN "node" ELSE role.reuse
CompactOf(role) == IF role.compact = None THEN TRUE ELSE role.compact
SameModelRoute(a, b) == a.provider = b.provider /\ a.modelId = b.modelId

-----------------------------------------------------------------------------
(* Validation. *)

ModelOk(m) == m = None \/ (Trim(m.provider) # "" /\ Trim(m.modelId) # "" /\ m.effort \notin {"", " "})

\* The shape of a file: what the schema refuses.
SchemaOk(c) ==
  /\ c.persona = None \/ Trim(c.persona) # ""
  /\ \A r \in {c.roles[k] : k \in DOMAIN c.roles} \cup {c.judge} :
       /\ Trim(r.persona) # "" /\ ModelOk(r.model) /\ ModelOk(r.fallback)
       /\ r.deny = None \/ (r.deny # {} /\ \A t \in r.deny : Trim(t) # "")
  /\ c.judge.deny = None \/ c.judge.deny \cap ProtectedTools = {}
  /\ \A f \in DOMAIN c.flows :
       /\ c.flows[f].returns # {} /\ c.flows[f].returns \subseteq Ids
       /\ DOMAIN c.flows[f].nodes \subseteq Ids
       /\ \A n \in DOMAIN c.flows[f].nodes :
            LET node == c.flows[f].nodes[n] IN
            /\ \A t \in NodeTargets(node) : t[2] \in Ids
            /\ node.kind = "actor" => node.text # None /\ Trim(node.text) # ""
            /\ node.kind = "program" => node.text = None \/ Trim(node.text) # ""
            /\ node.kind # "program" => DOMAIN node.routes \subseteq Ids
            /\ node.kind # "child" => \A r \in DOMAIN node.routes : CriteriaOk(node.routes[r].crit)

\* What the schema and validateAndNormalize make of a file they accept.
Normalized(c) ==
  LET text(t) == IF t = None THEN None ELSE Trim(t)
      model(m) == IF m = None THEN None
                  ELSE [provider |-> Trim(m.provider), modelId |-> Trim(m.modelId), effort |-> text(m.effort)]
      duty(r) == [r EXCEPT !.persona = Trim(@), !.model = model(@), !.fallback = model(@)]
      route(x) == [x EXCEPT !.crit = text(@)]
      node(x) == [x EXCEPT !.text = text(@), !.common = text(@),
                           !.routes = [r \in DOMAIN x.routes |-> route(x.routes[r])]]
  IN [c EXCEPT
        !.persona = text(@),
        !.roles = [k \in DOMAIN c.roles |->
                     [duty(c.roles[k]) EXCEPT !.reuse = ReuseOf(c.roles[k]), !.compact = CompactOf(c.roles[k])]],
        !.judge = duty(@),
        !.flows = [f \in DOMAIN c.flows |->
                     [c.flows[f] EXCEPT !.nodes = [n \in DOMAIN c.flows[f].nodes |-> node(c.flows[f].nodes[n])]]]]

RolesOk(c) ==
  /\ DOMAIN c.roles \subseteq Ids \ Reserved
  /\ \A r \in {c.roles[k] : k \in DOMAIN c.roles} \cup {c.judge} :
       r.fallback # None /\ r.model # None => ~SameModelRoute(r.model, r.fallback)

TargetDeclared(flow, t) == t[2] \in IF t[1] = "node" THEN DOMAIN flow.nodes ELSE flow.returns
NextNodes(flow, n) == {m \in DOMAIN flow.nodes : <<"node", m>> \in NodeTargets(flow.nodes[n])}

NodeOk(c, flow, node) ==
  /\ \A t \in NodeTargets(node) : TargetDeclared(flow, t)
  /\ CASE node.kind = "actor" ->
            /\ node.who = "manager" \/ (node.who \in DOMAIN c.roles /\ node.who # "judge")
            /\ node.common = None \/ CriteriaOk(node.common)
            /\ DOMAIN node.routes # {}
       [] node.kind = "program" ->
            node.who \in DOMAIN ProgramParameters /\ DOMAIN node.routes = ProgramResults
       [] node.kind = "child" ->
            /\ node.who \in DOMAIN c.flows \ {MainFlow}
            /\ DOMAIN node.routes = c.flows[node.who].returns

\* The nodes a walk from the start visits.
Reachable(flow) ==
  LET reached[i \in Nat] == IF i = 0 THEN {flow.start} \cap DOMAIN flow.nodes
                            ELSE reached[i - 1] \cup UNION {NextNodes(flow, n) : n \in reached[i - 1]}
  IN reached[Cardinality(DOMAIN flow.nodes)]

FlowOk(c, f) ==
  LET flow == c.flows[f] IN
  /\ f \in Ids
  /\ flow.start \in DOMAIN flow.nodes
  /\ f = MainFlow => flow.nodes[flow.start].kind = "actor" /\ flow.nodes[flow.start].who = "manager"
  /\ \A n \in DOMAIN flow.nodes : NodeOk(c, flow, flow.nodes[n])
  /\ Reachable(flow) = DOMAIN flow.nodes
  /\ \A r \in flow.returns : \E n \in Reachable(flow) : <<"return", r>> \in NodeTargets(flow.nodes[n])

Callees(c, f) == {n.who : n \in {x \in {c.flows[f].nodes[i] : i \in DOMAIN c.flows[f].nodes} : x.kind = "child"}}
\* The flows calls lead to, from those of fs.
CallsLeadTo(c, fs) ==
  LET led[i \in Nat] == IF i = 0 THEN fs
                        ELSE led[i - 1] \cup UNION {Callees(c, f) : f \in led[i - 1] \cap DOMAIN c.flows}
  IN led[Cardinality(DOMAIN c.flows)]
NoCallCycle(c) == \A f \in DOMAIN c.flows \ {MainFlow} : f \notin CallsLeadTo(c, Callees(c, f))

Valid(c) == SchemaOk(c) /\ RolesOk(c) /\ (\A f \in DOMAIN c.flows : FlowOk(c, f)) /\ NoCallCycle(c)

\* The editor's own restriction.
DirectSelfLoops(c) ==
  {at \in UNION {{f} \X DOMAIN c.flows[f].nodes : f \in DOMAIN c.flows} :
     <<"node", at[2]>> \in NodeTargets(c.flows[at[1]].nodes[at[2]])}

-----------------------------------------------------------------------------
(* The layout: a table of positions for each flow.  A position is a number: *)
(* that of a cell of the grid, or a place a node was moved to.  The keys    *)
(* are <<"node", id>>, <<"return", name>> and <<"edge", id, result>>.       *)

EmptyLayout == [f \in {MainFlow} |-> <<>>]
Table(layout, f) == IF f \in DOMAIN layout THEN layout[f] ELSE <<>>
SetPosition(layout, f, key, pos) == With(layout, f, With(Table(layout, f), key, pos))
GridPosition(index) == index

\* A file is None, Corrupt or tables; an entry that is not a position goes.
ParseLayoutFile(file) ==
  IF file \in {None, Corrupt} THEN EmptyLayout
  ELSE [f \in DOMAIN file \cup {MainFlow} |->
          LET table == Table(file, f) IN
          [k \in {x \in DOMAIN table : table[x] \in Nat} |-> table[k]]]

\* In the order of the nodes of a flow; one order stands for all.
Index(ids, n) ==
  LET order == CHOOSE o \in [ids -> 0..Cardinality(ids) - 1] : \A a, b \in ids : o[a] = o[b] => a = b IN order[n]
FillMissingPositions(c, layout) ==
  [f \in DOMAIN layout \cup DOMAIN c.flows |->
     IF f \notin DOMAIN c.flows THEN layout[f]
     ELSE [k \in DOMAIN Table(layout, f) \cup {<<"node", n>> : n \in DOMAIN c.flows[f].nodes} |->
             IF k \in DOMAIN Table(layout, f) THEN layout[f][k]
             ELSE GridPosition(Index(DOMAIN c.flows[f].nodes, k[2]))]]
=============================================================================
