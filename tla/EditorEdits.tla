----------------------------- MODULE EditorEdits -----------------------------
(***************************************************************************)
(* One sequence of edits, made to a draft of src/editor/draft.ts and to    *)
(* the page's own of src/web-client/src/edits.js: the same operation with  *)
(* the same arguments on both.                                             *)
(***************************************************************************)
EXTENDS DraftEdits, PanelEdits

CONSTANTS
  Files,      \* what is opened: sets of [family, config, layout]
  Names,      \* the names typed, invalid ones among them
  Words,      \* the texts typed
  Models,     \* the models chosen
  Denials,    \* the tools denied
  Spots,      \* where nodes are dragged to
  MaxEdits    \* bounds, for each family: edits that changed something

\* The schema accepts only what has the shape of a definition.
ASSUME FilesAssumption == \A file \in Files : IsDefinition(file.config)

VARIABLES
  host,       \* the draft of draft.ts
  page,       \* the page's
  agree,      \* both gave the same answer to every edit so far
  family,     \* the kind of edits of this behaviour
  edits       \* how many of them changed something

editVars == <<host, page, agree, family, edits>>

\* What the page shows of a file: selectFile, with what the endpoints parse
\* and layout answer.
Opened(file) ==
  LET config == Normalized(file.config) IN
  [draft |-> config, positions |-> FillMissingPositions(config, ParseLayoutFile(file.layout)),
   personaInput |-> IF config.persona = None THEN "" ELSE config.persona,
   dirtyBusiness |-> FALSE, dirtyLayout |-> FALSE, past |-> <<>>, future |-> <<>>]

EditsInit ==
  \E file \in Files :
    /\ family = file.family /\ edits = 0 /\ agree = TRUE
    /\ LoadDraft(file.config, file.layout).ok
    /\ host = LoadDraft(file.config, file.layout).session
    /\ page = Opened(file)

Both(h, p) ==
  /\ host' = h.session /\ page' = p.state
  /\ agree' = (agree /\ h.ok = p.ok)
  /\ UNCHANGED family
\* A refusal or an edit that changes nothing can be made at any time.
Edit(of, h, p) ==
  /\ family = of
  /\ (h.session # host \/ p.state # page) => edits < MaxEdits[of]
  /\ Both(h, p)
  /\ edits' = IF h.session # host \/ p.state # page THEN edits + 1 ELSE edits

UndoBoth == Both(Undo(host), UndoEdit(page)) /\ UNCHANGED edits
RedoBoth == Both(Redo(host), RedoEdit(page)) /\ UNCHANGED edits

\* Nodes, ends and results are looked up in the draft; a name may be missing.
Flows == DOMAIN host.config.flows
Nodes(f) == DOMAIN host.config.flows[f].nodes
Results(f, n) == DOMAIN host.config.flows[f].nodes[n].routes
Ends(f) == host.config.flows[f].returns
Targets(f) == {<<"node", n>> : n \in Nodes(f) \cup Names} \cup {<<"return", r>> : r \in Ends(f)}
SomeTargets(f) == {<<"node", n>> : n \in Nodes(f)} \cup {<<"return", r>> : r \in Ends(f)}
RoutePatches(f) ==
  {[crit |-> word, to |-> None] : word \in Words} \cup {[crit |-> None, to |-> to] : to \in Targets(f)}

-----------------------------------------------------------------------------
(* The common persona, the Roles and the Judge. *)

Persona(word, clear) ==
  Edit("roles", SetActorCommonPersona(host, IF clear THEN None ELSE word),
       LET p == ApplyPersonaEdit([page EXCEPT !.personaInput = word], clear) IN
       \* What was typed and refused is not kept.
       IF p.ok /\ p.state.draft # page.draft THEN p ELSE [p EXCEPT !.state = page])
\* A form is filled in with one entry other than the plain ones.
RoleForms ==
  LET plain == [persona |-> "w", model |-> None, reuse |-> None, compact |-> None, deny |-> None] IN
  {[plain EXCEPT !.persona = word] : word \in Words} \cup {[plain EXCEPT !.model = m] : m \in Models}
    \cup {[plain EXCEPT !.deny = deny] : deny \in Denials}
    \cup {[plain EXCEPT !.reuse = "continuable", !.compact = on] : on \in BOOLEAN}
RoleAdded(key, r) == Edit("roles", AddRole(host, key, r), AddRoleEdit(page, key, r))
RolePersona(key, word) == Edit("roles", SetRolePersona(host, key, word), SetRolePersonaEdit(page, key, word))
RoleModel(key, m) == Edit("roles", SetRoleModel(host, key, m), SetRoleModelEdit(page, key, m))
RoleFallback(key, m) ==
  Edit("roles", SetRoleFallbackModel(host, key, m), SetRoleFallbackModelEdit(page, key, m))
RoleCompact(key, on) ==
  Edit("roles", SetRoleCompactBeforeReuse(host, key, on), SetRoleCompactBeforeReuseEdit(page, key, on))
RoleReuse(key, reuse) == Edit("roles", SetRoleReuse(host, key, reuse), SetRoleReuseEdit(page, key, reuse))
RoleDeny(key, deny) == Edit("roles", SetRoleDeny(host, key, deny), SetRoleDenyEdit(page, key, deny))
RoleRenamed(key, new) == Edit("roles", RenameRole(host, key, new), RenameRoleEdit(page, key, new))
RoleDeleted(key) == Edit("roles", DeleteRole(host, key), DeleteRoleEdit(page, key))
JudgePersona(word) == Edit("roles", SetJudgePersona(host, word), SetJudgePersonaEdit(page, word))
JudgeModel(m) == Edit("roles", SetJudgeModel(host, m), SetJudgeModelEdit(page, m))
JudgeFallback(m) == Edit("roles", SetJudgeFallbackModel(host, m), SetJudgeFallbackModelEdit(page, m))
JudgeDeny(deny) == Edit("roles", SetJudgeDeny(host, deny), SetJudgeDenyEdit(page, deny))

RolesNext ==
  \/ \E word \in Words, clear \in BOOLEAN : Persona(word, clear)
  \/ \E word \in Words : JudgePersona(word)
  \/ \E m \in Models : JudgeModel(m) \/ JudgeFallback(m)
  \/ \E deny \in Denials : JudgeDeny(deny)
  \/ \E key \in DOMAIN host.config.roles \cup Names :
       \/ \E r \in RoleForms : RoleAdded(key, r)
       \/ \E word \in Words : RolePersona(key, word)
       \/ \E m \in Models : RoleModel(key, m) \/ RoleFallback(key, m)
       \/ \E on \in BOOLEAN : RoleCompact(key, on)
       \/ \E reuse \in {"node", "continuable"} : RoleReuse(key, reuse)
       \/ \E deny \in Denials : RoleDeny(key, deny)
       \/ \E new \in Names : RoleRenamed(key, new)
       \/ RoleDeleted(key)

-----------------------------------------------------------------------------
(* Nodes, results and returns. *)

Moved(f, key, pos) == Edit("routes", SetNodePosition(host, f, key, pos), MoveNodeEdit(page, f, key, pos))
ActorForms(f) ==
  LET plain == [role |-> "manager", text |-> "w", checker |-> None, common |-> None, result |-> "ok", crit |-> "w",
                to |-> <<"return", "done">>]
  IN {[plain EXCEPT !.role = role] : role \in DOMAIN host.config.roles \cup {"judge"}}
       \cup {[plain EXCEPT !.text = word] : word \in Words} \cup {[plain EXCEPT !.common = word] : word \in Words}
       \cup {[plain EXCEPT !.crit = word] : word \in Words} \cup {[plain EXCEPT !.to = to] : to \in Targets(f)}
       \cup {[plain EXCEPT !.checker = "other"]}
ActorPatches ==
  LET none == [role |-> None, text |-> None, common |-> None, checker |-> None] IN
  {[none EXCEPT !.role = role] : role \in DOMAIN host.config.roles \cup {"manager", "judge"}}
    \cup {[none EXCEPT !.text = word] : word \in Words}
    \cup {[none EXCEPT !.common = word] : word \in {Null} \cup Words} \cup {[none EXCEPT !.checker = "other"]}
ActorAdded(f, n, x) == Edit("routes", AddActorNode(host, f, n, x), AddActorNodeEdit(page, f, n, x))
ActorSet(f, n, p) == Edit("routes", SetActorFields(host, f, n, p), SetActorFieldsEdit(page, f, n, p))
NodeRenamed(f, n, new) == Edit("routes", RenameNode(host, f, n, new), RenameNodeEdit(page, f, n, new))
NodeDeleted(f, n) == Edit("routes", DeleteNode(host, f, n), DeleteNodeEdit(page, f, n))
ResultAdded(f, n, r, word, to) ==
  Edit("routes", AddNodeResult(host, f, n, r, word, to), AddNodeResultEdit(page, f, n, r, word, to))
ResultSet(f, n, r, p) == Edit("routes", SetNodeResult(host, f, n, r, p), SetNodeResultEdit(page, f, n, r, p))
ResultRenamed(f, n, r, new) ==
  Edit("routes", RenameNodeResult(host, f, n, r, new), RenameNodeResultEdit(page, f, n, r, new))
ResultDeleted(f, n, r) == Edit("routes", DeleteNodeResult(host, f, n, r), DeleteNodeResultEdit(page, f, n, r))
StartSet(f, n) == Edit("routes", SetFlowStartNode(host, f, n), SetFlowStartNodeEdit(page, f, n))
ReturnAdded(f, r) == Edit("routes", AddFlowReturn(host, f, r), AddFlowReturnEdit(page, f, r))
ReturnRenamed(f, r, new) == Edit("routes", RenameFlowReturn(host, f, r, new), RenameFlowReturnEdit(page, f, r, new))
ReturnDeleted(f, r) == Edit("routes", DeleteFlowReturn(host, f, r), DeleteFlowReturnEdit(page, f, r))

\* What the canvas draws and lets be dragged.
Draggable(f) == SomeTargets(f)

RoutesNext ==
  \E f \in Flows :
    \/ \E key \in Draggable(f), pos \in Spots : Moved(f, key, pos)
    \/ \E n \in Names, x \in ActorForms(f) : ActorAdded(f, n, x)
    \/ \E n \in Nodes(f) \cup Names :
         \/ \E p \in ActorPatches : ActorSet(f, n, p)
         \/ \E new \in Names : NodeRenamed(f, n, new)
         \/ NodeDeleted(f, n) \/ StartSet(f, n)
    \/ \E n \in Nodes(f) :
         \/ \E r \in Names, to \in Targets(f) : ResultAdded(f, n, r, "w", to)
         \/ \E r \in Names, word \in Words : ResultAdded(f, n, r, word, <<"return", "done">>)
         \/ \E r \in Results(f, n) :
              \/ \E p \in RoutePatches(f) : ResultSet(f, n, r, p)
              \/ \E new \in Names : ResultRenamed(f, n, r, new)
              \/ ResultDeleted(f, n, r)
    \/ \E r \in Names : ReturnAdded(f, r)
    \/ \E r \in Ends(f) : (\E new \in Names : ReturnRenamed(f, r, new)) \/ ReturnDeleted(f, r)

-----------------------------------------------------------------------------
(* Programs. *)

ProgramAdded(f, n, x) == Edit("programs", AddProgramNode(host, f, n, x), AddProgramNodeEdit(page, f, n, x))
ProgramSet(f, n, p) == Edit("programs", SetProgramFields(host, f, n, p), SetProgramFieldsEdit(page, f, n, p))
ParamSet(f, n, key, value) ==
  Edit("programs", SetProgramParam(host, f, n, key, value), SetProgramParamEdit(page, f, n, key, value))
ProgramResultSet(f, n, r, p) ==
  Edit("programs", SetProgramResult(host, f, n, r, p), SetProgramResultEdit(page, f, n, r, p))

ParamKeys == {"title", "milestoneNumber", "other", ""}
ParamValues == {<<"string", word>> : word \in Words} \cup {<<"number", 1>>}
ProgramNames == DOMAIN ProgramParameters \cup {"other"}
ProgramForms(f) ==
  LET plain == [program |-> "initialize", text |-> None, config |-> None,
                routes |-> [r \in ProgramResults |-> [crit |-> "w", to |-> <<"return", "done">>]]]
  IN {[plain EXCEPT !.program = program] : program \in ProgramNames} \cup {[plain EXCEPT !.text = word] : word \in Words}
       \cup {[plain EXCEPT !.config = k :> v] : k \in ParamKeys, v \in ParamValues}
       \cup {[plain EXCEPT !.routes[r].crit = word] : r \in ProgramResults, word \in Words}
       \cup {[plain EXCEPT !.routes[r].to = to] : r \in ProgramResults, to \in Targets(f)}

ProgramsNext ==
  \E f \in Flows :
    \/ \E n \in Names, x \in ProgramForms(f) : ProgramAdded(f, n, x)
    \/ \E n \in Nodes(f) :
         \/ \E program \in ProgramNames : ProgramSet(f, n, [program |-> program, text |-> None])
         \/ \E word \in {Null} \cup Words : ProgramSet(f, n, [program |-> None, text |-> word])
         \/ \E key \in ParamKeys, value \in {None} \cup ParamValues : ParamSet(f, n, key, value)
         \/ \E r \in {"PASS", "FAIL", "OTHER"}, p \in RoutePatches(f) : ProgramResultSet(f, n, r, p)

-----------------------------------------------------------------------------
(* Child workflows. *)

SubflowAdded(f) == Edit("subflows", AddSubflow(host, f), AddSubflowEdit(page, f))
SubflowRenamed(f, new) == Edit("subflows", RenameSubflow(host, f, new), RenameSubflowEdit(page, f, new))
SubflowDeleted(f) == Edit("subflows", DeleteSubflow(host, f), DeleteSubflowEdit(page, f))
ChildAdded(f, n, callee, to) ==
  Edit("subflows", AddChildNode(host, f, n, callee, to), AddChildNodeEdit(page, f, n, callee, to))
ChildSet(f, n, callee) ==
  Edit("subflows", SetChildWorkflowId(host, f, n, callee), SetChildWorkflowIdEdit(page, f, n, callee))
ChildReturnSet(f, n, r, to) ==
  Edit("subflows", SetChildReturnTarget(host, f, n, r, to), SetChildReturnTargetEdit(page, f, n, r, to))
\* Returns of a flow that nodes call.
CalledReturnRenamed(f, r, new) ==
  Edit("subflows", RenameFlowReturn(host, f, r, new), RenameFlowReturnEdit(page, f, r, new))
CalledReturnDeleted(f, r) ==
  Edit("subflows", DeleteFlowReturn(host, f, r), DeleteFlowReturnEdit(page, f, r))

SubflowsNext ==
  \/ \E f \in Names : SubflowAdded(f)
  \/ \E f \in Flows :
       \/ (\E new \in Names : SubflowRenamed(f, new)) \/ SubflowDeleted(f)
       \/ \E r \in Ends(f) : (\E new \in Names : CalledReturnRenamed(f, r, new)) \/ CalledReturnDeleted(f, r)
       \/ \E n \in Names, callee \in Flows, to \in SomeTargets(f), short \in BOOLEAN :
            ChildAdded(f, n, callee, [r \in IF short THEN {} ELSE Ends(callee) |-> to])
       \/ \E n \in Nodes(f) :
            \/ \E callee \in Flows \cup Names : ChildSet(f, n, callee)
            \/ \E r \in Results(f, n) \cup Names, to \in {None} \cup Targets(f) : ChildReturnSet(f, n, r, to)

EditsNext == RolesNext \/ RoutesNext \/ ProgramsNext \/ SubflowsNext \/ UndoBoth \/ RedoBoth

-----------------------------------------------------------------------------
(* Properties. *)

\* The page answers every edit as draft.ts does and comes to the same draft,
\* positions, flags and history ("本模块是面板侧唯一的编辑变迁来源", with the
\* semantics of draft.ts): two implementations of some fifty operations.
MirrorsHost ==
  LET same(h, p) == /\ h.config = p.draft /\ h.layout = p.positions
                    /\ h.dirtyBusiness = p.dirtyBusiness /\ h.dirtyLayout = p.dirtyLayout
      all(hs, ps) == Len(hs) = Len(ps) /\ \A i \in DOMAIN hs : same(hs[i], ps[i])
  IN host # None => /\ agree /\ same(host, page)
                    /\ all(host.past, page.past) /\ all(host.future, page.future)

\* A name that something still refers to, or that a position is kept under,
\* is taken up by a rename: those are left out.
Mentioned(c, f) == UNION {NodeTargets(c.flows[f].nodes[n]) : n \in DOMAIN c.flows[f].nodes}
Placed(f) == DOMAIN Table(host.layout, f)
Fresh(f, new) == \A k \in Placed(f) : \A i \in 2..Len(k) : k[i] # new
\* A change of a name and back is as if nothing had been changed, and a valid
\* draft is valid under the new name: every reference, position and bend went
\* along (RenameRole, RenameNode, RenameNodeResult, RenameFlowReturn,
\* RenameSubflow of draft.ts).
RenamesComeBack ==
  LET undone(there, back(_)) ==
        there.ok => LET again == back(there.session) IN
          /\ again.ok /\ again.session.config = host.config /\ again.session.layout = host.layout
          /\ Valid(host.config) => Valid(there.session.config)
      c == host.config
  IN host # None => \A new \in Names :
       /\ \A old \in DOMAIN c.roles :
            (\A f \in Flows, n \in UNION {Nodes(g) : g \in Flows} : ~(n \in Nodes(f) /\ c.flows[f].nodes[n].who = new))
              => undone(RenameRole(host, old, new), LAMBDA s : RenameRole(s, new, old))
       /\ \A f \in Flows :
            LET free == Fresh(f, new) /\ <<"node", new>> \notin Mentioned(c, f) IN
            /\ \A n \in Nodes(f) :
                 /\ free /\ c.flows[f].start # new
                      => undone(RenameNode(host, f, n, new), LAMBDA s : RenameNode(s, f, new, n))
                 /\ \A r \in Results(f, n) : Fresh(f, new)
                      => undone(RenameNodeResult(host, f, n, r, new), LAMBDA s : RenameNodeResult(s, f, n, new, r))
            /\ \A r \in Ends(f) :
                 /\ \A g \in Flows : Fresh(g, new) /\ \A n \in Nodes(g) : new \notin Results(g, n)
                 /\ <<"return", new>> \notin Mentioned(c, f)
                 => undone(RenameFlowReturn(host, f, r, new), LAMBDA s : RenameFlowReturn(s, f, new, r))
            /\ new \notin DOMAIN host.layout /\ (\A g \in Flows : new \notin Callees(c, g))
                 => undone(RenameSubflow(host, f, new), LAMBDA s : RenameSubflow(s, new, f))

\* What a draft refers to and does not define.
Dangling(c) ==
  UNION {LET flow == c.flows[f] IN
         {<<f, "start">> : x \in {flow.start} \ DOMAIN flow.nodes}
           \cup {<<f, n>> : n \in {x \in DOMAIN flow.nodes :
                 LET node == flow.nodes[x] IN
                 \/ \E t \in NodeTargets(node) : ~TargetDeclared(flow, t)
                 \/ node.kind = "actor" /\ node.who # "manager" /\ node.who \notin DOMAIN c.roles
                 \/ node.kind = "child" /\ node.who \notin DOMAIN c.flows}}
         : f \in DOMAIN c.flows}
\* What it defines, and whether d defines less.
Declared(c) ==
  {<<"role", k>> : k \in DOMAIN c.roles} \cup {<<"flow", f>> : f \in DOMAIN c.flows}
    \cup UNION {{<<"node", f, n>> : n \in DOMAIN c.flows[f].nodes}
                  \cup {<<"return", f, r>> : r \in c.flows[f].returns} : f \in DOMAIN c.flows}
Loses(c, d) == Declared(d) \subseteq Declared(c) /\ Declared(d) # Declared(c)
\* Only a deletion, or going back in the history, leaves a reference to what
\* is not there ("删除/改名不静默修补：悬空引用保留"): no addition, change or
\* rename does.
OnlyDeletionsDangle ==
  [][host # None /\ Dangling(host.config) = {} /\ ~Loses(host.config, host'.config)
     /\ host'.config \notin {host.past[i].config : i \in DOMAIN host.past}
                              \cup {host.future[i].config : i \in DOMAIN host.future}
       => Dangling(host'.config) = {}]_editVars
=============================================================================
