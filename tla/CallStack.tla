----------------------------- MODULE CallStack -----------------------------
(***************************************************************************)
(* Child workflows and built-in Programs in src/engine/engine.ts: how a    *)
(* Run enters and leaves the workflows that its Nodes call, and how the    *)
(* Manager has a Program run whose effect outlives the row it was arranged *)
(* in.  A Role's work order is what Runtime shows of it from outside: it   *)
(* is dispatched, left by an ACCEPT, and its Judge is still in its turn.   *)
(***************************************************************************)
EXTENDS Integers, Sequences, FiniteSets

CONSTANTS
  Nodes, Workflows, Returns,
  Kind,          \* of a Node: "task", "program" or "child"
  WorkflowOf,    \* the workflow that a Node belongs to
  Callee,        \* the workflow that a Child Node calls
  StartNode,     \* of a workflow
  Target,        \* of a Node: its results, or its Child's returns, to Targets
  Root, None,
  MaxVisits,     \* bound on the work orders of the Run
  MaxCommands    \* bound on the Manager's interventions and on restarts

\* What the row keeps of the last invocation of a Program.
Invocations == [id : Nat, result : {None, "PASS", "FAIL", "ERROR"}]

ASSUME GraphAssumption ==
  /\ MaxVisits \in Nat /\ MaxCommands \in Nat
  /\ None \notin Nat \cup Nodes \cup Returns \cup Invocations
  /\ Nodes \cap Returns = {} /\ Root \in Workflows
  /\ WorkflowOf \in [Nodes -> Workflows] /\ StartNode \in [Workflows -> Nodes]
  /\ \A w \in Workflows : WorkflowOf[StartNode[w]] = w
  /\ \A n \in Nodes : \A r \in DOMAIN Target[n] :
       \/ Target[n][r] \in Returns
       \/ Target[n][r] \in Nodes /\ WorkflowOf[Target[n][r]] = WorkflowOf[n]
  /\ \A n \in Nodes : Kind[n] \in {"task", "program", "child"}
  /\ \A n \in Nodes : Kind[n] = "program" => DOMAIN Target[n] = {"PASS", "FAIL"}
  /\ \A n \in Nodes : Kind[n] = "child" =>
       /\ Callee[n] \in Workflows
       /\ \A m \in Nodes : WorkflowOf[m] = Callee[n] =>
            \A r \in DOMAIN Target[m] : Target[m][r] \in Returns => Target[m][r] \in DOMAIN Target[n]

VARIABLES
  status,    \* runs.status
  version,   \* runs.state_version
  stack,     \* callStack: Node and work order of each frame
  current,   \* currentExecutionId
  execs,     \* the work orders in the order of their creation, which names them
  calls,     \* handlers suspended at an await, and the version they rely on
  turns,     \* work orders whose Judge has accepted and is still in its turn
  used       \* interventions so far

rowVars == <<status, version, stack, current, execs>>
vars == <<rowVars, calls, turns, used>>

Top == stack[Len(stack)]
cur == execs[current]

\* A text is named after the work order, and the invocation, that wrote it.
RootInput == [by |-> 0, inv |-> 0]

newExecution(n, input, visit, pred) ==
  [node |-> n, phase |-> "ready", input |-> input, visit |-> visit, pred |-> pred,
   succ |-> None, judge |-> "none", text |-> None, program |-> None, child |-> None,
   terminal |-> None, returned |-> None, restart |-> FALSE]

Frame(n, id) == [node |-> n, exec |-> id]

Init ==
  /\ status = "running" /\ version = 1 /\ current = 1
  /\ stack = <<Frame(StartNode[Root], 1)>>
  /\ execs = <<newExecution(StartNode[Root], RootInput, 1, None)>>
  /\ calls = {[op |-> "drive", at |-> 1, exec |-> 1]}
  /\ turns = {} /\ used = 0

Call(op) == [op |-> op, at |-> version + 1, exec |-> current]
Goes(c) == calls' = calls \ {c}
GoesOn(c, op) == calls' = (calls \ {c}) \cup {Call(op)}

\* A write of the row: the current work order becomes e.
Put(st, e) ==
  /\ status' = st /\ version' = version + 1
  /\ execs' = [execs EXCEPT ![current] = e]
  /\ UNCHANGED <<stack, current>>

blockRow(e) == Put("blocked", e)

-----------------------------------------------------------------------------
(* Leaving a work order.                                                   *)

\* As LeftWith, when only the innermost of several returns is mapped.
LeftOneLevel(name) ==
  [d \in 1..Len(stack) |->
     IF d = Len(stack) THEN Target[cur.node][name]
     ELSE IF d = Len(stack) - 1 /\ Target[cur.node][name] \in Returns
          THEN Target[stack[d].node][Target[cur.node][name]] ELSE None]

\* The Target with which the frame at each depth is left, when the work order
\* on top is left with a result; None where the return has been mapped to a
\* Node further down.
LeftWith(name) ==
  LET to[d \in 1..Len(stack)] ==
        IF d = Len(stack) THEN Target[cur.node][name]
        ELSE IF to[d + 1] \in Returns THEN Target[stack[d].node][to[d + 1]] ELSE None
  IN  to

\* A frame below the top has a caller at work whose Child has not returned.
Callers(d) == LET e == execs[stack[d].exec]
              IN  e.phase = "working" /\ e.child # None /\ e.terminal = None

\* What a work order records of its end: the return it led to, or its result.
decisionOf(to, name) == IF to \in Returns THEN [kind |-> "return", name |-> to]
                        ELSE [kind |-> "result", name |-> name]

\* The current work order, settled as e, is left with the result of that name
\* and hands a text on: callers are left level by level as long as the Target
\* is a return, and all of it is one write.
advanceKnownResult(e, name, text) ==
  LET to     == LeftWith(name)
      left   == {d \in 1..Len(stack) : to[d] # None}
      bottom == CHOOSE d \in left : \A k \in left : d <= k
      ends   == to[bottom] \in Returns
      next   == Len(execs) + 1
      Visits == {execs[stack[d].exec].visit : d \in left}
      last   == CHOOSE v \in Visits : \A w \in Visits : w <= v
      Leave(x, d) ==
        [x EXCEPT !.phase = "exited", !.succ = IF ends THEN None ELSE next,
                  !.returned = decisionOf(to[d], IF d = Len(stack) THEN name ELSE to[d + 1]),
                  !.terminal = IF d = Len(stack) THEN None ELSE stack[d + 1].exec,
                  !.text = text]
      exited == [i \in DOMAIN execs |->
                   IF \E d \in left : stack[d].exec = i
                   THEN Leave(IF i = current THEN e ELSE execs[i],
                              CHOOSE d \in left : stack[d].exec = i)
                   ELSE execs[i]]
  IN  /\ \A d \in left \ {Len(stack)} : Callers(d)
      /\ version' = version + 1
      /\ IF ends
         THEN /\ status' = "completed" /\ stack' = <<>> /\ current' = stack[bottom].exec
              /\ execs' = exited
         ELSE /\ next <= MaxVisits
              /\ status' = "running" /\ current' = next
              /\ stack' = SubSeq(stack, 1, bottom - 1) \o <<Frame(to[bottom], next)>>
              /\ execs' = exited \o <<newExecution(to[bottom], text, last + 1, stack[bottom].exec)>>

-----------------------------------------------------------------------------
(* drive.                                                                  *)

\* Whether what precedes the current work order has come to its end.
PredecessorSettled ==
  IF cur.pred = None THEN TRUE
  ELSE LET p == execs[cur.pred]
       IN  IF Kind[p.node] = "task" THEN p.judge = "settled"
           ELSE p.phase = "exited" /\ p.succ = current

\* A drive that finds anything else returns; after the writes that are modelled
\* here none does.
Drives(c) ==
  /\ c.op = "drive" /\ status = "running" /\ cur.phase = "ready" /\ PredecessorSettled
  /\ UNCHANGED <<turns, used>>

DispatchesRole(c) ==
  /\ Drives(c) /\ Kind[cur.node] = "task"
  /\ Put("running", [cur EXCEPT !.phase = "working"]) /\ Goes(c)

\* The Manager is asked to have the Program run, and that message may fail.
ReadiesProgram(c) ==
  /\ Drives(c) /\ Kind[cur.node] = "program"
  /\ Put("running", cur) /\ GoesOn(c, "steer")

StillAt(c) == version = c.at /\ current = c.exec

Steers(c, fails) ==
  /\ c.op = "steer" /\ Goes(c)
  /\ IF fails /\ StillAt(c) THEN blockRow(cur) ELSE UNCHANGED rowVars
  /\ UNCHANGED <<turns, used>>

EntersChild(c) ==
  LET callee == Callee[cur.node]
      first  == Len(execs) + 1
  IN  /\ Drives(c) /\ Kind[cur.node] = "child" /\ first <= MaxVisits
      /\ version' = version + 1 /\ status' = "running" /\ current' = first
      /\ stack' = Append(stack, Frame(StartNode[callee], first))
      /\ execs' = Append([execs EXCEPT ![current].phase = "working", ![current].child = first],
                         newExecution(StartNode[callee], cur.input, cur.visit + 1, None))
      /\ GoesOn(c, "drive")

-----------------------------------------------------------------------------
(* Roles and their Judges, as Runtime has them.                            *)

\* The verdict leaves the work order; its Judge goes on with its turn.
TaskAccepted(name) ==
  /\ status = "running" /\ Kind[cur.node] = "task" /\ cur.phase = "working"
  /\ advanceKnownResult([cur EXCEPT !.judge = "open"], name, [by |-> current, inv |-> 0])
  /\ turns' = turns \cup {current} /\ UNCHANGED <<calls, used>>

\* The Judge whose settlement a hand-over waits for: a caller's is that of the
\* work order with which its Child returned.
TransferJudge(p) ==
  LET of[i \in DOMAIN execs] ==
        IF execs[i].judge # "none" THEN i
        ELSE IF execs[i].terminal = None THEN None ELSE of[execs[i].terminal]
  IN  of[p]

JudgeTurnEnds(i) ==
  /\ i \in turns /\ turns' = turns \ {i}
  /\ calls' = IF /\ status = "running" /\ cur.phase = "ready" /\ cur.pred # None
                 /\ TransferJudge(cur.pred) = i /\ execs[i].judge = "open"
              THEN calls \cup {[op |-> "probe", at |-> version, exec |-> i]} ELSE calls
  /\ UNCHANGED <<rowVars, used>>

\* The probe of the Judge's session is answered.
TransferSettles(c, safe) ==
  /\ c.op = "probe" /\ UNCHANGED <<turns, used>>
  /\ IF version # c.at THEN Goes(c) /\ UNCHANGED rowVars
     ELSE IF ~safe THEN Goes(c) /\ blockRow(cur)
     ELSE /\ version' = version + 1
          /\ execs' = [execs EXCEPT ![c.exec].judge = "settled"]
          /\ GoesOn(c, "drive")
          /\ UNCHANGED <<status, stack, current>>

-----------------------------------------------------------------------------
(* Programs.                                                               *)

Invokes == Put("running", [cur EXCEPT !.phase = "working", !.restart = FALSE,
                             !.program = [id |-> version + 1, result |-> None]])

\* node_run_program.  A first run takes no intervention; another is asked for
\* by the Manager after a BLOCK.
RunsProgram ==
  /\ status \in {"running", "blocked"} /\ Kind[cur.node] = "program"
  /\ cur.phase \in {"ready", "working", "settling"}
  /\ ~(status = "running" /\ cur.program # None /\ cur.program.result = None)
  /\ IF cur.program = None THEN UNCHANGED used ELSE used < MaxCommands /\ used' = used + 1
  /\ Invokes /\ calls' = calls \cup {Call("cwd")}
  /\ UNCHANGED turns

\* As IsInvoked, when only the work order is compared.
IsAtWork(c) == current = c.exec /\ status = "running" /\ cur.phase = "working"

\* The invocation that a suspended handler arranged is that of the row.
IsInvoked(c) ==
  /\ StillAt(c) /\ status = "running"
  /\ cur.program # None /\ cur.program.id = c.at

ProgramStarts(c) ==
  /\ c.op = "cwd"
  /\ calls' = (calls \ {c}) \cup (IF IsInvoked(c) THEN {[c EXCEPT !.op = "run"]} ELSE {})
  /\ UNCHANGED <<rowVars, turns, used>>

\* As ProgramFaults, when the fault is only reported to the caller.
ProgramFaultsUnseen(c) ==
  /\ c.op \in {"cwd", "run"} /\ Goes(c)
  /\ UNCHANGED <<rowVars, turns, used>>

\* The directory, the Program, its result or the write of it fails.
ProgramFaults(c) ==
  /\ c.op \in {"cwd", "run"} /\ Goes(c)
  /\ IF IsInvoked(c) THEN blockRow(cur) ELSE UNCHANGED rowVars
  /\ UNCHANGED <<turns, used>>

ProgramErrs(c) ==
  /\ c.op = "run" /\ IsInvoked(c) /\ Goes(c)
  /\ blockRow([cur EXCEPT !.phase = "settling", !.program.result = "ERROR"])
  /\ UNCHANGED <<turns, used>>

\* A result is there, with a text of its own or none; the input is passed on then.
ProgramEnds(c, result, own) ==
  /\ c.op = "run" /\ IsInvoked(c)
  /\ advanceKnownResult([cur EXCEPT !.program.result = result], result,
                        IF own THEN [by |-> c.exec, inv |-> c.at] ELSE cur.input)
  /\ IF status' = "running" THEN GoesOn(c, "drive") ELSE Goes(c)
  /\ UNCHANGED <<turns, used>>

ResultIsStale(c) ==
  /\ c.op = "run" /\ ~IsInvoked(c)
  /\ Goes(c) /\ UNCHANGED <<rowVars, turns, used>>

-----------------------------------------------------------------------------
(* The Manager and the Host.                                               *)

Intervenes == used < MaxCommands /\ used' = used + 1

ResolvesProgram(result) ==
  /\ Intervenes /\ status = "blocked" /\ Kind[cur.node] = "program"
  /\ cur.program # None /\ cur.phase \in {"working", "settling"}
  /\ advanceKnownResult([cur EXCEPT !.program.result = result, !.restart = FALSE], result, cur.input)
  /\ calls' = IF status' = "running" THEN calls \cup {Call("drive")} ELSE calls
  /\ UNCHANGED turns

ManagerBlocks ==
  /\ Intervenes /\ status = "running" /\ blockRow(cur)
  /\ UNCHANGED <<calls, turns>>

\* As JudgeToRecover, when a caller is taken to have no Judge to wait for.
OwnJudgeToRecover ==
  IF cur.phase = "ready" /\ cur.pred # None /\ execs[cur.pred].judge # "none" THEN cur.pred ELSE None

\* A Judge that the restart cut short may be taken for settled, once its
\* verdict has made exactly this successor.
JudgeToRecover == IF cur.phase = "ready" /\ cur.pred # None THEN TransferJudge(cur.pred) ELSE None

MayResume ==
  JudgeToRecover # None /\ execs[JudgeToRecover].judge # "settled" =>
    cur.restart /\ execs[JudgeToRecover].phase = "exited" /\ execs[JudgeToRecover].succ = current

\* node_resume of a caller that has not entered its Child, or of a Role.
Resumes ==
  /\ Intervenes /\ status = "blocked" /\ MayResume
  /\ \/ Kind[cur.node] = "child" /\ cur.phase = "ready" /\ cur.child = None
     \/ Kind[cur.node] = "task" /\ cur.phase \in {"ready", "working"}
  /\ status' = "running" /\ version' = version + 1
  /\ execs' = [i \in DOMAIN execs |->
                 IF i = current THEN [cur EXCEPT !.phase = "ready", !.restart = FALSE]
                 ELSE IF i = JudgeToRecover THEN [execs[i] EXCEPT !.judge = "settled"]
                 ELSE execs[i]]
  /\ calls' = calls \cup {Call("drive")}
  /\ UNCHANGED <<stack, current, turns>>

Resets ==
  /\ Intervenes /\ status \in {"running", "blocked"}
  /\ Put("terminated", [cur EXCEPT !.restart = FALSE])
  /\ UNCHANGED <<calls, turns>>

\* workflow_set_role_model: of the row that is modelled here it writes nothing.
SetsRoleModel ==
  /\ Intervenes /\ status \in {"running", "blocked"} /\ Put(status, cur)
  /\ UNCHANGED <<calls, turns>>

\* Handlers, subprocesses and turns die with the Host; the row is reconciled.
Restarts ==
  /\ Intervenes /\ calls' = {} /\ turns' = {}
  /\ IF status \in {"running", "blocked"} /\ ~cur.restart
     THEN Put("blocked", [cur EXCEPT !.restart = TRUE]) ELSE UNCHANGED rowVars

Answered(c) ==
  \/ \E safe \in BOOLEAN : TransferSettles(c, safe)
  \/ ProgramStarts(c) \/ ProgramFaults(c) \/ ProgramErrs(c) \/ ResultIsStale(c)
  \/ \E result \in {"PASS", "FAIL"}, own \in BOOLEAN : ProgramEnds(c, result, own)

Commanded ==
  \/ RunsProgram \/ \E result \in {"PASS", "FAIL"} : ResolvesProgram(result)
  \/ ManagerBlocks \/ Resumes \/ SetsRoleModel \/ Resets

FollowsAtOnce(c) ==
  \/ DispatchesRole(c) \/ ReadiesProgram(c) \/ EntersChild(c)
  \/ \E fails \in BOOLEAN : Steers(c, fails)

\* From a write to the end of the drive that follows it the code awaits only
\* the store's queue and messages to the Manager, which are answered before
\* anything else comes in: no turn, command or result overtakes them.
NothingToFollow == \A c \in calls : c.op \notin {"drive", "steer"}

Next ==
  \/ \E c \in calls : FollowsAtOnce(c)
  \/ NothingToFollow /\ \E c \in calls : Answered(c)
  \/ NothingToFollow /\ \E name \in DOMAIN Target[cur.node] : TaskAccepted(name)
  \/ NothingToFollow /\ \E i \in turns : JudgeTurnEnds(i)
  \/ NothingToFollow /\ Commanded
  \/ Restarts

Spec == Init /\ [][Next]_vars

-----------------------------------------------------------------------------
(* Properties.                                                             *)

\* The call stack is the nesting of the workflows at work, and the history is
\* well bracketed: the callers at work are exactly the frames below the top;
\* a Child is entered with its first work order and left with its last, which
\* has reached the return that its caller maps to the next Node; work orders
\* are numbered in the order in which they came about.
CallsAreNested ==
  LET Ids       == DOMAIN execs
      AtWork(i) == execs[i].phase = "working" /\ execs[i].child # None
      Exit(i)   == LET r == execs[i].returned
                   IN  IF r.kind = "return" THEN r.name ELSE Target[execs[i].node][r.name]
  IN  /\ \A i \in Ids : execs[i].visit = i
      /\ status \in {"running", "blocked"} =>
           /\ Top = Frame(cur.node, current) /\ cur.phase # "exited"
           /\ {i \in Ids : AtWork(i)} = {stack[d].exec : d \in 1..(Len(stack) - 1)}
           /\ \A d \in 1..(Len(stack) - 1) :
                WorkflowOf[stack[d + 1].node] = Callee[stack[d].node]
      /\ status = "completed" => \A i \in Ids : execs[i].phase = "exited"
      /\ \A i \in Ids : execs[i].child # None =>
           execs[execs[i].child].node = StartNode[Callee[execs[i].node]]
      /\ \A i \in Ids : execs[i].terminal # None =>
           /\ execs[i].phase = "exited" /\ execs[i].child <= execs[i].terminal
           /\ WorkflowOf[execs[execs[i].terminal].node] = Callee[execs[i].node]
           /\ Exit(i) = Target[execs[i].node][Exit(execs[i].terminal)]
      /\ \A i \in Ids : execs[i].pred # None =>
           execs[i].node = Exit(execs[i].pred)

\* A text is passed on as it was written: the first Node of a Child is given
\* its caller's input, a successor what the work order before it handed on, a
\* caller what its Child ended with.  What a Program hands on was written by
\* the invocation that its row names last, never by one that a BLOCK, a
\* restart or another invocation has overtaken; or it is its own input.
HandoffsAreTraced ==
  \A i \in DOMAIN execs :
    LET e == execs[i]
    IN  /\ e.child # None => execs[e.child].input = e.input
        /\ e.pred # None => e.input = execs[e.pred].text
        /\ e.phase = "exited" =>
             CASE Kind[e.node] = "child"   -> e.text = execs[e.terminal].text
               [] Kind[e.node] = "program" -> e.text \in {e.input, [by |-> i, inv |-> e.program.id]}
               [] OTHER                    -> e.text.by = i

\* A Role is sent its work only after the Judge whose ACCEPT led to it, be it
\* several returns away, has ended its turn and is settled.
RolesWaitForJudges ==
  [][ \A i \in DOMAIN execs :
        /\ Kind[execs[i].node] = "task" /\ execs[i].pred # None
        /\ execs[i].phase = "ready" /\ execs'[i].phase = "working"
        => LET j == TransferJudge(execs[i].pred)
           IN  j # None => execs'[j].judge = "settled" /\ j \notin turns'
    ]_vars

\* Whatever lies between: no Role is sent work while any Judge that accepted is
\* still in its turn ("the successor is dispatched by the exact settlement of
\* the Judge's turn", CONTEXT.md:140).  node_run_program does not ask whether
\* what precedes the Program has settled.
WorkWaitsForJudges ==
  [][ \A i \in DOMAIN execs :
        Kind[execs[i].node] = "task" /\ execs[i].phase = "ready" /\ execs'[i].phase = "working"
        => turns' = {}
    ]_vars

\* A Program that the row says is running is awaited by the handler that will
\* take its result, unless the row was written since it was arranged: then the
\* result is ignored, and only a BLOCK leads on.
ProgramIsAwaited ==
  status = "running" /\ Kind[cur.node] = "program" /\ cur.phase = "working"
  /\ cur.program.id = version
    => \E c \in calls : c.op \in {"cwd", "run"} /\ c.at = version /\ c.exec = current
=============================================================================
