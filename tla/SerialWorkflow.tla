--------------------------- MODULE SerialWorkflow ---------------------------
(***************************************************************************)
(* What a Run promises, without sessions, versions, Judges that are retried *)
(* or handlers that overlap: one work order at a time, left only by an      *)
(* accepted result, along an edge of the frozen definition (CONTEXT.md;     *)
(* src/types.ts RunState and NodeExecution).  Runtime implements it.        *)
(***************************************************************************)
EXTENDS Naturals, Sequences

CONSTANTS Nodes, StartNode, Results, Target, Return, None

VARIABLES
  status,   \* running, blocked, completed or terminated
  at,       \* the Node of the current work order
  step,     \* open, dispatched, claimed, closed, or exited
  result,   \* the result claimed for it
  trail,    \* the work orders that were left: [node, result]
  linger    \* the Judge that accepted the last of them is still open

vars == <<status, at, step, result, trail, linger>>

Live == status \in {"running", "blocked"}

Init ==
  /\ status = "running" /\ at = StartNode /\ step = "open"
  /\ result = None /\ trail = <<>> /\ linger = FALSE

\* The work order is given to its Role: never while the Judge that let the
\* previous one go is at work.
Dispatch ==
  /\ status = "running" /\ step = "open" /\ ~linger
  /\ step' = "dispatched"
  /\ UNCHANGED <<status, at, result, trail, linger>>

Claim(r) ==
  /\ status = "running" /\ step = "dispatched"
  /\ step' = "claimed" /\ result' = r
  /\ UNCHANGED <<status, at, trail, linger>>

\* The Role is done with what it claimed, or the Manager takes over.
Close ==
  /\ Live /\ step = "claimed"
  /\ step' = "closed" /\ status' = "running"
  /\ UNCHANGED <<at, result, trail, linger>>

\* Back to the Role while the Run is running: a REJECT, or another route.
Redo ==
  /\ status = "running" /\ step \in {"dispatched", "closed"}
  /\ step' = "open" /\ result' = None
  /\ UNCHANGED <<status, at, trail, linger>>

\* Back to the Role by the Manager, who after a restart may also confirm that
\* the last Judge is gone.
Resume ==
  /\ status = "blocked" /\ step # "exited"
  /\ status' = "running" /\ step' = "open" /\ result' = None /\ linger' = FALSE
  /\ UNCHANGED <<at, trail>>

Accept ==
  LET to == Target[at][result]
  IN  /\ status = "running" /\ step = "closed"
      /\ IF to = Return
         THEN /\ status' = "completed" /\ step' = "exited"
              /\ UNCHANGED <<at, result, trail, linger>>
         ELSE /\ trail' = Append(trail, [node |-> at, result |-> result])
              /\ at' = to /\ step' = "open" /\ result' = None /\ linger' = TRUE
              /\ UNCHANGED status

\* The last Judge has closed.
Settle ==
  /\ status = "running" /\ step = "open" /\ linger
  /\ linger' = FALSE
  /\ UNCHANGED <<status, at, step, result, trail>>

Suspend ==
  /\ Live /\ status' = "blocked"
  /\ UNCHANGED <<at, step, result, trail, linger>>

\* Judged again, or judged at last, from where it stands.
Continue ==
  /\ Live /\ step = "closed" /\ status' = "running"
  /\ UNCHANGED <<at, step, result, trail, linger>>

Terminate ==
  /\ Live /\ status' = "terminated"
  /\ UNCHANGED <<at, step, result, trail, linger>>

Next ==
  \/ Dispatch \/ Close \/ Redo \/ Resume \/ Accept \/ Settle
  \/ \E r \in Results : Claim(r)
  \/ Suspend \/ Continue \/ Terminate

Spec == Init /\ [][Next]_vars

-----------------------------------------------------------------------------
\* The trail is a path of the definition that leads to the current Node.
Follows(e, n) == Target[e.node][e.result] = n

TrailIsAPath ==
  /\ \A i \in DOMAIN trail :
       Follows(trail[i], IF i = Len(trail) THEN at ELSE trail[i + 1].node)
  /\ trail # <<>> => trail[1].node = StartNode
  /\ status = "completed" => step = "exited" /\ Target[at][result] = Return

=============================================================================
