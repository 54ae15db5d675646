----------------------------- MODULE MCRuntime -----------------------------
(* Workflow definitions for the runs of Runtime. *)
EXTENDS Runtime

CONSTANTS n1, n2, worker, ok, again, return

\* One Node.
OneTarget == [n \in {n1} |-> [r \in {ok} |-> return]]
OneRole   == [n \in {n1} |-> worker]

\* Two Nodes in sequence, worked on by the same Role.
ChainTarget == [n \in {n1, n2} |-> [r \in {ok} |-> IF n = n1 THEN n2 ELSE return]]
ChainRole   == [n \in {n1, n2} |-> worker]

\* A Role's Node and then the Manager's, which may send the Run back.
LoopTarget == [n \in {n1, n2} |-> [r \in {ok, again} |->
                 IF r = again THEN n1 ELSE IF n = n1 THEN n2 ELSE return]]
LoopRole   == [n \in {n1, n2} |-> IF n = n1 THEN worker ELSE Manager]
=============================================================================
