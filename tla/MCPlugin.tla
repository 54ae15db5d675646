------------------------------ MODULE MCPlugin ------------------------------
(* A Role's session, its child and a grandchild, for the runs of Plugin. *)
EXTENDS Plugin

CONSTANTS role, child, grandchild

ParentDef == [s \in {role, child, grandchild} |->
                IF s = role THEN NoOne ELSE IF s = child THEN role ELSE child]
\* The sessions dispatches are sent to are interchangeable.
SessionSymmetry == Permutations(Sessions)
=============================================================================
