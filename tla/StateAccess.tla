---------------------------- MODULE StateAccess ----------------------------
(***************************************************************************)
(* The store holder of the plugin: StateAccess of src/state/store.ts.  The *)
(* operations of StateStore are there when the store is open; until then   *)
(* there is the cutover.  A store that a cutover opens is the empty one    *)
(* that a workspace without a store starts with, so its use is explored    *)
(* from there.                                                             *)
(***************************************************************************)
EXTENDS StateStore, StoreCutover

vars == <<storeVars, cutoverVars>>

Init ==
  /\ CutoverInit
  /\ StoreInit
  /\ open = (diag = "none")

Next ==
  \/ kind = "none" /\ StoreNext /\ UNCHANGED cutoverVars
  \/ /\ CutoverNext /\ open' = (diag' = "none")
     /\ UNCHANGED <<runs, execs, log, row, seen, page>>

Spec == Init /\ [][Next]_vars

=============================================================================
