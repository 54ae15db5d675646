------------------------------- MODULE Editor -------------------------------
(***************************************************************************)
(* The workflow editor.  Its two questions share no state, and a behaviour *)
(* explores one of them: whether the page edits a draft as draft.ts does   *)
(* (EditorEdits), and what the page shows and writes while its callbacks   *)
(* overlap (EditorPanel).                                                  *)
(***************************************************************************)
EXTENDS EditorEdits, EditorPanel

VARIABLE part

editorVars == <<part, editVars, panelVars>>

EditsIdle == host = None /\ page = None /\ agree = TRUE /\ family = "none" /\ edits = 0
PanelIdle ==
  /\ disk = <<>> /\ dir = None /\ st = Blank({}) /\ jobs = {} /\ previews = {} /\ restore = "over"
  /\ home = None /\ history = "fresh" /\ overlapped = FALSE /\ acts = 0

Init ==
  \/ part = "edits" /\ EditsInit /\ PanelIdle
  \/ part = "page" /\ PanelInit /\ EditsIdle

Next ==
  \/ part = "edits" /\ EditsNext /\ UNCHANGED <<part, panelVars>>
  \/ part = "page" /\ PanelNext /\ UNCHANGED <<part, editVars>>

Spec == Init /\ [][Next]_editorVars
=============================================================================
