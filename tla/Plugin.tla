------------------------------- MODULE Plugin -------------------------------
(***************************************************************************)
(* The parts of the plugin that stand between the Host and the engine:     *)
(* DispatchLifecycle, HostCalls, ParticipantIndex and PresetBook.  They    *)
(* share no state, so each behaviour exercises one of them; the index is   *)
(* explored for its two questions separately.                              *)
(***************************************************************************)
EXTENDS DispatchLifecycle, HostCalls, ParticipantIndex, PresetBook

VARIABLE part

pluginVars == <<part, lifecycleVars, callVars, indexVars, bookVars>>

Parts == {"dispatches", "calls", "turns", "inspection", "presets"}

Init ==
  /\ part \in Parts
  /\ LifecycleInit /\ CallsInit /\ IndexInit /\ BookInit

Next ==
  \/ /\ part = "dispatches" /\ LifecycleNext
     /\ UNCHANGED <<part, callVars, indexVars, bookVars>>
  \/ /\ part = "calls" /\ CallsNext
     /\ UNCHANGED <<part, lifecycleVars, indexVars, bookVars>>
  \/ /\ part = "turns" /\ ResolveNext
     /\ UNCHANGED <<part, lifecycleVars, callVars, bookVars>>
  \/ /\ part = "inspection" /\ InspectNext
     /\ UNCHANGED <<part, lifecycleVars, callVars, bookVars>>
  \/ /\ part = "presets" /\ BookNext
     /\ UNCHANGED <<part, lifecycleVars, callVars, indexVars>>

Spec == Init /\ [][Next]_pluginVars

=============================================================================
