---------------------------- MODULE StoreCutover ----------------------------
(***************************************************************************)
(* Opening the store, and the cutover of an incompatible one:              *)
(* src/state/store.ts, StateAccess and StateStore.probe.                   *)
(*                                                                         *)
(* The database is two files that belong together, the main file and its   *)
(* write-ahead log (the -shm file holds no data).  Each step of a cutover  *)
(* may throw, and the process may die after each.  One operation on a file *)
(* (rename, rm, SQLite's backup) happens or does not.                      *)
(***************************************************************************)
EXTENDS Naturals, Sequences

CONSTANTS
  MaxFaults        \* bound: steps that throw and deaths of the process

ASSUME CutoverAssumption == MaxFaults \in Nat

Files == {"main", "wal"}

VARIABLES
  kind,      \* what was wrong with the old store; "none": there was no store
  had,       \* the files of the old store
  place,     \* place[f]: what is at the store's path: old, half, new or none
  archive,   \* the archive directories in order: the old files in each
  backup,    \* a complete backup of the old store exists
  step,      \* what the cutover at work does next; "idle" when there is none
  moved,     \* the files it has moved, in order
  diag,      \* StateAccess.diagnostic; "none" when the store is open
  stuck,     \* undoing a cutover failed in its turn, or the process died in one
  torn,      \* the log was dropped because the main file was not there
  faults

cutoverVars == <<kind, had, place, archive, backup, step, moved, diag, stuck, torn, faults>>

Fault == faults < MaxFaults /\ faults' = faults + 1
Newest == Len(archive)

CutoverInit ==
  /\ kind \in {"none", "incompatible", "corrupt"}
  /\ had \in IF kind = "none" THEN {{}} ELSE {{"main"}, Files}
  /\ place = [f \in Files |-> IF kind = "none" THEN "new" ELSE IF f \in had THEN "old" ELSE "none"]
  /\ archive = <<>> /\ backup = FALSE
  /\ step = "idle" /\ moved = <<>> /\ diag = kind
  /\ stuck = FALSE /\ torn = FALSE /\ faults = 0

\* archiveIncompatible is called, and refused when the store is open.  Only a
\* store that can be read is backed up.
Starts ==
  /\ diag # "none" /\ step = "idle"
  /\ step' = IF diag = "incompatible" THEN "backup" ELSE "archive"
  /\ UNCHANGED <<kind, had, place, archive, backup, moved, diag, stuck, torn, faults>>

BacksUp ==
  /\ step = "backup" /\ place.main # "none"
  /\ backup' = (backup \/ place.main = "old") /\ step' = "archive"
  /\ UNCHANGED <<kind, had, place, archive, moved, diag, stuck, torn, faults>>

\* What a failed backup has written is removed; it had a name of its own.
BackupFails ==
  /\ step = "backup"
  /\ IF place.main = "none" THEN UNCHANGED faults ELSE Fault
  /\ step' = "idle"
  /\ UNCHANGED <<kind, had, place, archive, backup, moved, diag, stuck, torn>>

MakesArchive ==
  /\ step = "archive" /\ step' = "move"
  /\ archive' = Append(archive, {}) /\ moved' = <<>>
  /\ UNCHANGED <<kind, had, place, backup, diag, stuck, torn, faults>>

ToMoveMain == {f \in {"main"} : place[f] # "none"}
\* The files that are there.
ToMove == {f \in Files : place[f] # "none"}

\* The main file goes first.
Moves(f) ==
  /\ step = "move" /\ f \in ToMove /\ (f = "wal" => "main" \notin ToMove)
  /\ place' = [place EXCEPT ![f] = "none"]
  /\ archive' = [archive EXCEPT ![Newest] = IF place[f] = "old" THEN @ \cup {f} ELSE @]
  /\ moved' = Append(moved, [file |-> f, was |-> place[f]])
  /\ UNCHANGED <<kind, had, backup, step, diag, stuck, torn, faults>>

MoveFails ==
  /\ step = "move" /\ ToMove # {} /\ Fault
  /\ step' = "restore"
  /\ UNCHANGED <<kind, had, place, archive, backup, moved, diag, stuck, torn>>

\* openStore creates the new files; where it throws it may have created some.
Opens ==
  /\ step = "move" /\ ToMove = {}
  /\ place' = [f \in Files |-> "new"]
  /\ diag' = "none" /\ step' = "idle" /\ moved' = <<>>
  /\ UNCHANGED <<kind, had, archive, backup, stuck, torn, faults>>

OpenFails(made) ==
  /\ step = "move" /\ ToMove = {} /\ Fault
  /\ place' = [f \in Files |-> IF f \in made THEN "half" ELSE "none"]
  /\ step' = "discard"
  /\ UNCHANGED <<kind, had, archive, backup, moved, diag, stuck, torn>>

HalfMadeStays == place
HalfMadeRemoved == [f \in Files |-> "none"]

Discards ==
  /\ step = "discard"
  /\ place' = HalfMadeRemoved
  /\ step' = "restore"
  /\ UNCHANGED <<kind, had, archive, backup, moved, diag, stuck, torn, faults>>

\* restore moves the files back, the last one first.
RestoresFile ==
  /\ step = "restore" /\ moved # <<>>
  /\ LET m == moved[Len(moved)]
     IN  /\ place' = [place EXCEPT ![m.file] = m.was]
         /\ archive' = [archive EXCEPT ![Newest] = @ \ {m.file}]
  /\ moved' = SubSeq(moved, 1, Len(moved) - 1)
  /\ UNCHANGED <<kind, had, backup, step, diag, stuck, torn, faults>>

MayRemoveEarly == step = "restore"
\* The archive is removed when every file is back.
MayRemove == step = "restore" /\ moved = <<>>

RemovesArchive ==
  /\ MayRemove
  /\ archive' = [archive EXCEPT ![Newest] = {}]
  /\ step' = "idle" /\ moved' = <<>>
  /\ UNCHANGED <<kind, had, place, backup, diag, stuck, torn, faults>>

\* Undoing throws in its turn, and nothing undoes that.
UndoFails ==
  /\ step \in {"discard", "restore"} /\ Fault
  /\ step' = "idle" /\ moved' = <<>> /\ stuck' = TRUE
  /\ UNCHANGED <<kind, had, place, archive, backup, diag, torn>>

\* The process dies and starts again: probe, then new StateStore.  SQLite
\* drops a write-ahead log that has no main file.  A half-made main file is
\* taken for an incompatible store unless its tables were committed.
ProcessRestarts ==
  /\ diag # "none" /\ Fault
  /\ step' = "idle" /\ moved' = <<>> /\ stuck' = (stuck \/ step # "idle")
  /\ torn' = (torn \/ (place.main = "none" /\ place.wal = "old"))
  /\ \/ /\ place.main \in {"none", "half"}
        /\ place' = [f \in Files |-> "new"] /\ diag' = "none"
     \/ /\ place.main = "half" /\ diag' = "incompatible" /\ UNCHANGED place
     \/ /\ place.main = "old" /\ diag' = kind /\ UNCHANGED place
  /\ UNCHANGED <<kind, had, archive, backup>>

CutoverNext ==
  \/ Starts \/ BacksUp \/ BackupFails \/ MakesArchive
  \/ \E f \in Files : Moves(f)
  \/ MoveFails \/ Opens \/ \E made \in SUBSET Files : OpenFails(made)
  \/ Discards \/ RestoresFile \/ RemovesArchive \/ UndoFails \/ ProcessRestarts

-----------------------------------------------------------------------------
(* Properties.                                                             *)

Kept(f) == place[f] = "old" \/ \E i \in DOMAIN archive : f \in archive[i]

\* Whatever fails, and wherever the process dies, the old data is somewhere:
\* at its place, in an archive, or in a complete backup.  Only the log of a
\* store that could not be read, and so not backed up, is lost if the process
\* dies after its main file was moved and before the log was.
OldDataIsKept == (\A f \in had : Kept(f)) \/ backup \/ (kind = "corrupt" /\ torn)

\* A cutover that reports a failure has left the old store as it was, with
\* nothing of the new one beside it, unless undoing it failed as well.
FailureRestores ==
  diag # "none" /\ step = "idle" /\ ~stuck
    => \A f \in Files : place[f] = IF f \in had THEN "old" ELSE "none"

\* A store that is open after a cutover is a new one, and the old files are
\* together in one archive.
OpenIsNew ==
  diag = "none" => /\ \A f \in Files : place[f] = "new"
                   /\ stuck \/ kind = "none" \/ \E i \in DOMAIN archive : archive[i] = had

=============================================================================
