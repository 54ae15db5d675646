----------------------------- MODULE StateStore -----------------------------
(***************************************************************************)
(* The state store of one workspace: src/state/store.ts, class StateStore. *)
(*                                                                         *)
(* A call detaches what its caller composed, waits in the queue of the one *)
(* connection, and runs as a transaction that commits or throws.  What it  *)
(* composed depends only on what the caller had read, so the call is one   *)
(* step, taken when its turn comes: the time between is part of the time   *)
(* since the read.  Callers are taken to be any callers: the promises of   *)
(* the store must not rest on how the engine behaves.                      *)
(*                                                                         *)
(* A run is its index in "runs" (AUTOINCREMENT); the status "running"      *)
(* stands for "blocked" as well, which the store treats alike.  What an    *)
(* execution holds besides its phase and the receipt of its Judge is the   *)
(* number "data".                                                          *)
(***************************************************************************)
EXTENDS Naturals, Sequences, FiniteSets, SequencesExt

CONSTANTS
  Callers,
  Executions,      \* executionIds
  None,
  MaxRuns,         \* bound: runs of the workspace
  MaxVersion,      \* bound: versions of a run
  MaxRevision,     \* bound: revisions of an execution
  PageLimit        \* the limit a reader of events asks for

\* What a row of node_executions may hold.
ExecutionRows ==
  [run : Nat, rev : Nat, phase : {"ready", "exited"}, settled : BOOLEAN, data : {0, 1}]

ASSUME StoreAssumption ==
  /\ None \notin Executions /\ None \notin ExecutionRows
  /\ Executions \subseteq Nat
  /\ MaxRuns \in Nat /\ MaxVersion \in Nat /\ MaxRevision \in Nat
  /\ PageLimit \in Nat \ {0}

VARIABLES
  runs,      \* table runs: the workspace's rows in order of sequence
  execs,     \* table node_executions: executionId |-> row
  log,       \* table node_execution_events: executionId |-> snapshots in order
  row,       \* row[c]: the StateRow that c read last
  seen,      \* seen[c]: the executions c has read, as they were
  page,      \* what a reader of events has been given so far
  open       \* the store is open

storeVars == <<runs, execs, log, row, seen, page, open>>

Ended(status) == status \in {"completed", "terminated"}
Latest == Len(runs)
RowOf(t, r) ==
  [run |-> r, ver |-> t.runs[r].ver, status |-> t.runs[r].status, cur |-> t.runs[r].cur]
Known == {id \in Executions : execs[id] # None}

\* The part of checkStateInvariants that ties a run to its execution.
Consistent(status, e) ==
  /\ status = "completed" => e.phase = "exited"
  /\ status = "running" => e.phase # "exited"

NewExecution(r) == [run |-> r, rev |-> 0, phase |-> "ready", settled |-> FALSE, data |-> 0]

StoreInit ==
  /\ runs = <<>>
  /\ execs = [id \in Executions |-> None] /\ log = [id \in Executions |-> <<>>]
  /\ row = [c \in Callers |-> None] /\ seen = [c \in Callers |-> <<>>]
  /\ page = <<>> /\ open \in BOOLEAN

-----------------------------------------------------------------------------
(* The transaction.  A table state is [runs, execs, log]; a statement that *)
(* throws makes it None, and the transaction rolls back.               *)

Tables == [runs |-> runs, execs |-> execs, log |-> log]
Failed(t) == t = None

EventRevisionUnsaved(rev) == rev
\* The snapshot of an event is the row as it is saved, revision and all.
EventRevision(rev) == rev + 1

AnyChangeOfExited(e, change) == TRUE
\* What may still happen to an execution that has exited: its Judge settles.
OnlySettles(e, change) ==
  change.exec = [e EXCEPT !.settled = TRUE] /\ ~change.logged

\* writeExecution: insert (expected = None) or update with a compare-and-swap
\* on the revision, then the events.
WriteExecution(t, run, change) ==
  LET id    == change.id
      e     == IF t.execs[id] # None /\ t.execs[id].run = run THEN t.execs[id] ELSE None
      legal == IF change.expected = None
               THEN t.execs[id] = None /\ change.exec.rev = 0 /\ change.logged
               ELSE /\ e # None /\ e.rev = change.expected /\ change.exec.rev = change.expected
                    /\ e.phase = "exited" => OnlySettles(e, change)
                    /\ change.exec.run = e.run
      saved == [change.exec EXCEPT !.rev = @ + 1]
  IN  IF ~legal THEN None
      ELSE [t EXCEPT !.execs[id] = saved,
                     !.log[id] = IF change.logged
                                 THEN Append(@, [saved EXCEPT !.rev = EventRevision(change.exec.rev)])
                                 ELSE @]

\* The writes of a transaction in order, until one throws.
WriteAll(t, run, changes) ==
  LET written[n \in 0..Len(changes)] ==
        IF n = 0 THEN t
        ELSE IF Failed(written[n - 1]) THEN None ELSE WriteExecution(written[n - 1], run, changes[n])
  IN  written[Len(changes)]

AnyVersion(t, op) == TRUE
\* The version is that of the latest run, and of the run the UPDATE finds.
VersionCurrent(t, op) ==
  t.runs[Len(t.runs)].ver = op.base.ver /\ t.runs[op.base.run].ver = op.base.ver

AnyRun(t, op) == op.base.run \in DOMAIN t.runs
\* runId and the other facts that were frozen at the start are immutable.
SameRun(t, op) == op.base.run = Len(t.runs)

CreateRow(t, op) ==
  LET r == Len(t.runs) + 1
  IN  IF ~(t.runs = <<>> \/ Ended(t.runs[Len(t.runs)].status)) THEN None
      ELSE WriteAll([t EXCEPT !.runs = Append(@, [ver |-> 1, status |-> "running", cur |-> op.cur])],
                    r, <<[id |-> op.cur, expected |-> None, exec |-> NewExecution(r), logged |-> TRUE]>>)

UpdateRow(t, op) ==
  IF \/ t.runs = <<>> \/ ~VersionCurrent(t, op) \/ ~SameRun(t, op)
     \/ Ended(t.runs[Len(t.runs)].status)
     \/ Cardinality({op.changes[i].id : i \in DOMAIN op.changes}) # Len(op.changes)
  THEN None
  ELSE LET written == WriteAll(t, op.base.run, op.changes)
       IN  IF Failed(written) THEN None
           ELSE LET e == written.execs[op.cur]
                IN  IF e = None THEN None
                    ELSE IF e.run # op.base.run \/ ~Consistent(op.status, e) THEN None
                    ELSE [written EXCEPT !.runs[op.base.run] =
                            [ver |-> op.base.ver + 1, status |-> op.status, cur |-> op.cur]]

NothingRolledBack(t, op) ==
  IF op.changes # <<>> /\ ~Failed(WriteExecution(t, op.base.run, Head(op.changes)))
  THEN WriteExecution(t, op.base.run, Head(op.changes)) ELSE t
\* ROLLBACK: what the statements before the one that threw had written is gone.
RolledBack(t, op) == t

\* enqueue: BEGIN, the statements, and COMMIT or ROLLBACK.  The caller gets the
\* row that was committed, or the error.
Transact(op, result) ==
  LET after == IF Failed(result) THEN RolledBack(Tables, op) ELSE result
      r     == IF op.kind = "create" THEN Len(after.runs) ELSE op.base.run
  IN  /\ open
      /\ runs' = after.runs /\ execs' = after.execs /\ log' = after.log
      /\ IF Failed(result) THEN UNCHANGED <<row, seen>>
         ELSE /\ row' = [row EXCEPT ![op.caller] = RowOf(after, r)]
              /\ seen' = [seen EXCEPT ![op.caller] = [id \in {op.cur} |-> after.execs[id]]]
      /\ UNCHANGED <<page, open>>

-----------------------------------------------------------------------------
(* Callers.                                                                *)

\* A new executionId is a UUID: one that nothing knows yet.
IsNew(id) == id \in Executions \ Known /\ \A other \in Executions \ Known : id <= other

\* get, with the current execution; and execution, of any other.
Get(c) ==
  /\ open /\ Latest > 0
  /\ row' = [row EXCEPT ![c] = RowOf(Tables, Latest)]
  /\ seen' = [seen EXCEPT ![c] = [id \in {runs[Latest].cur} |-> execs[id]]]
  /\ UNCHANGED <<runs, execs, log, page, open>>

ReadExecution(c, id) ==
  /\ open /\ row[c] # None
  /\ execs[id] # None /\ id \notin DOMAIN seen[c]
  /\ seen' = [seen EXCEPT ![c] = [i \in DOMAIN seen[c] \cup {id} |->
                                    IF i = id THEN execs[id] ELSE seen[c][i]]]
  /\ UNCHANGED <<runs, execs, log, row, page, open>>

Create(c, id) ==
  /\ Latest < MaxRuns /\ IsNew(id)
  /\ LET op == [kind |-> "create", caller |-> c, cur |-> id, changes |-> <<>>]
     IN  Transact(op, CreateRow(Tables, op))

\* What a caller makes of an execution it has read, and whether with an event.
Edits(e) ==
  {<<[e EXCEPT !.data = 1 - @], logged>> : logged \in BOOLEAN}
    \cup {<<[e EXCEPT !.phase = "exited"], TRUE>>}
    \cup {<<[e EXCEPT !.settled = TRUE], logged>> : logged \in BOOLEAN}
Change(c, id, edit) ==
  [id |-> id, expected |-> seen[c][id].rev, exec |-> edit[1], logged |-> edit[2]]
Entered(c, id) ==
  [id |-> id, expected |-> None, exec |-> NewExecution(row[c].run), logged |-> TRUE]

\* updateRow: any status, and changes of what was read: none, one, or one with
\* an event and that of another execution or the entry of a new one.
Update(c, status, cur, changes) ==
  /\ row[c].ver < MaxVersion
  /\ \A i \in DOMAIN changes : changes[i].exec.rev < MaxRevision
  /\ LET op == [kind |-> "update", caller |-> c, base |-> row[c], status |-> status,
                cur |-> cur, changes |-> changes]
     IN  Transact(op, UpdateRow(Tables, op))

Updates(c) ==
  /\ row[c] # None
  /\ \/ \E status \in {"running", "completed", "terminated"} :
          \/ Update(c, status, row[c].cur, <<>>)
          \/ \E id \in DOMAIN seen[c] : \E edit \in Edits(seen[c][id]) :
               Update(c, status, row[c].cur, <<Change(c, id, edit)>>)
     \/ \E id \in DOMAIN seen[c] : \E edit \in Edits(seen[c][id]) :
          /\ edit[2]
          /\ \/ \E new \in Executions :
                  IsNew(new) /\ Update(c, "running", new, <<Change(c, id, edit), Entered(c, new)>>)
             \/ \E id2 \in DOMAIN seen[c] : \E edit2 \in Edits(seen[c][id2]) :
                  ~edit2[2] /\ Update(c, "running", row[c].cur, <<Change(c, id, edit), Change(c, id2, edit2)>>)

AfterOrAt(sequence, after) == sequence >= after
\* The cursor is exclusive: the next page starts behind the last sequence.
After(sequence, after) == sequence > after

\* events(execution, after, limit), called by a reader page by page; it goes
\* on from the last sequence it was given.
ReadPage(id) ==
  /\ open /\ \A i \in DOMAIN page : page[i].id = id
  /\ execs[id] # None
  /\ LET after == IF page = <<>> THEN 0 ELSE page[Len(page)].sequence
         rest  == {i \in DOMAIN log[id] : After(i, after)}
         first == CHOOSE i \in rest : \A k \in rest : i <= k
         count == IF Cardinality(rest) < PageLimit THEN Cardinality(rest) ELSE PageLimit
     IN  /\ rest # {} /\ Len(page) < MaxRevision
         /\ page' = page \o [k \in 1..count |-> [id |-> id, sequence |-> first + k - 1]]
  /\ UNCHANGED <<runs, execs, log, row, seen, open>>

StoreNext ==
  \/ \E c \in Callers :
       \/ Get(c) \/ Updates(c)
       \/ \E id \in Executions : ReadExecution(c, id) \/ Create(c, id)
  \/ \E id \in Executions : ReadPage(id)

-----------------------------------------------------------------------------
(* Properties.                                                             *)

\* A run advances only by an update that was composed from exactly the row it
\* replaces: no update is lost, though callers hold rows of several versions
\* and of several runs, whose versions all start at 1.
NoLostUpdate ==
  [][ \A r \in DOMAIN runs :
        runs'[r] # runs[r] =>
          /\ runs'[r].ver = runs[r].ver + 1
          /\ \E c \in Callers : row[c] = RowOf(Tables, r) /\ row'[c].ver = runs'[r].ver
    ]_storeVars

\* What has ended stays.  A run that completed or was terminated, or that another
\* run of its workspace has followed, and everything it recorded are never
\* touched again; of an execution that was left only the Judge may still settle,
\* and its events are complete.
WhatEndedStays ==
  [][ /\ \A r \in DOMAIN runs :
           Ended(runs[r].status) \/ r < Len(runs)
             => /\ runs'[r] = runs[r]
                /\ \A id \in Known : execs[id].run = r =>
                     execs'[id] = execs[id] /\ log'[id] = log[id]
      /\ \A id \in Known : execs[id].phase = "exited" =>
           /\ log'[id] = log[id]
           /\ [execs'[id] EXCEPT !.rev = 0] \in
                {[execs[id] EXCEPT !.rev = 0], [execs[id] EXCEPT !.rev = 0, !.settled = TRUE]}
    ]_storeVars

\* All or nothing: an execution or an event is written only together with the
\* run it belongs to, which then names an execution it is consistent with.
WritesAreWhole ==
  [][ /\ (\E id \in Executions : execs'[id] # execs[id] \/ log'[id] # log[id]) => runs' # runs
      /\ runs' # runs => LET r == runs'[Len(runs')]
                         IN  execs'[r.cur] # None /\ Consistent(r.status, execs'[r.cur])
    ]_storeVars

\* The events of an execution can always be read back: they begin with the
\* first revision, each is of a later one than the event before it, and none
\* is of a revision that the execution has not reached.
LogIsReadable ==
  \A id \in Known :
    /\ log[id] # <<>> /\ log[id][1].rev = 1
    /\ \A i \in DOMAIN log[id] :
         /\ log[id][i].rev <= execs[id].rev /\ log[id][i].run = execs[id].run
         /\ i > 1 => log[id][i].rev > log[id][i - 1].rev

\* A reader that asks page by page while others write gets every event once.
PagesAreGapless == \A i \in DOMAIN page : page[i].sequence = i

=============================================================================
