------------------------- MODULE StateAccessProofs --------------------------
(***************************************************************************)
(* The store in use, for any callers, whatever they have read and however  *)
(* late they come with what they made of it: no update is lost, what ended *)
(* stays, a write is all or nothing, and the events of an execution can be *)
(* read back.  What a transaction may do to the tables is stated once, of  *)
(* one write (Extends), and kept by every further one.                     *)
(*                                                                         *)
(* And the cutover of an incompatible or corrupt store, for any number of  *)
(* steps that throw and of deaths of the process: what was there is kept,  *)
(* a cutover that fails puts it back, and one that succeeds has archived   *)
(* it whole.  Each of the two leaves the variables of the other alone.     *)
(***************************************************************************)
EXTENDS StateAccess, SequenceTheorems, FiniteSetTheorems, TLAPS

-----------------------------------------------------------------------------
(* The store in use.                                                       *)

RunRows == [ver : Nat, status : {"running", "completed", "terminated"}, cur : Executions]
TableStates ==
  [runs : Seq(RunRows), execs : [Executions -> ExecutionRows \cup {None}],
   log : [Executions -> Seq(ExecutionRows)]]
Changes ==
  [id : Executions, expected : Nat \cup {None}, exec : ExecutionRows, logged : BOOLEAN]

\* The events l of the execution e are readable.
Readable(e, l) ==
  /\ l # <<>> /\ l[1].rev = 1
  /\ \A i \in DOMAIN l : l[i].rev <= e.rev /\ l[i].run = e.run
  /\ \A i \in DOMAIN l : i > 1 => l[i].rev > l[i - 1].rev

Sound(t) ==
  /\ t \in TableStates
  /\ \A id \in Executions : IF t.execs[id] = None THEN t.log[id] = <<>>
                                                  ELSE Readable(t.execs[id], t.log[id])

OnlySettled(e, f) == [f EXCEPT !.rev = 0] \in {[e EXCEPT !.rev = 0], [e EXCEPT !.rev = 0, !.settled = TRUE]}

\* What writes for a run may make of the tables t.
Extends(t, u, run) ==
  \A id \in Executions :
    \/ u.execs[id] = t.execs[id] /\ u.log[id] = t.log[id]
    \/ t.execs[id] = None /\ u.execs[id] # None
    \/ /\ t.execs[id] # None /\ t.execs[id].run = run
       /\ u.execs[id] # None /\ u.execs[id].run = run
       /\ t.execs[id].phase = "exited" =>
            u.execs[id].phase = "exited" /\ u.log[id] = t.log[id]
            /\ OnlySettled(t.execs[id], u.execs[id])

LEMMA RowFields ==
  ASSUME NEW e \in ExecutionRows
  PROVE  /\ e.run \in Nat /\ e.rev \in Nat /\ e.phase \in {"ready", "exited"}
         /\ e.settled \in BOOLEAN /\ e.data \in {0, 1} /\ e # None
         /\ [e EXCEPT !.rev = @ + 1] \in ExecutionRows
         /\ [e EXCEPT !.rev = @ + 1].rev = e.rev + 1 /\ [e EXCEPT !.rev = @ + 1].run = e.run
         /\ [e EXCEPT !.rev = @ + 1].phase = e.phase
         /\ [[e EXCEPT !.rev = @ + 1] EXCEPT !.rev = 0] = [e EXCEPT !.rev = 0]
         /\ [[e EXCEPT !.rev = @ + 1] EXCEPT !.rev = e.rev + 1] = [e EXCEPT !.rev = @ + 1]
<1>1. /\ e.run \in Nat /\ e.rev \in Nat /\ e.phase \in {"ready", "exited"}
      /\ e.settled \in BOOLEAN /\ e.data \in {0, 1} /\ e # None
  BY StoreAssumption DEF ExecutionRows
<1>2. PICK f : f = [e EXCEPT !.rev = @ + 1]
  OBVIOUS
<1>3. f \in ExecutionRows /\ f.rev = e.rev + 1 /\ f.run = e.run /\ f.phase = e.phase
  BY <1>1, <1>2 DEF ExecutionRows
<1>4. [f EXCEPT !.rev = 0] = [e EXCEPT !.rev = 0]
  BY <1>2 DEF ExecutionRows
<1>5. [f EXCEPT !.rev = e.rev + 1] = f
  BY <1>2 DEF ExecutionRows
<1> QED
  BY <1>1, <1>2, <1>3, <1>4, <1>5

\* A further event, of the next revision.
LEMMA EventAppended ==
  ASSUME NEW e \in ExecutionRows, NEW f \in ExecutionRows, NEW l \in Seq(ExecutionRows),
         f.rev = e.rev + 1, f.run = e.run, Readable(e, l)
  PROVE  Readable(f, l) /\ Readable(f, Append(l, f))
<1>1. /\ Len(l) \in Nat /\ Len(l) > 0 /\ DOMAIN l = 1..Len(l)
      /\ DOMAIN Append(l, f) = 1..(Len(l) + 1) /\ Append(l, f)[Len(l) + 1] = f
      /\ \A i \in 1..Len(l) : Append(l, f)[i] = l[i] /\ l[i] \in ExecutionRows
  BY EmptySeq, ElementOfSeq, AppendProperties, LenProperties DEF Readable
<1>2. \A i \in 1..Len(l) : l[i].rev \in Nat /\ l[i].rev <= e.rev /\ l[i].run = e.run
  BY <1>1, RowFields DEF Readable
<1>3. e.rev \in Nat /\ f.rev \in Nat
  BY RowFields
<1>4. Readable(f, l)
  BY <1>1, <1>2, <1>3 DEF Readable
<1>5. ASSUME NEW i \in DOMAIN Append(l, f)
      PROVE  /\ Append(l, f)[i].rev <= f.rev /\ Append(l, f)[i].run = f.run
             /\ i > 1 => Append(l, f)[i].rev > Append(l, f)[i - 1].rev
  <2>1. CASE i = Len(l) + 1
    <3>1. i - 1 \in 1..Len(l)
      BY <1>1, <2>1
    <3> QED
      BY <1>1, <1>2, <1>3, <2>1, <3>1
  <2>2. CASE i \in 1..Len(l)
    <3>1. i > 1 => i - 1 \in 1..Len(l) /\ l[i].rev > l[i - 1].rev
      BY <1>1, <2>2 DEF Readable
    <3> QED
      BY <1>1, <1>2, <1>3, <2>2, <3>1
  <2> QED
    BY <1>1, <1>5, <2>1, <2>2
<1>6. Append(l, f) # <<>> /\ Append(l, f)[1].rev = 1
  <2>1. 1 \in 1..Len(l)
    BY <1>1
  <2> QED
    BY <1>1, <2>1, <1>4 DEF Readable
<1> QED
  BY <1>4, <1>5, <1>6 DEF Readable

LEMMA FirstEvent ==
  ASSUME NEW e \in ExecutionRows, e.rev = 1
  PROVE  Append(<<>>, e) \in Seq(ExecutionRows) /\ Readable(e, Append(<<>>, e))
<1>1. Append(<<>>, e) = <<e>> /\ <<e>> \in Seq(ExecutionRows) /\ <<e>>[1] = e
      /\ DOMAIN <<e>> = {1} /\ <<e>> # <<>>
  OBVIOUS
<1>2. \A i \in DOMAIN <<e>> : i = 1
  BY <1>1
<1> QED
  BY <1>1, <1>2 DEF Readable

\* One write: of an execution that is new, or of one of the same run.
LEMMA WriteExecutionSound ==
  ASSUME NEW t, Sound(t), NEW run \in Nat, NEW change \in Changes
  PROVE  LET u == WriteExecution(t, run, change)
         IN  u = None \/ (Sound(u) /\ u.runs = t.runs /\ Extends(t, u, run))
<1> DEFINE id == change.id
           e == IF t.execs[id] # None /\ t.execs[id].run = run THEN t.execs[id] ELSE None
           legal == IF change.expected = None
                    THEN t.execs[id] = None /\ change.exec.rev = 0 /\ change.logged
                    ELSE /\ e # None /\ e.rev = change.expected /\ change.exec.rev = change.expected
                         /\ e.phase = "exited" => OnlySettles(e, change)
                         /\ change.exec.run = e.run
           saved == [change.exec EXCEPT !.rev = @ + 1]
           l == IF change.logged THEN Append(t.log[id], saved) ELSE t.log[id]
           u == [t EXCEPT !.execs[id] = saved, !.log[id] = l]
<1>1. /\ id \in Executions /\ change.exec \in ExecutionRows /\ change.logged \in BOOLEAN
      /\ t \in TableStates /\ t.execs \in [Executions -> ExecutionRows \cup {None}]
      /\ t.log \in [Executions -> Seq(ExecutionRows)]
  BY DEF Changes, Sound, TableStates
<1>2. /\ saved \in ExecutionRows /\ saved.rev = change.exec.rev + 1 /\ saved.run = change.exec.run
      /\ saved.phase = change.exec.phase /\ saved # None
      /\ [saved EXCEPT !.rev = 0] = [change.exec EXCEPT !.rev = 0]
      /\ [saved EXCEPT !.rev = EventRevision(change.exec.rev)] = saved
  BY <1>1, RowFields DEF EventRevision
<1>3. WriteExecution(t, run, change) = IF ~legal THEN None ELSE u
  BY <1>2 DEF WriteExecution
<1> SUFFICES ASSUME legal PROVE Sound(u) /\ u.runs = t.runs /\ Extends(t, u, run)
  BY <1>3
<1>4. l \in Seq(ExecutionRows)
  BY <1>1, <1>2, AppendProperties
<1> HIDE DEF saved, l, id
<1>5. /\ u \in TableStates /\ u.runs = t.runs /\ u.execs[id] = saved /\ u.log[id] = l
      /\ \A other \in Executions \ {id} : u.execs[other] = t.execs[other] /\ u.log[other] = t.log[other]
  BY <1>1, <1>2, <1>4 DEF TableStates
<1>6. CASE t.execs[id] = None
  <2>1. change.exec.rev = 0 /\ change.logged
    BY <1>6 DEF id
  <2>2. Readable(saved, l)
    <3>1. t.log[id] = <<>> /\ saved.rev = 1
      BY <1>1, <1>2, <1>6, <2>1 DEF Sound
    <3>2. l = Append(<<>>, saved)
      BY <2>1, <3>1 DEF l
    <3> QED
      BY <1>2, <3>1, <3>2, FirstEvent
  <2> HIDE DEF u
  <2>3. Sound(u)
    BY <1>2, <1>5, <2>2 DEF Sound
  <2> QED
    BY <1>2, <1>5, <1>6, <2>3 DEF Extends
<1>7. CASE t.execs[id] # None
  <2>1. /\ t.execs[id] \in ExecutionRows /\ t.execs[id].run = run /\ change.exec.rev = t.execs[id].rev
        /\ change.exec.run = run
        /\ t.execs[id].phase = "exited" => OnlySettles(t.execs[id], change)
    BY <1>1, <1>7 DEF id
  <2>2. Readable(t.execs[id], t.log[id])
    BY <1>1, <1>7 DEF Sound
  <2>3. Readable(saved, l)
    BY <1>1, <1>2, <2>1, <2>2, EventAppended DEF l
  <2>4. t.execs[id].phase = "exited" =>
          saved.phase = "exited" /\ l = t.log[id] /\ OnlySettled(t.execs[id], saved)
    <3> SUFFICES ASSUME t.execs[id].phase = "exited"
                 PROVE  saved.phase = "exited" /\ l = t.log[id] /\ OnlySettled(t.execs[id], saved)
      OBVIOUS
    <3>1. change.exec = [t.execs[id] EXCEPT !.settled = TRUE] /\ ~change.logged
      BY <2>1 DEF OnlySettles
    <3>2. [t.execs[id] EXCEPT !.settled = TRUE].phase = t.execs[id].phase
          /\ [[t.execs[id] EXCEPT !.settled = TRUE] EXCEPT !.rev = 0]
               = [t.execs[id] EXCEPT !.rev = 0, !.settled = TRUE]
      BY <2>1 DEF ExecutionRows
    <3> QED
      BY <1>2, <3>1, <3>2 DEF OnlySettled, l
  <2> HIDE DEF u
  <2>5. Sound(u)
    BY <1>2, <1>5, <2>3 DEF Sound
  <2> QED
    BY <1>2, <1>5, <1>7, <2>1, <2>4, <2>5 DEF Extends
<1> QED
  BY <1>6, <1>7

\* Writes for one run add up.
LEMMA ExtendsIsTransitive ==
  ASSUME NEW t, NEW u, NEW v, NEW run, Sound(t), Sound(u), Sound(v),
         Extends(t, u, run), Extends(u, v, run)
  PROVE  Extends(t, v, run)
<1>1. ASSUME NEW e \in ExecutionRows, NEW f \in ExecutionRows, NEW g \in ExecutionRows,
             OnlySettled(e, f), OnlySettled(f, g)
      PROVE  OnlySettled(e, g)
  BY <1>1 DEF OnlySettled, ExecutionRows
<1>2. \A id \in Executions : /\ t.execs[id] \in ExecutionRows \cup {None}
                             /\ u.execs[id] \in ExecutionRows \cup {None}
                             /\ v.execs[id] \in ExecutionRows \cup {None}
  BY DEF Sound, TableStates
<1> QED
  BY <1>1, <1>2 DEF Extends

LEMMA WriteAllUnfolds ==
  ASSUME NEW t, NEW run, NEW changes, Len(changes) \in 0..2
  PROVE  LET u == IF t = None THEN None ELSE WriteExecution(t, run, changes[1])
             v == IF u = None THEN None ELSE WriteExecution(u, run, changes[2])
         IN  WriteAll(t, run, changes) = CASE Len(changes) = 0 -> t
                                           [] Len(changes) = 1 -> u
                                           [] OTHER -> v
<1> DEFINE L == Len(changes)
           Step(f) == [n \in 0..L |->
                          IF n = 0 THEN t
                          ELSE IF Failed(f[n - 1]) THEN None ELSE WriteExecution(f[n - 1], run, changes[n])]
           u == IF t = None THEN None ELSE WriteExecution(t, run, changes[1])
           v == IF u = None THEN None ELSE WriteExecution(u, run, changes[2])
           w == [n \in 0..L |-> IF n = 0 THEN t ELSE IF n = 1 THEN u ELSE v]
           written == CHOOSE f : f = Step(f)
<1>0. L \in 0..2
  OBVIOUS
<1>1. w = Step(w)
  <2>1. ASSUME NEW n \in 0..L PROVE w[n] = Step(w)[n]
    <3>1. n \in {0, 1, 2} /\ (n # 0 => n - 1 \in 0..L)
      <4> HIDE DEF L, w
      <4> QED
        BY <1>0, <2>1
    <3>2. CASE n = 0
      BY <2>1, <3>2
    <3>3. CASE n = 1
      BY <2>1, <3>1, <3>3 DEF Failed
    <3>4. CASE n = 2
      BY <2>1, <3>1, <3>4 DEF Failed
    <3> QED
      BY <3>1, <3>2, <3>3, <3>4
  <2> QED
    BY <2>1
<1>2. written = Step(written)
  BY <1>1
<1>3. WriteAll(t, run, changes) = written[L]
  BY DEF WriteAll
<1> HIDE DEF written
<1>4. /\ written[0] = t
      /\ L >= 1 => written[1] = u
      /\ L >= 2 => written[2] = v
  <2>1. written[0] = t
    BY <1>2
  <2>2. L >= 1 => written[1] = u
    BY <1>2, <2>1 DEF Failed
  <2>3. L >= 2 => written[2] = v
    BY <1>2, <2>1, <2>2 DEF Failed
  <2> QED
    BY <2>1, <2>2, <2>3
<1> HIDE DEF u, v
<1>5. WriteAll(t, run, changes) = CASE L = 0 -> t [] L = 1 -> u [] OTHER -> v
  <2> HIDE DEF L
  <2> QED
    BY <1>0, <1>3, <1>4
<1> QED
  BY <1>5 DEF u, v

LEMMA WriteAllSound ==
  ASSUME NEW t, Sound(t), NEW run \in Nat, NEW changes \in Seq(Changes), Len(changes) \in 0..2
  PROVE  LET u == WriteAll(t, run, changes)
         IN  u = None \/ (Sound(u) /\ u.runs = t.runs /\ Extends(t, u, run))
<1> DEFINE u == IF t = None THEN None ELSE WriteExecution(t, run, changes[1])
           v == IF u = None THEN None ELSE WriteExecution(u, run, changes[2])
<1>1. WriteAll(t, run, changes) = CASE Len(changes) = 0 -> t
                                    [] Len(changes) = 1 -> u
                                    [] OTHER -> v
  BY WriteAllUnfolds
<1>2. \A i \in 1..Len(changes) : changes[i] \in Changes
  BY ElementOfSeq, LenProperties
<1>3. Len(changes) >= 1 => u = None \/ (Sound(u) /\ u.runs = t.runs /\ Extends(t, u, run))
  <2> SUFFICES ASSUME Len(changes) >= 1
               PROVE  u = None \/ (Sound(u) /\ u.runs = t.runs /\ Extends(t, u, run))
    OBVIOUS
  <2>1. 1 \in 1..Len(changes)
    OBVIOUS
  <2> QED
    BY <1>2, <2>1, WriteExecutionSound
<1> HIDE DEF u
<1>4. Len(changes) = 2 => v = None \/ (Sound(v) /\ v.runs = t.runs /\ Extends(t, v, run))
  <2> SUFFICES ASSUME Len(changes) = 2, u # None
               PROVE  v = None \/ (Sound(v) /\ v.runs = t.runs /\ Extends(t, v, run))
    BY DEF v
  <2>1. 2 \in 1..Len(changes) /\ Sound(u) /\ u.runs = t.runs /\ Extends(t, u, run)
    BY <1>3
  <2>2. v = None \/ (Sound(v) /\ v.runs = u.runs /\ Extends(u, v, run))
    BY <1>2, <2>1, WriteExecutionSound
  <2> HIDE DEF v
  <2> QED
    BY <2>1, <2>2, ExtendsIsTransitive
<1>5. Extends(t, t, run)
  BY DEF Extends
<1> HIDE DEF v
<1>6. CASE Len(changes) = 0
  BY <1>1, <1>5, <1>6
<1>7. CASE Len(changes) = 1
  BY <1>1, <1>3, <1>7
<1>8. CASE Len(changes) = 2
  BY <1>1, <1>4, <1>8
<1> QED
  BY <1>6, <1>7, <1>8

-----------------------------------------------------------------------------
(* A transaction.                                                          *)

\* The tables u are what was committed for the run r: a new one after the last
\* has ended, or the next version of the last, which has not.
Commits(t, u, r) ==
  /\ Sound(u) /\ Extends(t, u, r) /\ r \in Nat \ {0} /\ r = Len(u.runs)
  /\ u.execs[u.runs[r].cur] # None /\ Consistent(u.runs[r].status, u.execs[u.runs[r].cur])
  /\ \/ /\ u.runs = Append(t.runs, u.runs[r])
        /\ t.runs # <<>> => Ended(t.runs[Len(t.runs)].status)
     \/ /\ u.runs = [t.runs EXCEPT ![r] = u.runs[r]] /\ r = Len(t.runs)
        /\ u.runs[r].ver = t.runs[r].ver + 1 /\ ~Ended(t.runs[r].status)

LEMMA CreateCommits ==
  ASSUME NEW t, Sound(t), NEW op, op.cur \in Executions
  PROVE  LET u == CreateRow(t, op)
         IN  u = None \/ (/\ Commits(t, u, Len(u.runs)) /\ u.runs[Len(u.runs)].cur = op.cur
                          /\ Len(u.runs) = Len(t.runs) + 1)
<1> DEFINE r == Len(t.runs) + 1
           new == [ver |-> 1, status |-> "running", cur |-> op.cur]
           s == [t EXCEPT !.runs = Append(@, new)]
           entry == [id |-> op.cur, expected |-> None, exec |-> NewExecution(r), logged |-> TRUE]
           u == WriteAll(s, r, <<entry>>)
<1> SUFFICES ASSUME CreateRow(t, op) # None
             PROVE  LET v == CreateRow(t, op)
                    IN  /\ Commits(t, v, Len(v.runs)) /\ v.runs[Len(v.runs)].cur = op.cur
                        /\ Len(v.runs) = Len(t.runs) + 1
  OBVIOUS
<1>1. CreateRow(t, op) = u /\ (t.runs = <<>> \/ Ended(t.runs[Len(t.runs)].status))
  BY DEF CreateRow
<1>2. /\ t \in TableStates /\ t.runs \in Seq(RunRows) /\ Len(t.runs) \in Nat /\ r \in Nat \ {0}
      /\ new \in RunRows /\ new.cur = op.cur /\ new.status = "running"
  BY DEF Sound, TableStates, RunRows
<1>3. /\ NewExecution(r) \in ExecutionRows /\ NewExecution(r).run = r
      /\ NewExecution(r).rev = 0 /\ NewExecution(r).phase = "ready"
  BY <1>2 DEF NewExecution, ExecutionRows
<1>4. entry \in Changes /\ entry.exec.run = r /\ <<entry>> \in Seq(Changes) /\ Len(<<entry>>) = 1
      /\ <<entry>>[1] = entry /\ DOMAIN <<entry>> = {1}
  BY <1>3 DEF Changes
<1> HIDE DEF new
<1>5. /\ Append(t.runs, new) \in Seq(RunRows) /\ Len(Append(t.runs, new)) = r
      /\ Append(t.runs, new)[r] = new
  BY <1>2, AppendProperties
<1>6. s \in TableStates /\ s.execs = t.execs /\ s.log = t.log /\ s.runs = Append(t.runs, new)
  BY <1>2, <1>5 DEF TableStates
<1> HIDE DEF s
<1>7. Sound(s)
  BY <1>6 DEF Sound
<1> HIDE DEF r, entry
<1>8. u = None \/ (Sound(u) /\ u.runs = s.runs /\ Extends(s, u, r))
  <2>1. Len(<<entry>>) \in 0..2
    BY <1>4
  <2> DEFINE changes == <<entry>>
  <2>3. changes \in Seq(Changes) /\ Len(changes) \in 0..2
    BY <1>4, <2>1
  <2> HIDE DEF changes
  <2>4. LET w == WriteAll(s, r, changes)
        IN  w = None \/ (Sound(w) /\ w.runs = s.runs /\ Extends(s, w, r))
    BY <1>2, <1>7, <2>3, WriteAllSound
  <2> QED
    BY <2>4 DEF changes
<1>9. u = WriteExecution(s, r, entry)
  <2>1. u = IF s = None THEN None ELSE WriteExecution(s, r, entry)
    BY <1>4, WriteAllUnfolds
  <2> QED
    BY <1>1, <2>1
<1>10. u.execs[op.cur] # None /\ u.execs[op.cur].phase = "ready"
  <2>1. entry.expected = None /\ entry.exec = NewExecution(r) /\ entry.id = op.cur
    BY DEF entry
  <2> DEFINE saved == [NewExecution(r) EXCEPT !.rev = @ + 1]
  <2>2. saved # None /\ saved.phase = "ready"
    BY <1>3, RowFields
  <2> HIDE DEF saved
  <2>3. \E l : u = [s EXCEPT !.execs[op.cur] = saved, !.log[op.cur] = l]
    BY <1>1, <1>9, <2>1 DEF WriteExecution, saved
  <2> QED
    BY <1>6, <2>2, <2>3 DEF TableStates
<1> HIDE DEF u
<1>11. Extends(t, u, r)
  BY <1>1, <1>6, <1>8 DEF Extends
<1> QED
  BY <1>1, <1>2, <1>5, <1>6, <1>8, <1>10, <1>11 DEF Commits, Consistent, r

RowReads ==
  [run : Nat, ver : Nat, status : {"running", "completed", "terminated"}, cur : Executions]

LEMMA UpdateCommits ==
  ASSUME NEW t, Sound(t), NEW op, op.base \in RowReads, op.cur \in Executions,
         op.status \in {"running", "completed", "terminated"},
         op.changes \in Seq(Changes), Len(op.changes) \in 0..2
  PROVE  LET u == UpdateRow(t, op)
         IN  u = None \/ (/\ Commits(t, u, op.base.run) /\ u.runs[op.base.run].cur = op.cur
                          /\ t.runs[op.base.run].ver = op.base.ver)
<1> DEFINE r == op.base.run
           w == WriteAll(t, r, op.changes)
           e == w.execs[op.cur]
           new == [ver |-> op.base.ver + 1, status |-> op.status, cur |-> op.cur]
           u == [w EXCEPT !.runs[r] = new]
<1> SUFFICES ASSUME UpdateRow(t, op) # None
             PROVE  /\ Commits(t, UpdateRow(t, op), r) /\ UpdateRow(t, op).runs[r].cur = op.cur
                    /\ t.runs[r].ver = op.base.ver
  OBVIOUS
<1>1. /\ t.runs # <<>> /\ VersionCurrent(t, op) /\ SameRun(t, op)
      /\ ~Ended(t.runs[Len(t.runs)].status)
      /\ w # None /\ e # None /\ e.run = r /\ Consistent(op.status, e)
      /\ UpdateRow(t, op) = u
  BY DEF UpdateRow, Failed
<1>2. r = Len(t.runs) /\ t.runs[r].ver = op.base.ver /\ ~Ended(t.runs[r].status)
  BY <1>1 DEF SameRun, VersionCurrent
<1>3. /\ t.runs \in Seq(RunRows) /\ op.base.ver \in Nat /\ r \in Nat
      /\ new \in RunRows /\ new.ver = op.base.ver + 1 /\ new.status = op.status /\ new.cur = op.cur
  BY DEF Sound, TableStates, RowReads, RunRows
<1>4. r \in Nat \ {0} /\ r \in DOMAIN t.runs
  BY <1>1, <1>2, <1>3, EmptySeq, LenProperties
<1>5. Sound(w) /\ w.runs = t.runs /\ Extends(t, w, r)
  BY <1>1, <1>3, WriteAllSound
<1> HIDE DEF w, r, new
<1>6. [t.runs EXCEPT ![r] = new] \in Seq(RunRows) /\ Len([t.runs EXCEPT ![r] = new]) = Len(t.runs)
      /\ [t.runs EXCEPT ![r] = new][r] = new
  BY <1>3, <1>4, ExceptSeq
<1>7. u \in TableStates /\ u.execs = w.execs /\ u.log = w.log /\ u.runs = [t.runs EXCEPT ![r] = new]
  BY <1>5, <1>6 DEF Sound, TableStates
<1> HIDE DEF u
<1>8. Sound(u) /\ Extends(t, u, r)
  BY <1>5, <1>7 DEF Sound, Extends
<1>9. u.runs[r] = new /\ u.execs[u.runs[r].cur] = e
  BY <1>3, <1>6, <1>7
<1>10. Commits(t, u, r)
  BY <1>1, <1>2, <1>3, <1>4, <1>6, <1>7, <1>8, <1>9 DEF Commits
<1> QED
  BY <1>1, <1>2, <1>3, <1>9, <1>10

-----------------------------------------------------------------------------
(* The store and its callers.                                              *)

\* What a caller has read is not newer than the run, and if it is not older it
\* is the row.
ReadsAreOfRuns ==
  \A c \in Callers : row[c] # None =>
    /\ row[c] \in RowReads /\ row[c].run \in DOMAIN runs /\ row[c].ver <= runs[row[c].run].ver
    /\ row[c].ver = runs[row[c].run].ver => row[c] = RowOf(Tables, row[c].run)

ExecutionsAreRead ==
  \A c \in Callers : /\ DOMAIN seen[c] \subseteq Executions
                     /\ \A id \in DOMAIN seen[c] : seen[c][id] \in ExecutionRows

Pages ==
  /\ page \in Seq([id : Executions, sequence : Nat])
  /\ PagesAreGapless

StoreInv ==
  /\ Sound(Tables)
  /\ \A r \in DOMAIN runs : execs[runs[r].cur] # None
  /\ row \in [Callers -> RowReads \cup {None}] /\ DOMAIN seen = Callers
  /\ ReadsAreOfRuns /\ ExecutionsAreRead /\ Pages

LEMMA TablesFields ==
  Tables.runs = runs /\ Tables.execs = execs /\ Tables.log = log
BY DEF Tables

LEMMA SoundTypes ==
  ASSUME Sound(Tables)
  PROVE  /\ runs \in Seq(RunRows) /\ execs \in [Executions -> ExecutionRows \cup {None}]
         /\ log \in [Executions -> Seq(ExecutionRows)]
         /\ Len(runs) \in Nat /\ DOMAIN runs = 1..Len(runs)
         /\ \A r \in DOMAIN runs : /\ runs[r] \in RunRows /\ runs[r].ver \in Nat
                                   /\ runs[r].cur \in Executions
                                   /\ runs[r].status \in {"running", "completed", "terminated"}
<1>1. /\ runs \in Seq(RunRows) /\ execs \in [Executions -> ExecutionRows \cup {None}]
      /\ log \in [Executions -> Seq(ExecutionRows)]
  BY TablesFields DEF Sound, TableStates
<1>2. Len(runs) \in Nat /\ DOMAIN runs = 1..Len(runs)
  BY <1>1, LenProperties
<1>3. \A r \in DOMAIN runs : runs[r] \in RunRows
  BY <1>1, <1>2, ElementOfSeq
<1> QED
  BY <1>1, <1>2, <1>3 DEF RunRows

\* A row that is read, of the tables t.
LEMMA RowOfFields ==
  ASSUME NEW t, NEW r \in Nat, t.runs[r] \in RunRows
  PROVE  /\ RowOf(t, r) \in RowReads /\ RowOf(t, r).run = r /\ RowOf(t, r).ver = t.runs[r].ver
         /\ RowOf(t, r).cur = t.runs[r].cur
BY DEF RowOf, RowReads, RunRows

\* The runs after a commit: as they were but for the last.
LEMMA CommittedRuns ==
  ASSUME NEW t, NEW u, NEW r, Sound(t), Commits(t, u, r)
  PROVE  /\ r \in DOMAIN u.runs /\ u.runs[r] \in RunRows /\ Len(u.runs) = r
         /\ t.runs \in Seq(RunRows) /\ u.runs \in Seq(RunRows)
         /\ \A k \in DOMAIN t.runs : k \in DOMAIN u.runs /\ k <= r /\ (k # r => u.runs[k] = t.runs[k])
         /\ \A k \in DOMAIN u.runs : k # r => k \in DOMAIN t.runs
         /\ r \in DOMAIN t.runs => /\ u.runs[r].ver = t.runs[r].ver + 1 /\ r = Len(t.runs)
                                   /\ ~Ended(t.runs[r].status)
         /\ r \notin DOMAIN t.runs => r = Len(t.runs) + 1 /\ (t.runs # <<>> => Ended(t.runs[r - 1].status))
<1>1. /\ t.runs \in Seq(RunRows) /\ u.runs \in Seq(RunRows) /\ r \in Nat \ {0} /\ r = Len(u.runs)
      /\ Len(t.runs) \in Nat /\ DOMAIN t.runs = 1..Len(t.runs) /\ DOMAIN u.runs = 1..Len(u.runs)
  BY LenProperties DEF Commits, Sound, TableStates
<1>2. r \in DOMAIN u.runs /\ u.runs[r] \in RunRows
  BY <1>1, ElementOfSeq
<1>3. CASE u.runs = Append(t.runs, u.runs[r]) /\ (t.runs # <<>> => Ended(t.runs[Len(t.runs)].status))
  <2> DEFINE new == u.runs[r]
  <2>1. new \in RunRows /\ u.runs = Append(t.runs, new)
    BY <1>2, <1>3
  <2> HIDE DEF new
  <2>2. Len(u.runs) = Len(t.runs) + 1 /\ \A k \in 1..Len(t.runs) : u.runs[k] = t.runs[k]
    BY <1>1, <2>1, AppendProperties
  <2> QED
    BY <1>1, <1>2, <1>3, <2>2
<1>4. CASE /\ u.runs = [t.runs EXCEPT ![r] = u.runs[r]] /\ r = Len(t.runs)
           /\ u.runs[r].ver = t.runs[r].ver + 1 /\ ~Ended(t.runs[r].status)
  <2>1. \A k \in DOMAIN t.runs : k # r => u.runs[k] = t.runs[k]
    BY <1>4
  <2> QED
    BY <1>1, <1>2, <1>4, <2>1
<1> QED
  BY <1>3, <1>4 DEF Commits

\* What a transaction leaves: all as it was, or what it has committed, which
\* the caller has read.
Committed(c, r) ==
  /\ Commits(Tables, Tables', r) /\ UNCHANGED page
  /\ row' = [row EXCEPT ![c] = RowOf(Tables', r)]
  /\ seen' = [seen EXCEPT ![c] = [id \in {runs'[r].cur} |-> execs'[runs'[r].cur]]]

StoreIdle == UNCHANGED <<runs, execs, log, row, seen, page>>

LEMMA TransactCommits ==
  ASSUME NEW op, NEW u, NEW r, Transact(op, u), Sound(Tables),
         u = None \/ (Commits(Tables, u, r) /\ u.runs[r].cur = op.cur),
         u # None => r = IF op.kind = "create" THEN Len(u.runs) ELSE op.base.run
  PROVE  StoreIdle \/ Committed(op.caller, r)
<1>1. CASE u = None
  BY <1>1, TablesFields DEF Transact, Failed, RolledBack, StoreIdle
<1>2. CASE u # None
  <2>1. /\ runs' = u.runs /\ execs' = u.execs /\ log' = u.log
        /\ row' = [row EXCEPT ![op.caller] = RowOf(u, r)]
        /\ seen' = [seen EXCEPT ![op.caller] = [id \in {op.cur} |-> u.execs[id]]]
        /\ UNCHANGED page
    BY <1>2 DEF Transact, Failed
  <2>2. Tables' = u
    <3>1. u \in TableStates
      BY <1>2 DEF Commits, Sound
    <3> QED
      BY <2>1, <3>1 DEF Tables, TableStates
  <2>3. [id \in {op.cur} |-> u.execs[id]] = [id \in {runs'[r].cur} |-> execs'[runs'[r].cur]]
    BY <1>2, <2>1
  <2> QED
    BY <1>2, <2>1, <2>2, <2>3 DEF Committed
<1> QED
  BY <1>1, <1>2

LEMMA CommittedInv ==
  ASSUME StoreInv, NEW c \in Callers, NEW r, Committed(c, r)
  PROVE  StoreInv'
<1>1. /\ Tables'.runs = runs' /\ Tables'.execs = execs' /\ Tables'.log = log'
      /\ Tables.runs = runs /\ Tables.execs = execs /\ Tables.log = log
  BY DEF Tables
<1>2. Sound(Tables) /\ Sound(Tables') /\ Extends(Tables, Tables', r) /\ execs'[runs'[r].cur] # None
  BY <1>1 DEF StoreInv, Committed, Commits
<1>3. /\ r \in DOMAIN runs' /\ runs'[r] \in RunRows
      /\ \A k \in DOMAIN runs : k \in DOMAIN runs' /\ (k # r => runs'[k] = runs[k])
      /\ \A k \in DOMAIN runs' : k # r => k \in DOMAIN runs
      /\ r \in DOMAIN runs => runs'[r].ver = runs[r].ver + 1
  BY <1>1, <1>2, CommittedRuns DEF Committed
<1>4. r \in Nat /\ runs'[r].cur \in Executions /\ execs'[runs'[r].cur] \in ExecutionRows
  <2>1. r \in Nat
    BY DEF Committed, Commits
  <2>2. runs'[r].cur \in Executions
    BY <1>3 DEF RunRows
  <2>3. execs' \in [Executions -> ExecutionRows \cup {None}]
    BY <1>1, <1>2 DEF Sound, TableStates
  <2> QED
    BY <1>2, <2>1, <2>2, <2>3
<1>5. \A k \in DOMAIN runs' : execs'[runs'[k].cur] # None
  <2> SUFFICES ASSUME NEW k \in DOMAIN runs, k # r PROVE execs'[runs[k].cur] # None
    BY <1>2, <1>3
  <2>1. runs[k].cur \in Executions /\ execs[runs[k].cur] # None
    BY SoundTypes DEF StoreInv
  <2> QED
    BY <1>1, <1>2, <2>1 DEF Extends
<1>6. /\ RowOf(Tables', r) \in RowReads /\ RowOf(Tables', r).run = r
      /\ RowOf(Tables', r).ver = runs'[r].ver /\ runs'[r].ver \in Nat
  BY <1>1, <1>3, <1>4, RowOfFields DEF RunRows
<1>7. /\ row' = [row EXCEPT ![c] = RowOf(Tables', r)] /\ row \in [Callers -> RowReads \cup {None}]
      /\ ReadsAreOfRuns
  BY DEF Committed, StoreInv
<1>8. ReadsAreOfRuns'
  <2> SUFFICES ASSUME NEW b \in Callers, row'[b] # None
               PROVE  /\ row'[b] \in RowReads /\ row'[b].run \in DOMAIN runs'
                      /\ row'[b].ver <= runs'[row'[b].run].ver
                      /\ row'[b].ver = runs'[row'[b].run].ver => row'[b] = RowOf(Tables', row'[b].run)
    BY DEF ReadsAreOfRuns
  <2>1. CASE b = c
    BY <1>3, <1>6, <1>7, <2>1
  <2>2. CASE b # c
    <3> DEFINE k == row[b].run
    <3>1. row'[b] = row[b]
      BY <1>7, <2>2
    <3>2. /\ row[b] \in RowReads /\ k \in DOMAIN runs /\ row[b].ver <= runs[k].ver
          /\ row[b].ver = runs[k].ver => row[b] = RowOf(Tables, k)
      BY <1>7, <3>1 DEF ReadsAreOfRuns
    <3>3. row[b].ver \in Nat /\ runs[k].ver \in Nat
      BY <3>2, SoundTypes DEF StoreInv, RowReads
    <3>4. CASE k = r
      BY <1>3, <3>1, <3>2, <3>3, <3>4
    <3>5. CASE k # r
      <4>1. runs'[k] = runs[k] /\ k \in DOMAIN runs'
        BY <1>3, <3>2, <3>5
      <4>2. RowOf(Tables', k) = RowOf(Tables, k)
        BY <1>1, <4>1 DEF RowOf
      <4> QED
        BY <3>1, <3>2, <4>1, <4>2
    <3> QED
      BY <3>4, <3>5
  <2> QED
    BY <2>1, <2>2
<1>9. row' \in [Callers -> RowReads \cup {None}]
  BY <1>6, <1>7
<1>10. DOMAIN seen' = Callers /\ ExecutionsAreRead' /\ Pages'
  BY <1>4 DEF StoreInv, Committed, ExecutionsAreRead, Pages, PagesAreGapless
<1> QED
  BY <1>2, <1>5, <1>8, <1>9, <1>10 DEF StoreInv

\* A caller's update is made from the very row that it replaces.
Advanced(c, r) == Committed(c, r) /\ r \in DOMAIN runs /\ row[c] = RowOf(Tables, r)
Created(c, r)  == Committed(c, r) /\ r \notin DOMAIN runs

LEMMA CreateStep ==
  ASSUME StoreInv, NEW c \in Callers, NEW id \in Executions, Create(c, id)
  PROVE  StoreIdle \/ \E r : Created(c, r)
<1>1. PICK op : /\ op = [kind |-> "create", caller |-> c, cur |-> id, changes |-> <<>>]
                /\ Transact(op, CreateRow(Tables, op))
  BY DEF Create
<1>2. op.cur = id /\ op.caller = c /\ op.kind = "create"
  BY <1>1
<1> DEFINE u == CreateRow(Tables, op)
           r == Len(u.runs)
<1>3. Sound(Tables)
  BY DEF StoreInv
<1>4. u = None \/ (Commits(Tables, u, r) /\ u.runs[r].cur = op.cur /\ r = Len(runs) + 1)
  BY <1>2, <1>3, CreateCommits, TablesFields
<1> HIDE DEF u
<1>5. StoreIdle \/ (u # None /\ Committed(c, r))
  <2>1. StoreIdle \/ Committed(op.caller, r)
    BY <1>1, <1>2, <1>3, <1>4, TransactCommits DEF u
  <2>2. u = None => StoreIdle
    BY <1>1, TablesFields DEF Transact, Failed, RolledBack, StoreIdle, u
  <2> QED
    BY <1>2, <2>1, <2>2
<1>6. CASE u # None /\ Committed(c, r)
  <2>1. r \notin DOMAIN runs
    BY <1>3, <1>4, <1>6, SoundTypes
  <2> QED
    BY <1>6, <2>1 DEF Created
<1> QED
  BY <1>5, <1>6

LEMMA UpdateStep ==
  ASSUME StoreInv, NEW c \in Callers, row[c] # None, NEW cur \in Executions,
         NEW status \in {"running", "completed", "terminated"},
         NEW changes \in Seq(Changes), Len(changes) \in 0..2,
         Update(c, status, cur, changes)
  PROVE  StoreIdle \/ \E r : Advanced(c, r)
<1>1. PICK op : /\ op = [kind |-> "update", caller |-> c, base |-> row[c], status |-> status,
                         cur |-> cur, changes |-> changes]
                /\ Transact(op, UpdateRow(Tables, op))
  BY DEF Update
<1>2. /\ op.kind = "update" /\ op.caller = c /\ op.base = row[c] /\ op.status = status
      /\ op.cur = cur /\ op.changes = changes
  BY <1>1
<1> DEFINE u == UpdateRow(Tables, op)
           r == row[c].run
<1>3. /\ Sound(Tables) /\ row[c] \in RowReads /\ r \in DOMAIN runs
      /\ row[c].ver = runs[r].ver => row[c] = RowOf(Tables, r)
  BY DEF StoreInv, ReadsAreOfRuns
<1>4. u = None \/ (Commits(Tables, u, r) /\ u.runs[r].cur = op.cur /\ runs[r].ver = row[c].ver)
  BY <1>2, <1>3, UpdateCommits, TablesFields
<1> HIDE DEF u
<1>5. u = None => StoreIdle
  BY <1>1, TablesFields DEF Transact, Failed, RolledBack, StoreIdle, u
<1>6. StoreIdle \/ Committed(op.caller, r)
  BY <1>1, <1>2, <1>3, <1>4, TransactCommits DEF u
<1> QED
  BY <1>2, <1>3, <1>4, <1>5, <1>6 DEF Advanced

LEMMA EditFacts ==
  ASSUME NEW e \in ExecutionRows, NEW edit \in Edits(e)
  PROVE  edit[1] \in ExecutionRows /\ edit[2] \in BOOLEAN
<1>1. [e EXCEPT !.data = 1 - @] \in ExecutionRows
  <2>1. e.data \in {0, 1}
    BY DEF ExecutionRows
  <2>2. 1 - e.data \in {0, 1}
    <3> DEFINE d == e.data
    <3> HIDE DEF d
    <3>1. d \in {0, 1} => 1 - d \in {0, 1}
      OBVIOUS
    <3> QED
      BY <2>1, <3>1 DEF d
  <2> QED
    BY <2>2 DEF ExecutionRows
<1>2. [e EXCEPT !.phase = "exited"] \in ExecutionRows /\ [e EXCEPT !.settled = TRUE] \in ExecutionRows
  BY DEF ExecutionRows
<1>3. PICK f \in ExecutionRows, logged \in BOOLEAN : edit = <<f, logged>>
  <2>1. CASE edit \in {<<[e EXCEPT !.data = 1 - @], logged>> : logged \in BOOLEAN}
    BY <1>1, <2>1
  <2>2. CASE edit = <<[e EXCEPT !.phase = "exited"], TRUE>>
    BY <1>2, <2>2
  <2>3. CASE edit \in {<<[e EXCEPT !.settled = TRUE], logged>> : logged \in BOOLEAN}
    BY <1>2, <2>3
  <2> QED
    BY <2>1, <2>2, <2>3 DEF Edits
<1> QED
  BY <1>3

LEMMA ChangeFacts ==
  ASSUME StoreInv, NEW c \in Callers, row[c] # None
  PROVE  /\ \A id \in DOMAIN seen[c] : \A edit \in Edits(seen[c][id]) :
              Change(c, id, edit) \in Changes
         /\ \A new \in Executions : Entered(c, new) \in Changes
<1>1. ASSUME NEW id \in DOMAIN seen[c], NEW edit \in Edits(seen[c][id])
      PROVE  Change(c, id, edit) \in Changes
  <2>1. id \in Executions /\ seen[c][id] \in ExecutionRows
    BY DEF StoreInv, ExecutionsAreRead
  <2> QED
    BY <2>1, EditFacts, RowFields DEF Change, Changes
<1>2. ASSUME NEW new \in Executions
      PROVE  Entered(c, new) \in Changes
  <2>1. row[c].run \in Nat
    BY DEF StoreInv, ReadsAreOfRuns, RowReads
  <2>2. NewExecution(row[c].run) \in ExecutionRows
    BY <2>1 DEF NewExecution, ExecutionRows
  <2> QED
    BY <2>2 DEF Entered, Changes
<1> QED
  BY <1>1, <1>2

LEMMA UpdatesStep ==
  ASSUME StoreInv, NEW c \in Callers, Updates(c)
  PROVE  StoreIdle \/ \E r : Advanced(c, r)
<1>1. row[c] # None /\ row[c].cur \in Executions
  BY DEF Updates, StoreInv, ReadsAreOfRuns, RowReads
<1>2. DOMAIN seen[c] \subseteq Executions
  BY DEF StoreInv, ExecutionsAreRead
<1>3. PICK status \in {"running", "completed", "terminated"}, cur \in Executions,
           changes \in Seq(Changes) : Len(changes) \in 0..2 /\ Update(c, status, cur, changes)
  <2>1. ASSUME NEW status \in {"running", "completed", "terminated"}, Update(c, status, row[c].cur, <<>>)
        PROVE  <<>> \in Seq(Changes) /\ Len(<<>>) \in 0..2
    OBVIOUS
  <2>2. ASSUME NEW x \in Changes
        PROVE  <<x>> \in Seq(Changes) /\ Len(<<x>>) \in 0..2
    OBVIOUS
  <2>3. ASSUME NEW x \in Changes, NEW y \in Changes
        PROVE  <<x, y>> \in Seq(Changes) /\ Len(<<x, y>>) \in 0..2
    OBVIOUS
  <2>4. CASE \E status \in {"running", "completed", "terminated"} : Update(c, status, row[c].cur, <<>>)
    BY <1>1, <2>1, <2>4
  <2>5. CASE \E status \in {"running", "completed", "terminated"} :
               \E id \in DOMAIN seen[c] : \E edit \in Edits(seen[c][id]) :
                 Update(c, status, row[c].cur, <<Change(c, id, edit)>>)
    <3>1. PICK status \in {"running", "completed", "terminated"}, x \in Changes :
                 Update(c, status, row[c].cur, <<x>>)
      BY <1>1, <2>5, ChangeFacts
    <3> QED
      BY <1>1, <2>2, <3>1
  <2>6. CASE \E id \in DOMAIN seen[c] : \E edit \in Edits(seen[c][id]) :
               \E new \in Executions :
                 Update(c, "running", new, <<Change(c, id, edit), Entered(c, new)>>)
    <3>1. PICK new \in Executions, x \in Changes : Update(c, "running", new, <<x, Entered(c, new)>>)
      BY <1>1, <2>6, ChangeFacts
    <3>2. Entered(c, new) \in Changes
      BY <1>1, ChangeFacts
    <3> QED
      BY <2>3, <3>1, <3>2
  <2>7. CASE \E id, id2 \in DOMAIN seen[c] :
               \E edit \in Edits(seen[c][id]), edit2 \in Edits(seen[c][id2]) :
                 Update(c, "running", row[c].cur, <<Change(c, id, edit), Change(c, id2, edit2)>>)
    <3>1. PICK id \in DOMAIN seen[c], id2 \in DOMAIN seen[c] :
               \E edit \in Edits(seen[c][id]), edit2 \in Edits(seen[c][id2]) :
                 Update(c, "running", row[c].cur, <<Change(c, id, edit), Change(c, id2, edit2)>>)
      BY <2>7
    <3>2. PICK edit \in Edits(seen[c][id]), edit2 \in Edits(seen[c][id2]) :
                 Update(c, "running", row[c].cur, <<Change(c, id, edit), Change(c, id2, edit2)>>)
      BY <3>1
    <3>3. Change(c, id, edit) \in Changes /\ Change(c, id2, edit2) \in Changes
      BY <1>1, ChangeFacts
    <3> QED
      BY <1>1, <2>3, <3>2, <3>3
  <2> QED
    BY <2>4, <2>5, <2>6, <2>7 DEF Updates
<1> QED
  BY <1>1, <1>3, UpdateStep

LEMMA ReadsInv ==
  ASSUME StoreInv, NEW c \in Callers, Get(c) \/ \E id \in Executions : ReadExecution(c, id)
  PROVE  StoreInv'
<1>1. /\ UNCHANGED <<runs, execs, log, page>> /\ Sound(Tables) /\ DOMAIN seen = Callers
      /\ row \in [Callers -> RowReads \cup {None}] /\ ReadsAreOfRuns /\ ExecutionsAreRead
      /\ \A r \in DOMAIN runs : execs[runs[r].cur] # None
  BY DEF StoreInv, Get, ReadExecution
<1>2. Tables' = Tables /\ Pages'
  BY <1>1 DEF StoreInv, Tables, Pages, PagesAreGapless
<1>3. CASE Get(c)
  <2>1. Latest \in DOMAIN runs /\ Latest \in Nat
    BY <1>1, <1>3, SoundTypes DEF Get, Latest
  <2>2. /\ RowOf(Tables, Latest) \in RowReads /\ RowOf(Tables, Latest).run = Latest
        /\ RowOf(Tables, Latest).ver = runs[Latest].ver /\ runs[Latest].ver \in Nat
    BY <1>1, <2>1, SoundTypes, RowOfFields, TablesFields
  <2>3. /\ runs[Latest].cur \in Executions /\ execs[runs[Latest].cur] \in ExecutionRows
    BY <1>1, <2>1, SoundTypes
  <2>4. /\ row' = [row EXCEPT ![c] = RowOf(Tables, Latest)]
        /\ seen' = [seen EXCEPT ![c] = [id \in {runs[Latest].cur} |-> execs[id]]]
    BY <1>3 DEF Get
  <2>5. ReadsAreOfRuns'
    BY <1>1, <1>2, <2>1, <2>2, <2>4 DEF ReadsAreOfRuns
  <2>6. ExecutionsAreRead'
    BY <1>1, <2>3, <2>4 DEF ExecutionsAreRead
  <2> QED
    BY <1>1, <1>2, <2>2, <2>4, <2>5, <2>6 DEF StoreInv
<1>4. ASSUME NEW id \in Executions, ReadExecution(c, id) PROVE StoreInv'
  <2>1. /\ seen' = [seen EXCEPT ![c] = [i \in DOMAIN seen[c] \cup {id} |->
                                          IF i = id THEN execs[id] ELSE seen[c][i]]]
        /\ execs[id] # None /\ UNCHANGED row
    BY <1>4 DEF ReadExecution
  <2>2. execs[id] \in ExecutionRows
    BY <1>1, <2>1, SoundTypes
  <2>3. ExecutionsAreRead' /\ DOMAIN seen' = Callers
    BY <1>1, <2>1, <2>2 DEF ExecutionsAreRead
  <2>4. ReadsAreOfRuns'
    BY <1>1, <1>2, <2>1 DEF ReadsAreOfRuns
  <2> QED
    BY <1>1, <1>2, <2>1, <2>3, <2>4 DEF StoreInv
<1> QED
  BY <1>3, <1>4

\* The next page begins with the event behind the last one given.
LEMMA ReadPageInv ==
  ASSUME StoreInv, NEW id \in Executions, ReadPage(id)
  PROVE  StoreInv'
<1> DEFINE after == IF page = <<>> THEN 0 ELSE page[Len(page)].sequence
           rest  == {i \in DOMAIN log[id] : After(i, after)}
           first == CHOOSE i \in rest : \A k \in rest : i <= k
           count == IF Cardinality(rest) < PageLimit THEN Cardinality(rest) ELSE PageLimit
           next  == [k \in 1..count |-> [id |-> id, sequence |-> first + k - 1]]
           Entries == [id : Executions, sequence : Nat]
<1>1. /\ UNCHANGED <<runs, execs, log, row, seen>> /\ rest # {} /\ page' = page \o next
  BY DEF ReadPage
<1>2. page \in Seq(Entries) /\ PagesAreGapless /\ Len(page) \in Nat /\ DOMAIN page = 1..Len(page)
  BY LenProperties DEF StoreInv, Pages
<1>3. after = Len(page)
  BY <1>2, EmptySeq DEF PagesAreGapless
<1>4. log[id] \in Seq(ExecutionRows) /\ Len(log[id]) \in Nat /\ DOMAIN log[id] = 1..Len(log[id])
  BY SoundTypes, LenProperties DEF StoreInv
<1>5. rest = (Len(page) + 1)..Len(log[id])
  BY <1>2, <1>3, <1>4 DEF After
<1>6. Cardinality(rest) \in Nat
  <2>1. Len(page) + 1 \in Int /\ Len(log[id]) \in Int
    BY <1>2, <1>4
  <2>2. IsFiniteSet((Len(page) + 1)..Len(log[id]))
    BY <2>1, FS_Interval
  <2> QED
    BY <1>5, <2>2, FS_CardinalityType
<1> HIDE DEF after, rest
<1>7. first = Len(page) + 1
  <2>1. Len(page) + 1 \in rest /\ \A k \in rest : Len(page) + 1 <= k
    BY <1>1, <1>2, <1>4, <1>5
  <2>2. first \in rest /\ \A k \in rest : first <= k
    BY <2>1
  <2> HIDE DEF first
  <2> QED
    BY <1>2, <1>4, <1>5, <2>1, <2>2
<1>8. count \in Nat
  BY <1>6, StoreAssumption
<1> HIDE DEF first, count
<1>9. next \in Seq(Entries) /\ Len(next) = count /\ DOMAIN next = 1..count
  <2>1. \A k \in 1..count : [id |-> id, sequence |-> first + k - 1] \in Entries
    BY <1>2, <1>7, <1>8
  <2>2. next \in [1..count -> Entries]
    BY <2>1
  <2> QED
    BY <1>8, <2>2, IsASeq, LenProperties
<1>10. \A k \in 1..count : next[k].sequence = Len(page) + k
  BY <1>2, <1>7, <1>8
<1> HIDE DEF next, Entries
<1>11. /\ page' \in Seq(Entries) /\ Len(page') = Len(page) + count
       /\ DOMAIN page' = 1..(Len(page) + count)
       /\ \A i \in 1..Len(page) : page'[i] = page[i]
       /\ \A i \in 1..count : page'[Len(page) + i] = next[i]
  <2>1. /\ page \o next \in Seq(Entries) /\ Len(page \o next) = Len(page) + count
        /\ \A i \in 1..(Len(page) + count) :
             (page \o next)[i] = IF i <= Len(page) THEN page[i] ELSE next[i - Len(page)]
    BY <1>2, <1>9, ConcatProperties
  <2>2. /\ page' \in Seq(Entries) /\ Len(page') = Len(page) + count
        /\ \A i \in 1..(Len(page) + count) :
             page'[i] = IF i <= Len(page) THEN page[i] ELSE next[i - Len(page)]
    BY <1>1, <2>1
  <2>3. DOMAIN page' = 1..(Len(page) + count)
    BY <2>2, LenProperties
  <2>4. ASSUME NEW i \in 1..count PROVE page'[Len(page) + i] = next[i]
    <3>1. Len(page) + i \in 1..(Len(page) + count) /\ ~(Len(page) + i <= Len(page))
          /\ Len(page) + i - Len(page) = i
      BY <1>2, <1>8
    <3> QED
      BY <2>2, <3>1
  <2>5. ASSUME NEW i \in 1..Len(page) PROVE page'[i] = page[i]
    <3>1. i \in 1..(Len(page) + count) /\ i <= Len(page)
      BY <1>2, <1>8
    <3> QED
      BY <2>2, <3>1
  <2> QED
    BY <2>2, <2>3, <2>4, <2>5
<1>12. PagesAreGapless'
  <2> SUFFICES ASSUME NEW i \in 1..(Len(page) + count) PROVE page'[i].sequence = i
    BY <1>11 DEF PagesAreGapless
  <2>1. CASE i \in 1..Len(page)
    BY <1>2, <1>11, <2>1 DEF PagesAreGapless
  <2>2. CASE i \notin 1..Len(page)
    <3>1. i - Len(page) \in 1..count /\ i = Len(page) + (i - Len(page))
      BY <1>2, <1>8, <2>2
    <3>2. page'[Len(page) + (i - Len(page))].sequence = Len(page) + (i - Len(page))
      BY <1>10, <1>11, <3>1
    <3> QED
      BY <3>1, <3>2
  <2> QED
    BY <2>1, <2>2
<1>13. Tables' = Tables /\ Pages'
  BY <1>1, <1>11, <1>12 DEF Tables, Pages, Entries
<1> QED
  BY <1>1, <1>13 DEF StoreInv, ReadsAreOfRuns, ExecutionsAreRead

-----------------------------------------------------------------------------
(* The specification: the store in use and the cutover of an old one.      *)

LEMMA StoreInitInv ==
  ASSUME Init
  PROVE  StoreInv
<1>1. /\ runs = <<>> /\ execs = [id \in Executions |-> None] /\ log = [id \in Executions |-> <<>>]
      /\ row = [c \in Callers |-> None] /\ seen = [c \in Callers |-> <<>>] /\ page = <<>>
  BY DEF Init, StoreInit
<1>2. DOMAIN runs = {} /\ DOMAIN page = {} /\ page \in Seq([id : Executions, sequence : Nat])
      /\ \A c \in Callers : DOMAIN seen[c] = {}
  BY <1>1
<1>3. Sound(Tables)
  <2>1. Tables = [runs |-> runs, execs |-> execs, log |-> log]
    BY DEF Tables
  <2>2. runs \in Seq(RunRows) /\ execs \in [Executions -> ExecutionRows \cup {None}]
        /\ log \in [Executions -> Seq(ExecutionRows)]
    BY <1>1
  <2> QED
    BY <1>1, <2>1, <2>2 DEF Sound, TableStates
<1> QED
  BY <1>1, <1>2, <1>3 DEF StoreInv, ReadsAreOfRuns, ExecutionsAreRead, Pages, PagesAreGapless

LEMMA StoreIdleInv ==
  ASSUME StoreInv, StoreIdle
  PROVE  StoreInv'
<1>1. Tables' = Tables
  BY DEF StoreIdle, Tables
<1> QED
  BY <1>1 DEF StoreIdle, StoreInv, ReadsAreOfRuns, ExecutionsAreRead, Pages, PagesAreGapless

\* What any step does to the tables: nothing, an update of a run by a caller
\* that had read its row, or a new run.
LEMMA StepCommits ==
  ASSUME StoreInv, [Next]_vars
  PROVE  \/ UNCHANGED <<runs, execs, log>>
         \/ \E c \in Callers : \E r : Advanced(c, r) \/ Created(c, r)
<1>1. CASE \E c \in Callers : Updates(c)
  BY <1>1, UpdatesStep DEF StoreIdle
<1>2. CASE \E c \in Callers, id \in Executions : Create(c, id)
  BY <1>2, CreateStep DEF StoreIdle
<1>3. CASE \E c \in Callers : Get(c) \/ \E id \in Executions : ReadExecution(c, id)
  BY <1>3 DEF Get, ReadExecution
<1>4. CASE \E id \in Executions : ReadPage(id)
  BY <1>4 DEF ReadPage
<1>5. CASE UNCHANGED <<runs, execs, log, row, seen, page>>
  BY <1>5
<1> QED
  BY <1>1, <1>2, <1>3, <1>4, <1>5 DEF Next, StoreNext, vars, storeVars

LEMMA StoreStep ==
  ASSUME StoreInv, [Next]_vars
  PROVE  StoreInv'
<1>1. CASE \E c \in Callers : Updates(c)
  BY <1>1, UpdatesStep, StoreIdleInv, CommittedInv DEF Advanced
<1>2. CASE \E c \in Callers, id \in Executions : Create(c, id)
  BY <1>2, CreateStep, StoreIdleInv, CommittedInv DEF Created
<1>3. CASE \E c \in Callers : Get(c) \/ \E id \in Executions : ReadExecution(c, id)
  BY <1>3, ReadsInv
<1>4. CASE \E id \in Executions : ReadPage(id)
  BY <1>4, ReadPageInv
<1>5. CASE UNCHANGED <<runs, execs, log, row, seen, page>>
  BY <1>5, StoreIdleInv DEF StoreIdle
<1> QED
  BY <1>1, <1>2, <1>3, <1>4, <1>5 DEF Next, StoreNext, vars, storeVars

\* The tables are sound, every run names an execution that is there, and what
\* a caller holds is of a run that is there and no newer than it.
THEOREM StoreHolds == Spec => []StoreInv
BY StoreInitInv, StoreStep, PTL DEF Spec

\* The events of an execution can always be read back, in order of revision.
THEOREM EventsAreReadable == Spec => []LogIsReadable
<1>1. StoreInv => LogIsReadable
  BY DEF StoreInv, Sound, Readable, Tables, LogIsReadable, Known
<1> QED
  BY <1>1, StoreHolds, PTL

\* However a reader's pages and the writes of others fall, it gets every event once.
THEOREM PagesHaveNoGap == Spec => []PagesAreGapless
<1>1. StoreInv => PagesAreGapless
  BY DEF StoreInv, Pages
<1> QED
  BY <1>1, StoreHolds, PTL

LEMMA CommitFacts ==
  ASSUME StoreInv, NEW c \in Callers, NEW r, Committed(c, r)
  PROVE  /\ r \in DOMAIN runs' /\ Len(runs') = r
         /\ \A k \in DOMAIN runs : k <= r /\ (k # r => runs'[k] = runs[k])
         /\ r \in DOMAIN runs => /\ runs'[r].ver = runs[r].ver + 1 /\ r = Len(runs)
                                 /\ ~Ended(runs[r].status)
         /\ r \notin DOMAIN runs => r = Len(runs) + 1
         /\ Extends(Tables, Tables', r) /\ row'[c] = RowOf(Tables', r)
         /\ execs'[runs'[r].cur] # None /\ Consistent(runs'[r].status, execs'[runs'[r].cur])
<1>1. /\ Tables'.runs = runs' /\ Tables'.execs = execs' /\ Tables'.log = log'
      /\ Tables.runs = runs /\ Tables.execs = execs /\ Tables.log = log
  BY DEF Tables
<1>2. Sound(Tables) /\ Commits(Tables, Tables', r)
  BY DEF StoreInv, Committed
<1>3. row'[c] = RowOf(Tables', r)
  BY DEF StoreInv, Committed
<1>4. /\ r \in DOMAIN runs' /\ Len(runs') = r
      /\ \A k \in DOMAIN runs : k <= r /\ (k # r => runs'[k] = runs[k])
      /\ r \in DOMAIN runs => /\ runs'[r].ver = runs[r].ver + 1 /\ r = Len(runs)
                              /\ ~Ended(runs[r].status)
      /\ r \notin DOMAIN runs => r = Len(runs) + 1
  <2> DEFINE t == Tables
             u == Tables'
  <2>1. Sound(t) /\ Commits(t, u, r) /\ t.runs = runs /\ u.runs = runs'
    BY <1>1, <1>2
  <2> HIDE DEF t, u
  <2> QED
    BY <2>1, CommittedRuns
<1>5. /\ Extends(Tables, Tables', r)
      /\ execs'[runs'[r].cur] # None /\ Consistent(runs'[r].status, execs'[runs'[r].cur])
  BY <1>1, <1>2 DEF Commits
<1> QED
  BY <1>3, <1>4, <1>5

LEMMA NoLostUpdateStep ==
  ASSUME StoreInv, [Next]_vars, NEW r \in DOMAIN runs, runs'[r] # runs[r]
  PROVE  /\ runs'[r].ver = runs[r].ver + 1
         /\ \E c \in Callers : row[c] = RowOf(Tables, r) /\ row'[c].ver = runs'[r].ver
<1>1. PICK c, k : c \in Callers /\ (Advanced(c, k) \/ Created(c, k))
  BY StepCommits
<1>2. Committed(c, k)
  BY <1>1 DEF Advanced, Created
<1>3. k = r
  BY <1>1, <1>2, CommitFacts
<1>4. row[c] = RowOf(Tables, r)
  BY <1>1, <1>3 DEF Advanced, Created
<1>5. row'[c].ver = runs'[r].ver
  <2>1. row'[c] = RowOf(Tables', r)
    BY <1>1, <1>2, <1>3, CommitFacts
  <2>2. Tables'.runs = runs'
    BY DEF Tables
  <2> QED
    BY <2>1, <2>2 DEF RowOf
<1> QED
  BY <1>1, <1>2, <1>3, <1>4, <1>5, CommitFacts

\* A run advances only by an update made from the very row that it replaces.
THEOREM NoUpdateIsLost == Spec => NoLostUpdate
<1> DEFINE A == \A r \in DOMAIN runs :
                  runs'[r] # runs[r] =>
                    /\ runs'[r].ver = runs[r].ver + 1
                    /\ \E c \in Callers : row[c] = RowOf(Tables, r) /\ row'[c].ver = runs'[r].ver
<1>1. StoreInv /\ [Next]_vars => [A]_storeVars
  BY NoLostUpdateStep
<1>2. [][A]_storeVars => NoLostUpdate
  BY PTL DEF NoLostUpdate
<1> HIDE DEF A
<1> QED
  BY <1>1, <1>2, StoreHolds, PTL DEF Spec

LEMMA EndedRunStays ==
  ASSUME StoreInv, [Next]_vars, NEW r \in DOMAIN runs, Ended(runs[r].status) \/ r < Len(runs)
  PROVE  /\ runs'[r] = runs[r]
         /\ \A id \in Known : execs[id].run = r => execs'[id] = execs[id] /\ log'[id] = log[id]
<1>1. CASE UNCHANGED <<runs, execs, log>>
  BY <1>1
<1>2. CASE \E c \in Callers : \E k : Advanced(c, k) \/ Created(c, k)
  <2>1. PICK c, k : c \in Callers /\ Committed(c, k)
    BY <1>2 DEF Advanced, Created
  <2>2. k # r
    <3>1. Len(runs) \in Nat /\ r \in 1..Len(runs)
      BY SoundTypes DEF StoreInv
    <3> QED
      BY <2>1, <3>1, CommitFacts
  <2>3. Extends(Tables, Tables', k) /\ runs'[r] = runs[r]
    BY <2>1, <2>2, CommitFacts
  <2> QED
    BY <2>2, <2>3 DEF Extends, Tables, Known
<1> QED
  BY <1>1, <1>2, StepCommits

LEMMA LeftExecutionStays ==
  ASSUME StoreInv, [Next]_vars, NEW id \in Known, execs[id].phase = "exited"
  PROVE  log'[id] = log[id] /\ OnlySettled(execs[id], execs'[id])
<1>1. CASE UNCHANGED <<runs, execs, log>>
  BY <1>1 DEF OnlySettled
<1>2. CASE \E c \in Callers : \E k : Advanced(c, k) \/ Created(c, k)
  <2>1. PICK c, k : c \in Callers /\ Committed(c, k)
    BY <1>2 DEF Advanced, Created
  <2>2. Extends(Tables, Tables', k)
    BY <2>1, CommitFacts
  <2>3. id \in Executions /\ execs[id] # None
    BY DEF Known
  <2>4. \/ execs'[id] = execs[id] /\ log'[id] = log[id]
        \/ log'[id] = log[id] /\ OnlySettled(execs[id], execs'[id])
    BY <2>2, <2>3 DEF Extends, Tables
  <2> QED
    BY <2>4 DEF OnlySettled
<1> QED
  BY <1>1, <1>2, StepCommits

\* A run that is over, or followed by another, is never touched again, nor is
\* what it recorded; of an execution that was left only the Judge may settle.
THEOREM EndedStays == Spec => WhatEndedStays
<1> DEFINE A == /\ \A r \in DOMAIN runs :
                     Ended(runs[r].status) \/ r < Len(runs)
                       => /\ runs'[r] = runs[r]
                          /\ \A id \in Known : execs[id].run = r =>
                               execs'[id] = execs[id] /\ log'[id] = log[id]
                /\ \A id \in Known : execs[id].phase = "exited" =>
                     /\ log'[id] = log[id]
                     /\ [execs'[id] EXCEPT !.rev = 0] \in
                          {[execs[id] EXCEPT !.rev = 0], [execs[id] EXCEPT !.rev = 0, !.settled = TRUE]}
<1>1. StoreInv /\ [Next]_vars => [A]_storeVars
  <2> SUFFICES ASSUME StoreInv, [Next]_vars PROVE A
    OBVIOUS
  <2>1. \A r \in DOMAIN runs :
          Ended(runs[r].status) \/ r < Len(runs)
            => /\ runs'[r] = runs[r]
               /\ \A id \in Known : execs[id].run = r => execs'[id] = execs[id] /\ log'[id] = log[id]
    BY EndedRunStays
  <2>2. \A id \in Known : execs[id].phase = "exited" =>
          log'[id] = log[id] /\ OnlySettled(execs[id], execs'[id])
    BY LeftExecutionStays
  <2> QED
    BY <2>1, <2>2 DEF OnlySettled
<1>2. [][A]_storeVars => WhatEndedStays
  BY PTL DEF WhatEndedStays
<1> HIDE DEF A
<1> QED
  BY <1>1, <1>2, StoreHolds, PTL DEF Spec

LEMMA WritesAreWholeStep ==
  ASSUME StoreInv, [Next]_vars, ~UNCHANGED <<runs, execs, log>>
  PROVE  /\ runs' # runs
         /\ LET r == runs'[Len(runs')]
            IN  execs'[r.cur] # None /\ Consistent(r.status, execs'[r.cur])
<1>1. PICK c, k : c \in Callers /\ Committed(c, k)
  BY StepCommits DEF Advanced, Created
<1>2. runs' # runs
  <2>1. CASE k \in DOMAIN runs
    <3>1. runs'[k].ver = runs[k].ver + 1 /\ runs[k].ver \in Nat
      BY <1>1, <2>1, CommitFacts, SoundTypes DEF StoreInv
    <3> QED
      BY <3>1
  <2>2. CASE k \notin DOMAIN runs
    BY <1>1, <2>2, CommitFacts
  <2> QED
    BY <2>1, <2>2
<1> QED
  BY <1>1, <1>2, CommitFacts

\* An execution or an event is written only together with the run it belongs
\* to, which then names an execution that is there and is consistent with it.
THEOREM WritesGoWhole == Spec => WritesAreWhole
<1> DEFINE A == /\ (\E id \in Executions : execs'[id] # execs[id] \/ log'[id] # log[id]) => runs' # runs
                /\ runs' # runs => LET r == runs'[Len(runs')]
                                   IN  execs'[r.cur] # None /\ Consistent(r.status, execs'[r.cur])
<1>1. StoreInv /\ [Next]_vars => [A]_storeVars
  BY WritesAreWholeStep
<1>2. [][A]_storeVars => WritesAreWhole
  BY PTL DEF WritesAreWhole
<1> HIDE DEF A
<1> QED
  BY <1>1, <1>2, StoreHolds, PTL DEF Spec

-----------------------------------------------------------------------------
(* The cutover.                                                            *)

Contents == {"old", "half", "new", "none"}
Moving == {"move", "discard", "restore"}

CutoverTypeOK ==
  /\ kind \in {"none", "incompatible", "corrupt"}
  /\ had \in IF kind = "none" THEN {{}} ELSE {{"main"}, Files}
  /\ place \in [Files -> Contents]
  /\ archive \in Seq(SUBSET Files)
  /\ backup \in BOOLEAN /\ stuck \in BOOLEAN /\ torn \in BOOLEAN
  /\ step \in {"idle", "backup", "archive"} \cup Moving
  /\ moved \in Seq([file : Files, was : Contents])
  /\ diag \in {"none", "incompatible", "corrupt"}

\* A cutover is at work only on a store that is not open, and what it has moved
\* is remembered until it ends.
AtWorkOnClosed ==
  /\ step # "idle" => diag # "none"
  /\ step \notin Moving => moved = <<>>
  /\ kind = "none" => diag = "none"

\* What the cutover has moved is away from its place, and what was old of it,
\* and nothing else, is in the newest archive.
MovedIsArchived ==
  step \in Moving =>
    /\ Len(archive) > 0
    /\ archive[Newest] \subseteq {moved[i].file : i \in DOMAIN moved}
    /\ \A i \in DOMAIN moved :
         /\ moved[i].was = "old" <=> moved[i].file \in archive[Newest]
         /\ place[moved[i].file] \in {"none", "half"}
         /\ step # "discard" => place[moved[i].file] = "none"

\* Each file is moved once, the main file first.
MainGoesFirst ==
  /\ \A i, j \in DOMAIN moved : moved[i].file = moved[j].file => i = j
  /\ \A i \in DOMAIN moved : moved[i].file = "main" => i = 1
  /\ \A i \in DOMAIN moved : moved[i].file = "wal" /\ step # "discard" => place["main"] = "none"

\* Where openStore has left a part of a new store there is nothing old.
HalfMadeStandsAlone ==
  /\ step = "discard" => \A f \in Files : place[f] \in {"half", "none"}
  /\ place["main"] = "half" => place["wal"] # "old"
  /\ \A i \in DOMAIN moved : moved[i].file = "main" /\ moved[i].was = "half" =>
       /\ place["wal"] # "old"
       /\ \A j \in DOMAIN moved : ~(moved[j].file = "wal" /\ moved[j].was = "old")

AsItWas(f) == place[f] = IF f \in had THEN "old" ELSE "none"

\* A store that can be read is not touched before it is backed up.
BackedUpFirst ==
  kind = "incompatible" /\ ~backup =>
    /\ step \in {"idle", "backup"} /\ diag = "incompatible"
    /\ \A f \in Files : AsItWas(f)

\* Unless undoing has failed, what is not moved is as it was, and what is moved
\* was old.
UndoneIsAsItWas ==
  ~stuck /\ diag # "none" =>
    /\ \A i \in DOMAIN moved : moved[i].was = "old" /\ moved[i].file \in had
    /\ \A f \in Files \ {moved[i].file : i \in DOMAIN moved} :
         IF step = "discard" THEN f \notin had ELSE AsItWas(f)

CutoverInv ==
  /\ CutoverTypeOK /\ AtWorkOnClosed /\ MovedIsArchived /\ MainGoesFirst
  /\ HalfMadeStandsAlone /\ BackedUpFirst /\ UndoneIsAsItWas
  /\ OldDataIsKept /\ OpenIsNew

-----------------------------------------------------------------------------
(* The sequence of what has been moved.                                    *)

\* Two sets that lie in a third one which lies in both are the same.
LEMMA SameSet ==
    ASSUME NEW S, NEW A, NEW B, A \subseteq S, B \subseteq S, S \subseteq A \cap B
    PROVE  A = B
  OBVIOUS

\* Appending keeps what was there and adds one element.
LEMMA AppendOne ==
  ASSUME NEW S, NEW s \in Seq(S), NEW e \in S
  PROVE  /\ Append(s, e) \in Seq(S) /\ Len(Append(s, e)) = Len(s) + 1
         /\ DOMAIN Append(s, e) = DOMAIN s \cup {Len(s) + 1}
         /\ \A i \in DOMAIN s : Append(s, e)[i] = s[i] /\ i \in 1..Len(s)
         /\ Append(s, e)[Len(s) + 1] = e
         /\ Len(s) \in Nat /\ Len(s) + 1 \notin DOMAIN s
  BY LenProperties, AppendProperties

\* Taking the last element away keeps the others.
LEMMA AllButLast ==
  ASSUME NEW S, NEW s \in Seq(S), s # <<>>
  PROVE  LET front == SubSeq(s, 1, Len(s) - 1)
         IN  /\ front \in Seq(S) /\ Len(s) \in DOMAIN s /\ s[Len(s)] \in S
             /\ DOMAIN front = DOMAIN s \ {Len(s)}
             /\ \A i \in DOMAIN front : front[i] = s[i]
             /\ Len(s) \in Nat \ {0} /\ DOMAIN s = 1..Len(s)
  BY LenProperties, SubSeqProperties

\* The newest archive is that of the cutover at work.
LEMMA NewestChanged ==
  ASSUME archive \in Seq(SUBSET Files), Len(archive) > 0, NEW a \in SUBSET Files,
         archive' = [archive EXCEPT ![Newest] = a]
  PROVE  /\ archive' \in Seq(SUBSET Files) /\ Len(archive') = Len(archive)
         /\ archive'[Newest'] = a
         /\ \A i \in DOMAIN archive : i # Newest => archive'[i] = archive[i]
         /\ DOMAIN archive' = DOMAIN archive /\ Newest \in DOMAIN archive
  BY LenProperties, ExceptSeq DEF Newest

\* What is remembered of each file that was moved.
LEMMA MovedRecords ==
  ASSUME CutoverTypeOK
  PROVE  /\ DOMAIN moved = 1..Len(moved) /\ Len(moved) \in Nat
         /\ \A i \in DOMAIN moved : moved[i].file \in Files /\ moved[i].was \in Contents
<1>1. /\ DOMAIN moved = 1..Len(moved) /\ Len(moved) \in Nat
      /\ moved \in [1..Len(moved) -> [file : Files, was : Contents]]
  BY LenProperties DEF CutoverTypeOK
<1>2. QED  BY <1>1

\* RestoresFile forgets the file that was moved last.
LEMMA RestoreForgets ==
  ASSUME CutoverTypeOK, RestoresFile
  PROVE  /\ DOMAIN moved' = DOMAIN moved \ {Len(moved)} /\ Len(moved) \in DOMAIN moved
         /\ \A i \in DOMAIN moved' : moved'[i] = moved[i]
         /\ moved' \in Seq([file : Files, was : Contents])
         /\ moved[Len(moved)] \in [file : Files, was : Contents]
  BY AllButLast DEF CutoverTypeOK, RestoresFile

-----------------------------------------------------------------------------
LEMMA CutoverStarts == Init => CutoverInv
<1> SUFFICES ASSUME CutoverInit PROVE CutoverInv
  BY DEF Init
<1> USE DEF CutoverInit, Files, Contents, Moving
<1>1. had \subseteq Files /\ (kind = "none" => had = {})
  OBVIOUS
<1>2. CutoverTypeOK
  <2>1. place \in [Files -> Contents]
    OBVIOUS
  <2>2. archive \in Seq(SUBSET Files) /\ moved \in Seq([file : Files, was : Contents])
    BY EmptySeq
  <2>3. had \in IF kind = "none" THEN {{}} ELSE {{"main"}, Files}
    OBVIOUS
  <2>4. QED  BY <2>1, <2>2, <2>3 DEF CutoverTypeOK
<1>3. AtWorkOnClosed /\ MovedIsArchived /\ MainGoesFirst
  BY DEF AtWorkOnClosed, MovedIsArchived, MainGoesFirst
<1>4. HalfMadeStandsAlone
  BY DEF HalfMadeStandsAlone
<1>5. BackedUpFirst /\ UndoneIsAsItWas
  BY DEF BackedUpFirst, UndoneIsAsItWas, AsItWas
<1>6. OldDataIsKept /\ OpenIsNew
  BY <1>1 DEF OldDataIsKept, Kept, OpenIsNew
<1>7. QED  BY <1>2, <1>3, <1>4, <1>5, <1>6 DEF CutoverInv

LEMMA CutoverStep == CutoverInv /\ [CutoverNext]_cutoverVars => CutoverInv'
<1> SUFFICES ASSUME CutoverInv, [CutoverNext]_cutoverVars PROVE CutoverInv'
  OBVIOUS
<1> USE DEF CutoverInv, CutoverTypeOK, AtWorkOnClosed, MovedIsArchived, MainGoesFirst,
            HalfMadeStandsAlone, BackedUpFirst, UndoneIsAsItWas, AsItWas, OldDataIsKept,
            Kept, OpenIsNew, Files, Contents, Moving, Newest, Fault
<1>0. /\ DOMAIN moved = 1..Len(moved) /\ Len(moved) \in Nat
      /\ \A i \in DOMAIN moved : moved[i].file \in Files /\ moved[i].was \in Contents
  BY MovedRecords
<1>1. CASE UNCHANGED cutoverVars
  BY <1>1 DEF cutoverVars
<1>2. CASE Starts
  BY <1>2 DEF Starts
<1>3. CASE BacksUp
  <2>1. /\ step = "backup" /\ step' = "archive" /\ backup' = (backup \/ place["main"] = "old")
        /\ UNCHANGED <<kind, had, place, archive, moved, diag, stuck, torn>>
    BY <1>3 DEF BacksUp
  <2>2. CutoverTypeOK' /\ AtWorkOnClosed' /\ MovedIsArchived' /\ MainGoesFirst'
    BY <2>1
  <2>3. HalfMadeStandsAlone' /\ UndoneIsAsItWas' /\ OldDataIsKept' /\ OpenIsNew'
    BY <2>1
  <2>4. BackedUpFirst'
    BY <2>1
  <2> QED
    BY <2>2, <2>3, <2>4
<1>4. CASE BackupFails
  BY <1>4 DEF BackupFails
<1>5. CASE MakesArchive
  BY <1>5 DEF MakesArchive
<1>6. ASSUME NEW f \in Files, Moves(f) PROVE CutoverInv'
  <2> DEFINE e == [file |-> f, was |-> place[f]]
             last == Len(moved) + 1
  <2>a. /\ DOMAIN moved' = DOMAIN moved \cup {last} /\ last \notin DOMAIN moved
        /\ \A i \in DOMAIN moved : moved'[i] = moved[i]
        /\ moved'[last] = e /\ Len(moved) \in Nat
    BY <1>6, AppendOne, e \in [file : Files, was : Contents] DEF Moves, ToMove
  <2>b. /\ place[f] # "none" /\ place' = [place EXCEPT ![f] = "none"] /\ step' = step /\ step = "move"
        /\ \A i \in DOMAIN moved : moved[i].file # f /\ place[moved[i].file] = "none"
    BY <1>6 DEF Moves, ToMove
  <2>c. /\ Len(archive') = Len(archive) /\ Len(archive) > 0
        /\ archive'[Newest'] = IF place[f] = "old" THEN archive[Newest] \cup {f} ELSE archive[Newest]
    BY <1>6, NewestChanged, archive[Newest] \in SUBSET Files DEF Moves
  <2>1. CutoverTypeOK'
    BY <1>6 DEF Moves, ToMove
  <2>2. AtWorkOnClosed'
    BY <1>6 DEF Moves, ToMove
  <2>3. MovedIsArchived'
    <3>1. archive'[Newest'] \subseteq {moved'[i].file : i \in DOMAIN moved'}
      BY <2>a, <2>b, <2>c
    <3>2. ASSUME NEW i \in DOMAIN moved'
          PROVE  /\ moved'[i].was = "old" <=> moved'[i].file \in archive'[Newest']
                 /\ place'[moved'[i].file] = "none"
      <4>1. CASE i = last
        BY <4>1, <2>a, <2>b, <2>c
      <4>2. CASE i \in DOMAIN moved
        BY <4>2, <2>a, <2>b, <2>c
      <4>3. QED  BY <4>1, <4>2, <2>a
    <3>3. QED  BY <3>1, <3>2, <2>b, <2>c
  <2>4. MainGoesFirst'
    <3>1. f = "main" => Len(moved) = 0
      <4>1. f = "main" => DOMAIN moved = {}
        BY <1>0, <2>b
      <4>2. QED  BY <1>0, <4>1
    <3>2. f = "wal" => place["main"] = "none"
      BY <1>6 DEF Moves, ToMove
    <3>3. QED  BY <2>a, <2>b, <3>1, <3>2
  <2>5. HalfMadeStandsAlone'
    BY <1>6 DEF Moves, ToMove
  <2>6. BackedUpFirst'
    BY <1>6 DEF Moves, ToMove
  <2>7. UndoneIsAsItWas'
    <3> SUFFICES ASSUME ~stuck, diag # "none" PROVE UndoneIsAsItWas'
      BY <1>6 DEF Moves
    <3>1. f \notin {moved[i].file : i \in DOMAIN moved} /\ f \in had /\ place[f] = "old"
      <4>1. f \notin {moved[i].file : i \in DOMAIN moved}
        BY <2>b
      <4>2. AsItWas(f)
        BY <2>b, <4>1
      <4>3. QED  BY <2>b, <4>1, <4>2
    <3>2. {moved'[i].file : i \in DOMAIN moved'} = {moved[i].file : i \in DOMAIN moved} \cup {f}
      BY <2>a
    <3>3. had' = had
      BY <1>6 DEF Moves
    <3>4. \A i \in DOMAIN moved' : moved'[i].was = "old" /\ moved'[i].file \in had
      BY <2>a, <3>1
    <3>5. ASSUME NEW g \in Files \ {moved'[i].file : i \in DOMAIN moved'} PROVE AsItWas(g)'
      BY <2>b, <3>2, <3>3, <3>5
    <3>6. QED  BY <2>b, <3>3, <3>4, <3>5
  <2>8. OldDataIsKept'
    BY <1>6 DEF Moves, ToMove
  <2>9. OpenIsNew'
    BY <1>6 DEF Moves, ToMove
  <2>10. QED  BY <2>1, <2>2, <2>3, <2>4, <2>5, <2>6, <2>7, <2>8, <2>9
<1>7. CASE MoveFails
  BY <1>7 DEF MoveFails, ToMove
<1>8. CASE Opens
  <2>1. CutoverTypeOK'
    BY <1>8 DEF Opens, ToMove
  <2>2. AtWorkOnClosed'
    BY <1>8 DEF Opens, ToMove
  <2>3. MovedIsArchived'
    BY <1>8 DEF Opens, ToMove
  <2>4. MainGoesFirst'
    BY <1>8 DEF Opens, ToMove
  <2>5. HalfMadeStandsAlone'
    BY <1>8 DEF Opens, ToMove
  <2>6. BackedUpFirst'
    BY <1>8 DEF Opens, ToMove
  <2>7. UndoneIsAsItWas'
    BY <1>8 DEF Opens, ToMove
  <2>8. OldDataIsKept'
    BY <1>8 DEF Opens, ToMove
  <2>9. OpenIsNew'
    <3>1. place' = [f \in Files |-> "new"] /\ UNCHANGED <<stuck, kind, had, archive>>
      BY <1>8 DEF Opens
    <3>2. ASSUME ~stuck PROVE archive[Newest] = had
      <4>1. \A f \in Files : place[f] = "none"
        BY <1>8 DEF Opens, ToMove
      <4>2. had \subseteq {moved[i].file : i \in DOMAIN moved}
        BY <1>8, <3>2, <4>1 DEF Opens
      <4>3. \A i \in DOMAIN moved : moved[i].file \in had /\ moved[i].file \in archive[Newest]
        BY <1>8, <3>2 DEF Opens
      <4>4. archive[Newest] \subseteq {moved[i].file : i \in DOMAIN moved}
        BY <1>8 DEF Opens
      <4>5. {moved[i].file : i \in DOMAIN moved} \subseteq had \cap archive[Newest]
        BY <4>3
      <4>6. QED  BY <4>2, <4>4, <4>5, SameSet
    <3>3. Newest \in DOMAIN archive
      BY <1>8, LenProperties DEF Opens
    <3>4. QED  BY <3>1, <3>2, <3>3
  <2>10. QED  BY <2>1, <2>2, <2>3, <2>4, <2>5, <2>6, <2>7, <2>8, <2>9
<1>9. ASSUME NEW made \in SUBSET Files, OpenFails(made) PROVE CutoverInv'
  <2>1. CutoverTypeOK'
    BY <1>9 DEF OpenFails, ToMove
  <2>2. AtWorkOnClosed'
    BY <1>9 DEF OpenFails, ToMove
  <2>3. MovedIsArchived'
    <3>1. /\ step \in Moving /\ UNCHANGED <<archive, moved>>
          /\ \A f \in Files : place'[f] \in {"none", "half"} /\ (step' # "discard" => place'[f] = "none")
      BY <1>9 DEF OpenFails, ToMove
    <3>2. QED  BY <1>0, <3>1
  <2>4. MainGoesFirst'
    BY <1>9 DEF OpenFails, ToMove
  <2>5. HalfMadeStandsAlone'
    BY <1>9 DEF OpenFails, ToMove
  <2>6. BackedUpFirst'
    BY <1>9 DEF OpenFails, ToMove
  <2>7. UndoneIsAsItWas'
    BY <1>9 DEF OpenFails, ToMove
  <2>8. OldDataIsKept'
    BY <1>9 DEF OpenFails, ToMove
  <2>9. OpenIsNew'
    BY <1>9 DEF OpenFails, ToMove
  <2>10. QED  BY <2>1, <2>2, <2>3, <2>4, <2>5, <2>6, <2>7, <2>8, <2>9
<1>10. CASE Discards
  <2>1. CutoverTypeOK'
    BY <1>10 DEF Discards, HalfMadeRemoved
  <2>2. AtWorkOnClosed'
    BY <1>10 DEF Discards, HalfMadeRemoved
  <2>3. MovedIsArchived'
    <3>1. /\ step \in Moving /\ UNCHANGED <<archive, moved>>
          /\ \A f \in Files : place'[f] \in {"none", "half"} /\ (step' # "discard" => place'[f] = "none")
      BY <1>10 DEF Discards, HalfMadeRemoved
    <3>2. QED  BY <1>0, <3>1
  <2>4. MainGoesFirst'
    BY <1>10 DEF Discards, HalfMadeRemoved
  <2>5. HalfMadeStandsAlone'
    BY <1>10 DEF Discards, HalfMadeRemoved
  <2>6. BackedUpFirst'
    BY <1>10 DEF Discards, HalfMadeRemoved
  <2>7. UndoneIsAsItWas'
    BY <1>10 DEF Discards, HalfMadeRemoved
  <2>8. OldDataIsKept'
    BY <1>10 DEF Discards, HalfMadeRemoved
  <2>9. OpenIsNew'
    BY <1>10 DEF Discards, HalfMadeRemoved
  <2>10. QED  BY <2>1, <2>2, <2>3, <2>4, <2>5, <2>6, <2>7, <2>8, <2>9
<1>11. CASE RestoresFile
  <2> DEFINE m == moved[Len(moved)]
             last == Len(moved)
  <2>a. /\ DOMAIN moved' = DOMAIN moved \ {last} /\ last \in DOMAIN moved
        /\ \A i \in DOMAIN moved' : moved'[i] = moved[i]
        /\ moved' \in Seq([file : Files, was : Contents]) /\ m \in [file : Files, was : Contents]
    BY <1>11, RestoreForgets
  <2>b. /\ place' = [place EXCEPT ![m.file] = m.was] /\ step' = step /\ step = "restore"
        /\ UNCHANGED <<stuck, kind, had, diag, backup, torn>>
        /\ \A i \in DOMAIN moved' : moved[i].file # m.file /\ place[moved[i].file] = "none"
    BY <1>11, <2>a DEF RestoresFile
  <2>c. /\ archive' \in Seq(SUBSET Files) /\ Len(archive') = Len(archive) /\ Len(archive) > 0
        /\ archive'[Newest'] = archive[Newest] \ {m.file}
    BY <1>11, NewestChanged, archive[Newest] \ {m.file} \in SUBSET Files DEF RestoresFile
  <2>1. CutoverTypeOK'
    BY <1>11, <2>a, <2>b, <2>c DEF RestoresFile
  <2>2. AtWorkOnClosed'
    BY <1>11 DEF RestoresFile
  <2>3. MovedIsArchived'
    <3>1. archive[Newest] \subseteq {moved[i].file : i \in DOMAIN moved}
      BY <2>b
    <3>2. archive'[Newest'] \subseteq {moved'[i].file : i \in DOMAIN moved'}
      BY <2>a, <2>c, <3>1
    <3>3. \A i \in DOMAIN moved' :
            /\ moved'[i].was = "old" <=> moved'[i].file \in archive'[Newest']
            /\ place'[moved'[i].file] = "none"
      BY <2>a, <2>b, <2>c
    <3>4. QED  BY <2>b, <2>c, <3>2, <3>3
  <2>4. MainGoesFirst'
    BY <1>11 DEF RestoresFile
  <2>5. HalfMadeStandsAlone'
    BY <1>11 DEF RestoresFile
  <2>6. BackedUpFirst'
    BY <1>11 DEF RestoresFile
  <2>7. UndoneIsAsItWas'
    <3> SUFFICES ASSUME ~stuck, diag # "none" PROVE UndoneIsAsItWas'
      BY <2>b
    <3>1. m.was = "old" /\ m.file \in had
      BY <2>a
    <3>2. {moved[i].file : i \in DOMAIN moved} = {moved'[i].file : i \in DOMAIN moved'} \cup {m.file}
      <4>1. DOMAIN moved = DOMAIN moved' \cup {last}
        BY <2>a
      <4>2. QED  BY <2>a, <4>1
    <3>3. \A i \in DOMAIN moved' : moved'[i].was = "old" /\ moved'[i].file \in had
      BY <2>a
    <3>4. ASSUME NEW g \in Files \ {moved'[i].file : i \in DOMAIN moved'} PROVE AsItWas(g)'
      BY <2>b, <3>1, <3>2, <3>4
    <3>5. QED  BY <2>b, <3>3, <3>4
  <2>8. OldDataIsKept'
    BY <1>11 DEF RestoresFile
  <2>9. OpenIsNew'
    BY <1>11 DEF RestoresFile
  <2>10. QED  BY <2>1, <2>2, <2>3, <2>4, <2>5, <2>6, <2>7, <2>8, <2>9
<1>12. CASE RemovesArchive
  BY <1>12 DEF RemovesArchive, MayRemove
<1>13. CASE UndoFails
  BY <1>13 DEF UndoFails
<1>14. CASE ProcessRestarts
  <2>a. kind # "none" /\ "main" \in had /\ had \subseteq Files
    BY <1>14 DEF ProcessRestarts
  <2>b. ~stuck' => ~stuck /\ step = "idle" /\ moved = <<>> /\ moved' = <<>>
    BY <1>14 DEF ProcessRestarts
  <2>c. ~stuck' => place["main"] = "old" /\ place' = place
    BY <1>14, <2>a, <2>b DEF ProcessRestarts
  <2>1. CutoverTypeOK'
    BY <1>14 DEF ProcessRestarts
  <2>2. AtWorkOnClosed'
    BY <1>14 DEF ProcessRestarts
  <2>3. MovedIsArchived'
    BY <1>14 DEF ProcessRestarts
  <2>4. MainGoesFirst'
    BY <1>14 DEF ProcessRestarts
  <2>5. HalfMadeStandsAlone'
    BY <1>14 DEF ProcessRestarts
  <2>6. BackedUpFirst'
    BY <1>14 DEF ProcessRestarts
  <2>7. UndoneIsAsItWas'
    <3> SUFFICES ASSUME ~stuck' PROVE UndoneIsAsItWas'
      OBVIOUS
    <3>1. \A f \in Files : AsItWas(f)
      BY <1>14, <2>b DEF ProcessRestarts
    <3>2. UNCHANGED <<had, place>> /\ step' = "idle" /\ moved' = <<>>
      BY <1>14, <2>c DEF ProcessRestarts
    <3>3. QED  BY <3>1, <3>2
  <2>8. OldDataIsKept'
    <3>1. UNCHANGED <<kind, had, archive, backup>> /\ (torn => torn')
      BY <1>14 DEF ProcessRestarts
    <3>2. CASE UNCHANGED place
      BY <3>1, <3>2
    <3>3. CASE place["main"] \in {"none", "half"}
      <4>1. place["wal"] = "old" => torn'
        BY <1>14, <3>3 DEF ProcessRestarts
      <4>2. kind = "incompatible" => backup
        BY <2>a, <3>3
      <4>3. ASSUME NEW f \in Files, Kept(f), ~torn' PROVE Kept(f)'
        BY <3>1, <3>3, <4>1, <4>3
      <4>4. QED  BY <3>1, <4>2, <4>3, <2>a
    <3>4. QED  BY <1>14, <3>2, <3>3 DEF ProcessRestarts
  <2>9. OpenIsNew'
    <3>1. ASSUME diag' = "none" PROVE place' = [f \in Files |-> "new"] /\ stuck'
      BY <1>14, <3>1, <2>a, <2>c DEF ProcessRestarts
    <3>2. QED  BY <3>1
  <2>10. QED  BY <2>1, <2>2, <2>3, <2>4, <2>5, <2>6, <2>7, <2>8, <2>9
<1>15. QED
  BY <1>1, <1>2, <1>3, <1>4, <1>5, <1>6, <1>7, <1>8, <1>9, <1>10, <1>11, <1>12, <1>13, <1>14
  DEF CutoverNext

-----------------------------------------------------------------------------
\* The use of the store leaves the cutover alone, so every step of StateAccess
\* keeps the invariant.
THEOREM CutoverIsSound == Spec => []CutoverInv
<1>1. CutoverInv /\ [Next]_vars => CutoverInv'
  <2>1. [Next]_vars => [CutoverNext]_cutoverVars
    BY DEF Next, vars
  <2>2. QED  BY <2>1, CutoverStep
<1>2. QED  BY <1>1, CutoverStarts, PTL DEF Spec

\* Whatever fails and wherever the process dies (archiveIncompatible, probe), the
\* old data is at its place, in an archive or in a complete backup, but for the
\* log of a store that could not be read.
THEOREM OldDataStays == Spec => []OldDataIsKept
<1>1. CutoverInv => OldDataIsKept
  BY DEF CutoverInv
<1>2. QED  BY <1>1, CutoverIsSound, PTL

\* A cutover that reports a failure has put everything back (restore in
\* archiveIncompatible), unless undoing failed as well.
THEOREM FailedCutoversRestore == Spec => []FailureRestores
<1>1. CutoverInv => FailureRestores
  <2> SUFFICES ASSUME CutoverInv, diag # "none", step = "idle", ~stuck, NEW f \in Files
               PROVE  AsItWas(f)
    BY DEF FailureRestores, AsItWas
  <2>1. DOMAIN moved = {}
    BY DEF CutoverInv, AtWorkOnClosed, Moving
  <2>2. QED  BY <2>1 DEF CutoverInv, UndoneIsAsItWas
<1>2. QED  BY <1>1, CutoverIsSound, PTL

\* A store that a cutover has opened is new in both of its files, and the old
\* files are together in one archive.
THEOREM OpenedStoresAreNew == Spec => []OpenIsNew
<1>1. CutoverInv => OpenIsNew
  BY DEF CutoverInv
<1>2. QED  BY <1>1, CutoverIsSound, PTL
=============================================================================
