-------------------------- MODULE RuntimeRowProofs --------------------------
(***************************************************************************)
(* Theorems about the rows that the engine writes: a work order is only    *)
(* ever left by the verdict of a Judge that was dispatched for its claim   *)
(* (ExitsAreJudged).                                                       *)
(* With them, that Runtime implements SerialWorkflow                       *)
(* (ImplementsSerialWorkflow) and that its history is a path of the        *)
(* definition (HistoryIsAPath).                                            *)
(*                                                                         *)
(* The argument has two halves.  RowChange lists the ways in which a step   *)
(* can change the row, by their effect on its fields; each of the          *)
(* engine's actions is shown to be one of them.  RowInv is then shown to     *)
(* be kept by each of them, with no further look at the actions.           *)
(***************************************************************************)
EXTENDS RuntimeProofs

-----------------------------------------------------------------------------
(* The inductive invariant.                                                *)

\* What a work order holds in each phase, beyond Materials.
Stands(e) ==
  /\ e.phase \in {"ready", "working"} => e.claim = None /\ e.judge = None
  /\ e.phase = "working" => ~e.dispatch.settled
  /\ e.claim # None => e.dispatch.pub
  /\ e.judge # None => e.dispatch.settled /\ ~e.judge.settled

\* The order of the writes that minted the ids: nothing recorded in the row
\* is of a version that has not been written.
Dated(e) ==
  /\ e.dispatch # None => e.dispatch.id <= version
  /\ e.claim # None => e.dispatch.id < e.claim.id /\ e.claim.id <= version
  /\ e.judge # None => e.claim.id < e.judge.id
  /\ e.judgment # None => e.judgment.claim <= version

\* What handler c knows of the row while its version is still current.
Timely(c) ==
  /\ c.op \in {"arrange", "transferProbe"} => cur.phase = "ready"
  /\ c.op \in {"probe", "compact", "send", "publish"} => cur.phase = "working"
  /\ c.op = "cwd" => cur.phase = "checking" /\ cur.dispatch.settled
  /\ c.op = "judgeProbe" => cur.judge # None
  /\ c.op = "accept" => cur.phase = "checking" /\ cur.judge.pub
AllTimely == \A c \in calls : c.ver = version => Timely(c)

\* The status of the Run and the phase of its last work order.
Ended ==
  /\ status = "completed" => cur.phase = "exited"
  /\ status \in {"running", "blocked"} => cur.phase # "exited"

\* What is recorded of a work order that was left.
Judged(e) == JudgedExit(e) /\ ValidWorkOrder(e) /\ e.phase = "exited"

RowInv ==
  /\ Stands(cur) /\ Dated(cur) /\ ValidWorkOrder(cur)
  /\ Ended /\ AllTimely
  /\ \A i \in DOMAIN past : Judged(past[i])
  /\ cur.phase = "exited" => JudgedExit(cur)

-----------------------------------------------------------------------------
(* The ways in which a step can change the row, by the fields of cur.      *)

\* Only a restart of the Host marks a work order, and it leaves no Run running.
Unmarked ==
  cur'.restart => cur.restart \/ (status' # "running" /\ "restart" \in Commands)
Keeps == UNCHANGED past /\ cur'.node = cur.node /\ Unmarked
KeepsVerdict ==
  /\ cur'.iv = cur.iv /\ cur'.judgment = cur.judgment /\ cur'.resolution = cur.resolution
  /\ cur'.prevClaim = cur.prevClaim /\ cur'.prevJudge = cur.prevJudge
KeepsWork ==
  /\ cur'.phase = cur.phase /\ cur'.dispatch = cur.dispatch
  /\ cur'.claim = cur.claim /\ cur'.judge = cur.judge

Wrote(from, to) == status \in from /\ status' \in to /\ version' = version + 1
RunsOn == Wrote({"running"}, {"running"})

\* The dispatch, the claim or the Judge of the row after the step.
DispatchIs(id, pub, settled) ==
  /\ cur'.dispatch # None /\ cur'.dispatch.id = id
  /\ cur'.dispatch.pub = pub /\ cur'.dispatch.settled = settled
DispatchSettled ==
  /\ DispatchIs(cur.dispatch.id, cur.dispatch.pub, TRUE)
  /\ cur'.dispatch.sess = cur.dispatch.sess
JudgeIs(id, iv, pub) ==
  /\ cur'.judge # None /\ cur'.judge.id = id /\ cur'.judge.claim = cur.claim.id
  /\ cur'.judge.iv = iv /\ cur'.judge.pub = pub /\ ~cur'.judge.settled

\* A BLOCK, a reset, a restart, or a mark on the work order.
Noted ==
  /\ \/ Wrote({"running", "blocked"}, {"blocked", "terminated"})
     \/ /\ Wrote({"running"}, {"running"})
        /\ \/ "setRoleModel" \in Commands
           \/ \E c \in calls : Compacted(c) /\ StillCurrent(c)
  /\ Keeps /\ KeepsVerdict /\ KeepsWork

Arranged ==
  /\ RunsOn /\ Keeps /\ KeepsVerdict /\ PredecessorSettled
  /\ cur.phase = "ready" /\ cur'.phase = "working"
  /\ DispatchIs(version + 1, FALSE, FALSE) /\ cur'.dispatch.sess = SessionOf(RoleNow)
  /\ cur'.claim = cur.claim /\ cur'.judge = cur.judge

Published ==
  /\ RunsOn /\ Keeps /\ KeepsVerdict
  /\ cur.phase = "working" /\ cur'.phase = "working" /\ cur.dispatch # None
  /\ DispatchIs(cur.dispatch.id, TRUE, cur.dispatch.settled)
  /\ \E c \in calls : PublishActor(c) /\ StillCurrent(c) /\ cur'.dispatch.sess = c.sess
  /\ cur'.claim = cur.claim /\ cur'.judge = cur.judge

Claimed ==
  /\ RunsOn /\ Keeps /\ KeepsVerdict
  /\ cur.phase = "working" /\ cur'.phase = "checking"
  /\ cur.dispatch # None /\ cur.dispatch.pub /\ cur.claim = None
  /\ cur'.dispatch = cur.dispatch /\ cur'.judge = cur.judge
  /\ cur'.claim # None /\ cur'.claim.id = version + 1
  /\ cur'.claim.dispatch = cur.dispatch.id

\* The session whose turn/end is being handled has gone idle.
ProbedIdle ==
  \E c \in calls : c.op = "actorProbe" /\ StillCurrent(c) /\ Idle(c.sess)

DispatchSettles ==
  /\ RunsOn /\ Keeps /\ KeepsVerdict
  /\ cur.phase = "checking" /\ cur'.phase = "checking"
  /\ cur.dispatch # None /\ DispatchSettled /\ ProbedIdle
  /\ cur'.claim = cur.claim /\ cur'.judge = cur.judge

\* The first Judge for an input, in the session a resume reserved or one of its
\* own, or another one: for a retry, or on the next stage of the Judge's route.
JudgeArranged ==
  /\ RunsOn /\ Keeps /\ KeepsVerdict
  /\ cur.phase = "checking" /\ cur'.phase = "checking"
  /\ cur.claim # None /\ cur.dispatch # None /\ cur.dispatch.settled
  /\ cur'.dispatch = cur.dispatch /\ cur'.claim = cur.claim
  /\ JudgeIs(version + 1, cur.iv, FALSE)
  /\ \/ /\ cur.judge = None
        /\ \/ cur'.judge.sess = version + 1
           \/ cur.resolution # None /\ cur.resolution.target = "judge"
     \/ /\ ValidWorkOrder(cur') /\ cur'.judge.sess = version + 1
        /\ \/ ~cur.retried /\ cur'.retried
           \/ stage[Judge] # "fallback" /\ stage'[Judge] = NextStage(stage[Judge])

JudgePublished ==
  /\ RunsOn /\ Keeps /\ KeepsVerdict /\ cur.judge # None
  /\ cur'.phase = cur.phase /\ cur'.dispatch = cur.dispatch /\ cur'.claim = cur.claim
  /\ cur'.judge # None /\ cur'.judge.id = cur.judge.id /\ cur'.judge.sess = cur.judge.sess
  /\ cur'.judge.claim = cur.judge.claim /\ cur'.judge.iv = cur.judge.iv
  /\ cur'.judge.settled = cur.judge.settled /\ cur'.judge.pub

\* The Judge whose verdict is taken was dispatched for the present claim.
JudgeSpeaks ==
  /\ status = "running" /\ cur.phase = "checking"
  /\ cur.claim # None /\ cur.judge # None /\ cur.judge.pub

Rejected ==
  /\ JudgeSpeaks /\ RunsOn /\ Keeps
  /\ cur'.phase = "ready" /\ cur'.dispatch = cur.dispatch
  /\ cur'.claim = None /\ cur'.judge = None /\ cur'.iv = cur.iv + 1
  /\ cur'.judgment # None /\ cur'.judgment = Verdict("REJECT")
  /\ cur'.prevClaim = cur.claim /\ cur'.prevJudge = cur.judge
  /\ cur'.resolution # None =>
       /\ cur'.resolution.target = "actor" /\ cur'.resolution.iv = cur.iv + 1
       /\ cur'.resolution.mode = "none" /\ cur'.resolution.sess = None

ContextAsked ==
  /\ JudgeSpeaks /\ Wrote({"running"}, {"blocked"}) /\ Keeps /\ KeepsWork
  /\ cur'.iv = cur.iv /\ cur'.prevClaim = None /\ cur'.prevJudge = None
  /\ cur'.judgment # None /\ cur'.judgment = Verdict("NEED_CONTEXT")
  /\ cur'.resolution = ModeSpent(cur.resolution)

\* The work order as an ACCEPT leaves it.
Exited(left) ==
  /\ left.phase = "exited" /\ left.node = cur.node /\ left.iv = cur.iv
  /\ left.dispatch = cur.dispatch /\ left.claim = cur.claim /\ left.judge = cur.judge
  /\ left.prevClaim = None /\ left.prevJudge = None
  /\ left.judgment # None /\ left.judgment = Verdict("ACCEPT")
  /\ left.resolution = ModeSpent(cur.resolution)
RunCompletes ==
  /\ JudgeSpeaks /\ Wrote({"running"}, {"completed"}) /\ UNCHANGED past
  /\ Target[cur.node][cur.claim.result] = Return
  /\ Exited(cur')
MovesOn ==
  /\ JudgeSpeaks /\ RunsOn
  /\ Target[cur.node][cur.claim.result] # Return
  /\ cur' = NewWorkOrder(Target[cur.node][cur.claim.result])
  /\ \E left \in WorkOrders : Exited(left) /\ past' = Append(past, left)
  /\ RoleNow \in NodeScoped => actors'[RoleNow] = None

FailedOver ==
  /\ RunsOn /\ Keeps
  /\ cur.phase = "working" /\ cur'.phase = "ready" /\ cur.dispatch # None
  /\ DispatchSettled /\ ProbedIdle
  /\ cur'.claim = cur.claim /\ cur'.judge = cur.judge /\ cur'.iv = cur.iv + 1
  /\ cur'.judgment = cur.judgment
  /\ cur'.prevClaim = cur.prevClaim /\ cur'.prevJudge = cur.prevJudge
  /\ cur'.resolution.target = "actor" /\ cur'.resolution.iv = cur.iv + 1
  /\ cur'.resolution.mode = "none" /\ cur'.resolution.sess = None

\* node_resume target=actor.  The verdict that asked for context is kept with
\* the Judge that gave it; any other Judge of the claim is forgotten.
Returned ==
  LET asked == JudgmentIsCurrent(cur) /\ AskedBy(cur.judge, cur)
      older == /\ cur.judgment # None /\ cur.claim # None /\ cur.prevJudge # None
               /\ cur.judgment.claim = cur.claim.id /\ cur.judgment.iv < cur.iv
  IN  /\ Wrote({"blocked"}, {"running"}) /\ cur'.node = cur.node /\ ~cur'.restart
      /\ \/ UNCHANGED past /\ (cur.phase = "ready" => PredecessorSettled)
         \/ cur.phase = "ready" /\ past # <<>> /\ SettlePredecessor
      /\ cur.phase \in {"ready", "working"} \/ ~Accepted(cur)
      /\ cur'.phase = "ready" /\ cur'.dispatch = cur.dispatch
      /\ cur'.claim = None /\ cur'.judge = None /\ cur'.iv = cur.iv + 1
      /\ cur'.prevClaim = IF cur.claim = None THEN cur.prevClaim ELSE cur.claim
      /\ \/ /\ cur.claim # None /\ asked
            /\ cur'.judgment = cur.judgment /\ cur'.prevJudge = cur.judge
         \/ /\ cur.claim = None \/ older
            /\ cur'.judgment = cur.judgment /\ cur'.prevJudge = cur.prevJudge
         \/ cur'.judgment = None /\ cur'.prevJudge = None
      /\ cur'.resolution.target = "actor" /\ cur'.resolution.iv = cur.iv + 1
      /\ cur'.resolution.mode = "none" /\ cur'.resolution.sess = None

\* The session of the Judge that a resume continues: the Judge that asked for
\* context, or one that a restart of the Host interrupted.
Continued(s) ==
  /\ "resumeJudge" \in Commands
  /\ s # None /\ Idle(s)
  /\ \/ JudgmentIsCurrent(cur) /\ AskedBy(cur.judge, cur) /\ s = cur.judge.sess
     \/ /\ cur.restart
        /\ \E j \in {cur.judge, cur.prevJudge} : j # None /\ s = j.sess

\* node_resume target=judge and judge_respawn.
TakenOver ==
  /\ Wrote({"running", "blocked"}, {"running"}) /\ Keeps /\ ~cur'.restart
  /\ cur.phase = "checking" /\ cur'.phase = "checking"
  /\ cur.claim # None /\ cur.dispatch # None /\ ~Accepted(cur)
  /\ cur.dispatch.settled \/ (status = "blocked" /\ RoleIsIdle)
  /\ DispatchSettled
  /\ cur'.claim = cur.claim /\ cur'.iv = cur.iv + 1
  /\ JudgeIs(version + 1, cur.iv + 1, FALSE)
  /\ cur'.judgment = cur.judgment /\ cur'.prevClaim = cur.prevClaim
  /\ cur'.prevJudge = IF JudgmentIsCurrent(cur) /\ AskedBy(cur.judge, cur)
                      THEN cur.judge ELSE cur.prevJudge
  /\ cur'.resolution.target = "judge" /\ cur'.resolution.iv = cur.iv + 1
  /\ \/ /\ cur'.resolution.mode = "fresh" /\ cur'.resolution.sess = None
        /\ cur'.judge.sess = version + 1
     \/ /\ cur'.resolution.mode = "followup" /\ Continued(cur'.resolution.sess)
        /\ cur'.judge.sess = cur'.resolution.sess

PredecessorSettles ==
  /\ RunsOn /\ cur' = cur /\ cur.phase = "ready" /\ past # <<>> /\ SettlePredecessor

RowSame == UNCHANGED <<status, version, cur, past>>
RowChange ==
  \/ RowSame \/ Noted \/ Arranged \/ Published \/ Claimed \/ DispatchSettles
  \/ JudgeArranged \/ JudgePublished \/ Rejected \/ ContextAsked \/ RunCompletes
  \/ MovesOn \/ FailedOver \/ Returned \/ TakenOver \/ PredecessorSettles

-----------------------------------------------------------------------------
(* Which action changes the row in which way.                              *)

\* An update that only touches the marks of a work order.
LEMMA NoteChange ==
  ASSUME IInv, UNCHANGED past, NEW e \in WorkOrders, cur' = e,
         \/ e = cur
         \/ \E b : e = [cur EXCEPT !.prepared = b]
         \/ e = [cur EXCEPT !.restart = FALSE]
         \/ /\ e = [cur EXCEPT !.restart = TRUE]
            /\ status' # "running" /\ "restart" \in Commands
  PROVE  Keeps /\ KeepsVerdict /\ KeepsWork
<1>1. cur \in WorkOrders
  BY DEF IInv, TypeOK
<1>2. CASE e = cur
  BY <1>2 DEF Keeps, Unmarked, KeepsVerdict, KeepsWork
<1>3. ASSUME NEW b, e = [cur EXCEPT !.prepared = b]
      PROVE  Keeps /\ KeepsVerdict /\ KeepsWork
  BY <1>1, <1>3 DEF WorkOrders, Keeps, Unmarked, KeepsVerdict, KeepsWork
<1>4. ASSUME NEW b \in BOOLEAN, e = [cur EXCEPT !.restart = b],
             b = TRUE => status' # "running" /\ "restart" \in Commands
      PROVE  Keeps /\ KeepsVerdict /\ KeepsWork
  <2>1. KeepsVerdict /\ KeepsWork /\ e.node = cur.node /\ e.restart = b
    BY <1>1, <1>4 DEF WorkOrders, KeepsVerdict, KeepsWork
  <2> QED
    BY <1>4, <2>1 DEF Keeps, Unmarked
<1> QED
  BY <1>2, <1>3, <1>4

LEMMA BlockChange ==
  ASSUME IInv, UNCHANGED past, Live, BlockRow(cur)
  PROVE  RowChange
<1>1. cur \in WorkOrders /\ cur' = cur
  BY DEF IInv, TypeOK, BlockRow, Put
<1>2. Keeps /\ KeepsVerdict /\ KeepsWork
  BY <1>1, NoteChange
<1> QED
  BY <1>2 DEF BlockRow, Put, Live, Wrote, Noted, RowChange

LEMMA BlockIfCurrentChange ==
  ASSUME IInv, NEW c, BlockIfCurrent(c), UNCHANGED past
  PROVE  RowChange
<1>1. CASE StillCurrent(c)
  BY <1>1, BlockChange DEF BlockIfCurrent, StillCurrent, Live
<1>2. CASE ~StillCurrent(c)
  BY <1>2 DEF BlockIfCurrent, RowChange, RowSame
<1> QED
  BY <1>1, <1>2

LEMMA ArrangeActorChange ==
  ASSUME IInv, RowInv, NEW c \in calls, ArrangeActor(c)
  PROVE  RowChange /\ (StillCurrent(c) /\ PredecessorSettled => Arranged)
<1>1. cur \in WorkOrders /\ UNCHANGED past /\ version \in Nat
  BY DEF IInv, TypeOK, ArrangeActor
<1>2. CASE StillCurrent(c) /\ PredecessorSettled
  <2>1. PICK d : /\ cur' = [cur EXCEPT !.phase = "working", !.dispatch = d]
                 /\ d = NewDispatch(version + 1, SessionOf(RoleNow))
    BY <1>2 DEF ArrangeActor, Put
  <2>2. d \in Dispatches
    BY <1>1, <2>1, RoleType, SessionType DEF IInv, NewDispatch, Dispatches
  <2>3. /\ d # None /\ d.id = version + 1 /\ d.pub = FALSE /\ d.settled = FALSE
        /\ d.sess = SessionOf(RoleNow)
    BY <2>1, <2>2, NoneAssumption DEF NewDispatch
  <2>4. cur.phase = "ready" /\ Wrote({"running"}, {"running"})
    BY <1>2 DEF RowInv, AllTimely, Timely, StillCurrent, ArrangeActor, Put, Wrote
  <2>5. /\ cur'.dispatch = d /\ cur'.phase = "working"
        /\ cur'.claim = cur.claim /\ cur'.judge = cur.judge /\ Keeps /\ KeepsVerdict
    BY <1>1, <2>1 DEF WorkOrders, Keeps, Unmarked, KeepsVerdict
  <2>6. Arranged
    BY <1>2, <2>3, <2>4, <2>5 DEF Arranged, RunsOn, DispatchIs
  <2> QED
    BY <2>6 DEF RowChange
<1>3. CASE ~(StillCurrent(c) /\ PredecessorSettled)
  BY <1>3 DEF ArrangeActor, RowChange, RowSame
<1> QED
  BY <1>2, <1>3

LEMMA CompactedChange ==
  ASSUME IInv, RowInv, NEW c \in calls, Compacted(c)
  PROVE  RowChange
<1>1. cur \in WorkOrders /\ UNCHANGED past
  BY DEF IInv, TypeOK, Compacted
<1>2. CASE StillCurrent(c)
  <2>1. cur' = [cur EXCEPT !.prepared = TRUE] /\ Wrote({"running"}, {"running"})
    BY <1>2 DEF Compacted, Put, StillCurrent, Wrote
  <2>2. cur' \in WorkOrders
    BY <1>1, <2>1 DEF WorkOrders
  <2>3. Keeps /\ KeepsVerdict /\ KeepsWork
    BY <1>1, <2>1, <2>2, NoteChange
  <2> QED
    BY <1>2, <2>1, <2>3 DEF Noted, RowChange
<1>3. CASE ~StillCurrent(c)
  BY <1>1, <1>3 DEF Compacted, RowChange, RowSame
<1> QED
  BY <1>2, <1>3

LEMMA PublishActorChange ==
  ASSUME IInv, RowInv, NEW c \in calls, PublishActor(c)
  PROVE  RowChange
<1>1. cur \in WorkOrders /\ UNCHANGED past
  BY DEF IInv, TypeOK, PublishActor
<1>2. CASE StillCurrent(c)
  <2>1. cur.dispatch # None /\ cur.phase = "working"
    BY <1>2 DEF IInv, Held, Backed, RowInv, AllTimely, Timely, StillCurrent, PublishActor
  <2>2. cur.dispatch \in Dispatches /\ c.sess \in Maybe(Sessions)
    BY <1>1, <2>1, FieldTypes, CallFields DEF IInv
  <2>3. PICK d : /\ d = [[cur.dispatch EXCEPT !.sess = c.sess] EXCEPT !.pub = TRUE]
                 /\ cur' = [cur EXCEPT !.dispatch = d]
    BY <1>1, <1>2 DEF PublishActor, Put, WorkOrders
  <2>4. /\ d \in Dispatches /\ d.id = cur.dispatch.id /\ d.pub = TRUE
        /\ d.settled = cur.dispatch.settled
    BY <2>2, <2>3 DEF Dispatches
  <2>5. d # None
    BY <2>4, NoneAssumption
  <2>6. /\ cur'.dispatch = d /\ cur'.phase = cur.phase /\ cur'.claim = cur.claim
        /\ cur'.judge = cur.judge /\ Keeps /\ KeepsVerdict
    BY <1>1, <2>3 DEF WorkOrders, Keeps, Unmarked, KeepsVerdict
  <2>7. RunsOn
    BY <1>2 DEF PublishActor, Put, StillCurrent, RunsOn, Wrote
  <2>8. PublishActor(c) /\ StillCurrent(c) /\ cur'.dispatch.sess = c.sess
    BY <1>2, <2>2, <2>3, <2>6 DEF Dispatches
  <2>9. Published
    BY <2>1, <2>4, <2>5, <2>6, <2>7, <2>8 DEF Published, DispatchIs
  <2> QED
    BY <2>9 DEF RowChange
<1>3. CASE ~StillCurrent(c)
  BY <1>1, <1>3 DEF PublishActor, RowChange, RowSame
<1> QED
  BY <1>2, <1>3

\* A Judge that is put into the row, whoever arranges it.
LEMMA JudgeIsNew ==
  ASSUME IInv, cur.claim # None, NEW s \in Sessions, NEW j, cur' \in WorkOrders,
         j = NewJudge(cur, version + 1, s, cur.iv), cur'.judge = j
  PROVE  JudgeIs(version + 1, cur.iv, FALSE)
<1>1. cur \in WorkOrders /\ cur.iv \in Nat /\ version + 1 \in Nat
  BY FieldTypes DEF IInv, TypeOK
<1>2. j # None
  BY <1>1, NewJudgeType
<1> QED
  BY <1>2 DEF JudgeIs, NewJudge

LEMMA ArrangeJudgeChange ==
  ASSUME IInv, RowInv, IInv', NEW c \in calls, ArrangeJudge(c)
  PROVE  RowChange
<1>1. cur \in WorkOrders /\ cur' \in WorkOrders /\ UNCHANGED past /\ version \in Nat
  BY DEF IInv, TypeOK, ArrangeJudge
<1>2. CASE StillCurrent(c) /\ cur.judge = None
  <2>1. cur.claim # None /\ cur.phase = "checking" /\ cur.dispatch.settled
        /\ cur.dispatch # None
    BY <1>2 DEF IInv, Held, Backed, Materials, RowInv, AllTimely, Timely, StillCurrent,
                ArrangeJudge
  <2>2. PICK s \in Sessions :
          /\ Put("running", [cur EXCEPT !.judge = NewJudge(cur, version + 1, s, cur.iv)])
          /\ s = version + 1 \/ (cur.resolution # None /\ cur.resolution.target = "judge")
    <3> DEFINE r    == cur.resolution
               cont == IF r # None /\ r.target = "judge" /\ r.mode = "followup"
                       THEN r.sess ELSE None
               t    == IF cont = None THEN version + 1 ELSE cont
    <3>1. t \in Sessions
      BY <1>1, FieldTypes DEF Resolutions, Maybe, Sessions
    <3>2. Put("running", [cur EXCEPT !.judge = NewJudge(cur, version + 1, t, cur.iv)])
      BY <1>2 DEF ArrangeJudge
    <3>3. t = version + 1 \/ (cur.resolution # None /\ cur.resolution.target = "judge")
      OBVIOUS
    <3> HIDE DEF t
    <3> QED
      BY <3>1, <3>2, <3>3
  <2>3. PICK j : /\ j = NewJudge(cur, version + 1, s, cur.iv)
                 /\ cur' = [cur EXCEPT !.judge = j]
    BY <2>2 DEF Put
  <2>4. /\ cur'.judge = j /\ cur'.phase = cur.phase /\ cur'.dispatch = cur.dispatch
        /\ cur'.claim = cur.claim /\ Keeps /\ KeepsVerdict
    BY <1>1, <2>3 DEF WorkOrders, Keeps, Unmarked, KeepsVerdict
  <2>5. JudgeIs(version + 1, cur.iv, FALSE) /\ cur'.judge.sess = s
    <3>1. j.sess = s
      BY <2>3 DEF NewJudge
    <3> QED
      BY <1>1, <2>1, <2>3, <2>4, <3>1, JudgeIsNew
  <2>6. RunsOn
    BY <1>2, <2>2 DEF Put, StillCurrent, RunsOn, Wrote
  <2>7. JudgeArranged
    BY <1>2, <2>1, <2>2, <2>4, <2>5, <2>6 DEF JudgeArranged
  <2> QED
    BY <2>7 DEF RowChange
<1>3. CASE ~(StillCurrent(c) /\ cur.judge = None)
  BY <1>1, <1>3 DEF ArrangeJudge, RowChange, RowSame
<1> QED
  BY <1>2, <1>3

LEMMA PublishJudgeChange ==
  ASSUME IInv, RowInv, NEW c \in calls, PublishJudge(c)
  PROVE  RowChange
<1>1. cur \in WorkOrders /\ UNCHANGED past
  BY DEF IInv, TypeOK, PublishJudge
<1>2. CASE StillCurrent(c)
  <2>1. cur.judge # None /\ cur.judge \in Judges
    BY <1>1, <1>2, FieldTypes DEF IInv, Held, Backed, StillCurrent, PublishJudge
  <2>2. PICK j : j = [cur.judge EXCEPT !.pub = TRUE] /\ cur' = [cur EXCEPT !.judge = j]
    BY <1>1, <1>2 DEF PublishJudge, Put, WorkOrders
  <2>3. /\ j \in Judges /\ j.id = cur.judge.id /\ j.sess = cur.judge.sess
        /\ j.claim = cur.judge.claim /\ j.iv = cur.judge.iv
        /\ j.settled = cur.judge.settled /\ j.pub
    BY <2>1, <2>2 DEF Judges
  <2>4. j # None
    BY <2>3, NoneAssumption
  <2>5. /\ cur'.judge = j /\ cur'.phase = cur.phase /\ cur'.dispatch = cur.dispatch
        /\ cur'.claim = cur.claim /\ Keeps /\ KeepsVerdict
    BY <1>1, <2>2 DEF WorkOrders, Keeps, Unmarked, KeepsVerdict
  <2>6. RunsOn
    BY <1>2 DEF PublishJudge, Put, StillCurrent, RunsOn, Wrote
  <2>7. JudgePublished
    BY <2>1, <2>3, <2>4, <2>5, <2>6 DEF JudgePublished
  <2> QED
    BY <2>7 DEF RowChange
<1>3. CASE ~StillCurrent(c)
  BY <1>1, <1>3 DEF PublishJudge, RowChange, RowSame
<1> QED
  BY <1>2, <1>3

LEMMA NodeClaimChange ==
  ASSUME IInv, NEW h \in host, NEW r \in Results, NodeClaim(h, r)
  PROVE  RowChange
<1>1. /\ cur \in WorkOrders /\ UNCHANGED past /\ version \in Nat
      /\ cur.dispatch # None /\ cur.dispatch.pub
  BY DEF IInv, TypeOK, NodeClaim, Matches
<1>2. PICK k : /\ k = [id |-> version + 1, dispatch |-> cur.dispatch.id, result |-> r]
               /\ cur' = [cur EXCEPT !.phase = "checking", !.claim = k]
  BY DEF NodeClaim, Put
<1>3. k \in Claims
  BY <1>1, <1>2, FieldTypes DEF Claims, Dispatches
<1>4. k # None /\ k.id = version + 1 /\ k.dispatch = cur.dispatch.id
  BY <1>2, <1>3, NoneAssumption
<1>5. /\ cur'.claim = k /\ cur'.phase = "checking" /\ cur'.dispatch = cur.dispatch
      /\ cur'.judge = cur.judge /\ Keeps /\ KeepsVerdict
  BY <1>1, <1>2 DEF WorkOrders, Keeps, Unmarked, KeepsVerdict
<1>6. Claimed
  BY <1>1, <1>4, <1>5 DEF NodeClaim, Put, Claimed, RunsOn, Wrote
<1> QED
  BY <1>6 DEF RowChange

LEMMA JudgeRejectsChange ==
  ASSUME IInv, NEW h \in host, JudgeRejects(h)
  PROVE  RowChange
<1>1. /\ cur \in WorkOrders /\ UNCHANGED past /\ JudgeSpeaks
  BY DEF IInv, TypeOK, JudgeRejects, JudgeMaySubmit, Matches, JudgeSpeaks
<1>2. PICK v : v = Verdict("REJECT") /\ v \in Judgments /\ v # None
  BY <1>1, VerdictType, NoneAssumption DEF IInv, JudgeSpeaks
<1>3. PICK r : /\ r # None => /\ r.target = "actor" /\ r.iv = cur.iv + 1
                              /\ r.mode = "none" /\ r.sess = None
               /\ r = IF cur.resolution # None /\ cur.resolution.ctx
                      THEN [target |-> "actor", iv |-> cur.iv + 1, ctx |-> TRUE,
                            mode |-> "none", sess |-> None]
                      ELSE None
  OBVIOUS
<1>4. PICK n : n = cur.iv + 1
  OBVIOUS
<1>5. cur' = [cur EXCEPT !.prevClaim = cur.claim, !.prevJudge = cur.judge,
                !.judgment = v, !.claim = None, !.judge = None, !.retried = FALSE,
                !.phase = "ready", !.iv = n, !.resolution = r]
  BY <1>2, <1>3, <1>4 DEF JudgeRejects, Put
<1>6. /\ cur'.phase = "ready" /\ cur'.dispatch = cur.dispatch /\ cur'.claim = None
      /\ cur'.judge = None /\ cur'.iv = n /\ cur'.judgment = v
      /\ cur'.prevClaim = cur.claim /\ cur'.prevJudge = cur.judge
      /\ cur'.resolution = r /\ cur'.node = cur.node /\ cur'.restart = cur.restart
  BY <1>1, <1>5 DEF WorkOrders
<1>7. RunsOn
  BY DEF JudgeRejects, JudgeMaySubmit, Put, RunsOn, Wrote
<1>8. Rejected
  BY <1>1, <1>2, <1>3, <1>4, <1>6, <1>7 DEF Rejected, Keeps, Unmarked
<1> QED
  BY <1>8 DEF RowChange

LEMMA JudgeNeedsContextChange ==
  ASSUME IInv, NEW h \in host, JudgeNeedsContext(h)
  PROVE  RowChange
<1>1. cur \in WorkOrders /\ UNCHANGED past /\ JudgeSpeaks
  BY DEF IInv, TypeOK, JudgeNeedsContext, JudgeMaySubmit, Matches, JudgeSpeaks
<1>2. PICK v : v = Verdict("NEED_CONTEXT") /\ v \in Judgments /\ v # None
  BY <1>1, VerdictType, NoneAssumption DEF IInv, JudgeSpeaks
<1>3. PICK r : r = ModeSpent(cur.resolution)
  OBVIOUS
<1>4. cur' = [cur EXCEPT !.prevClaim = None, !.prevJudge = None, !.judgment = v,
                !.resolution = r]
  BY <1>2, <1>3 DEF JudgeNeedsContext, BlockRow, Put
<1>5. /\ cur'.phase = cur.phase /\ cur'.dispatch = cur.dispatch
      /\ cur'.claim = cur.claim /\ cur'.judge = cur.judge /\ cur'.iv = cur.iv
      /\ cur'.judgment = v /\ cur'.prevClaim = None /\ cur'.prevJudge = None
      /\ cur'.resolution = r /\ cur'.node = cur.node /\ cur'.restart = cur.restart
  BY <1>1, <1>4 DEF WorkOrders
<1>6. Wrote({"running"}, {"blocked"})
  BY <1>1 DEF JudgeNeedsContext, BlockRow, Put, Wrote, JudgeSpeaks
<1>7. ContextAsked
  BY <1>1, <1>2, <1>3, <1>5, <1>6 DEF ContextAsked, Keeps, Unmarked, KeepsWork
<1> QED
  BY <1>7 DEF RowChange

LEMMA AdvanceChange ==
  ASSUME IInv, JudgeSpeaks, NEW m, Advance(m), RoleNow \in NodeScoped => m[RoleNow] = None
  PROVE  RowChange
<1> DEFINE to == Target[cur.node][cur.claim.result]
<1>1. cur \in WorkOrders /\ cur.resolution \in Maybe(Resolutions)
  BY DEF IInv, TypeOK, WorkOrders
<1>2. PICK v \in Judgments : v = Verdict("ACCEPT") /\ v # None
  BY VerdictType, NoneAssumption DEF IInv, JudgeSpeaks
<1>3. PICK r \in Maybe(Resolutions) : r = ModeSpent(cur.resolution)
  BY <1>1, ModeSpentType
<1>4. PICK left : left = [cur EXCEPT !.phase = "exited", !.prevClaim = None,
                           !.prevJudge = None, !.judgment = v, !.resolution = r]
  OBVIOUS
<1>5. left \in WorkOrders
  BY <1>1, <1>4 DEF WorkOrders, Maybe
<1>6. /\ left.phase = "exited" /\ left.node = cur.node /\ left.iv = cur.iv
      /\ left.dispatch = cur.dispatch /\ left.claim = cur.claim /\ left.judge = cur.judge
      /\ left.prevClaim = None /\ left.prevJudge = None /\ left.judgment = v
      /\ left.resolution = r
  BY <1>1, <1>4 DEF WorkOrders
<1>7. Exited(left)
  BY <1>2, <1>3, <1>6 DEF Exited
<1>8. IF to = Return THEN Put("completed", left) /\ UNCHANGED past
      ELSE Put("running", NewWorkOrder(to)) /\ past' = Append(past, left)
  BY <1>2, <1>3, <1>4 DEF Advance
<1>9. CASE to = Return
  <2>1. RunCompletes
    BY <1>7, <1>8, <1>9 DEF RunCompletes, Put, Wrote, JudgeSpeaks
  <2> QED
    BY <2>1 DEF RowChange
<1>10. CASE to # Return
  <2>1. MovesOn
    BY <1>5, <1>7, <1>8, <1>10 DEF Advance, MovesOn, Put, RunsOn, Wrote, JudgeSpeaks
  <2> QED
    BY <2>1 DEF RowChange
<1> QED
  BY <1>9, <1>10

LEMMA AcceptChange ==
  ASSUME IInv, RowInv,
         \/ \E h \in host : JudgeAccepts(h)
         \/ \E c \in calls : ReleasedAndAccepted(c)
  PROVE  RowChange
<1>1. CASE \E h \in host : JudgeAccepts(h)
  <2>1. PICK h \in host : JudgeAccepts(h)
    BY <1>1
  <2>2. JudgeSpeaks
    BY <2>1 DEF JudgeAccepts, JudgeMaySubmit, Matches, JudgeSpeaks
  <2>3. UNCHANGED rowVars \/ (Advance(actors) /\ ~Releases)
    BY <2>1 DEF JudgeAccepts
  <2>4. ~Releases /\ RoleNow \in NodeScoped => actors[RoleNow] = None
    BY DefinitionAssumption DEF Releases, SessionOf
  <2> QED
    BY <2>2, <2>3, <2>4, AdvanceChange DEF rowVars, RowChange, RowSame
<1>2. CASE \E c \in calls : ReleasedAndAccepted(c)
  <2>1. PICK c \in calls : ReleasedAndAccepted(c)
    BY <1>2
  <2>2. CASE version = c.ver /\ status = "running"
    <3>1. JudgeSpeaks
      BY <2>1, <2>2 DEF IInv, Held, Backed, Materials, RowInv, AllTimely, Timely,
                        ReleasedAndAccepted, JudgeSpeaks
    <3>2. PICK m : Advance(m) /\ m = [actors EXCEPT ![RoleNow] = None]
      BY <2>1, <2>2 DEF ReleasedAndAccepted
    <3>3. RoleNow \in NodeScoped => m[RoleNow] = None
      BY <3>2, DefinitionAssumption DEF IInv, TypeOK
    <3> QED
      BY <3>1, <3>2, <3>3, AdvanceChange
  <2>3. CASE ~(version = c.ver /\ status = "running")
    BY <2>1, <2>3 DEF ReleasedAndAccepted, RowChange, RowSame
  <2> QED
    BY <2>2, <2>3
<1> QED
  BY <1>1, <1>2

LEMMA TransferSettlesChange ==
  ASSUME IInv, RowInv, NEW c \in calls, TransferSettles(c)
  PROVE  RowChange
<1>1. past # <<>> /\ cur.phase = "ready"
  BY DEF IInv, Held, Backed, RowInv, AllTimely, Timely, TransferSettles, Safe, StillCurrent
<1>2. PredecessorSettles
  BY <1>1 DEF TransferSettles, StillCurrent, PredecessorSettles, RunsOn, Wrote
<1> QED
  BY <1>2 DEF RowChange

LEMMA ActorSettlesChange ==
  ASSUME IInv, NEW c \in calls, ActorSettles(c)
  PROVE  RowChange
<1>1. /\ cur \in WorkOrders /\ UNCHANGED past /\ cur.dispatch # None
      /\ cur.phase = "checking"
  BY DEF IInv, TypeOK, Materials, ActorSettles
<1>2. cur.dispatch \in Dispatches
  BY <1>1, FieldTypes
<1>3. PICK d : /\ d = [cur.dispatch EXCEPT !.settled = TRUE]
               /\ cur' = [cur EXCEPT !.dispatch = d]
  BY <1>1 DEF ActorSettles, Put, WorkOrders
<1>4. d \in Dispatches /\ d.id = cur.dispatch.id /\ d.pub = cur.dispatch.pub
      /\ d.sess = cur.dispatch.sess /\ d.settled = TRUE
  BY <1>2, <1>3 DEF Dispatches
<1>5. d # None
  BY <1>4, NoneAssumption
<1>6. /\ cur'.dispatch = d /\ cur'.phase = cur.phase /\ cur'.claim = cur.claim
      /\ cur'.judge = cur.judge /\ Keeps /\ KeepsVerdict
  BY <1>1, <1>3 DEF WorkOrders, Keeps, Unmarked, KeepsVerdict
<1>7. RunsOn
  BY DEF ActorSettles, Put, StillCurrent, RunsOn, Wrote
<1>8. ProbedIdle
  BY DEF ActorSettles, Safe, ProbedIdle
<1>9. DispatchSettles
  BY <1>1, <1>4, <1>5, <1>6, <1>7, <1>8 DEF DispatchSettles, DispatchSettled, DispatchIs
<1> QED
  BY <1>9 DEF RowChange

LEMMA ActorFailsOverChange ==
  ASSUME IInv, NEW c \in calls, ActorFailsOver(c)
  PROVE  RowChange
<1>1. /\ cur \in WorkOrders /\ UNCHANGED past /\ cur.dispatch # None
      /\ cur.phase = "working"
  BY DEF IInv, TypeOK, Materials, ActorFailsOver
<1>2. cur.dispatch \in Dispatches
  BY <1>1, FieldTypes
<1>3. PICK d : d = [cur.dispatch EXCEPT !.settled = TRUE]
  OBVIOUS
<1>4. d \in Dispatches /\ d.id = cur.dispatch.id /\ d.pub = cur.dispatch.pub
      /\ d.sess = cur.dispatch.sess /\ d.settled = TRUE
  BY <1>2, <1>3 DEF Dispatches
<1>5. d # None
  BY <1>4, NoneAssumption
<1>6. PICK n, r : /\ n = cur.iv + 1
                  /\ r = [target |-> "actor", iv |-> n, ctx |-> FALSE,
                          mode |-> "none", sess |-> None]
  OBVIOUS
<1>7. cur' = [cur EXCEPT !.dispatch = d, !.phase = "ready", !.prepared = TRUE,
                !.iv = n, !.resolution = r]
  BY <1>1, <1>3, <1>6 DEF ActorFailsOver, Put, WorkOrders
<1>8. /\ cur'.dispatch = d /\ cur'.phase = "ready" /\ cur'.claim = cur.claim
      /\ cur'.judge = cur.judge /\ cur'.iv = n /\ cur'.judgment = cur.judgment
      /\ cur'.prevClaim = cur.prevClaim /\ cur'.prevJudge = cur.prevJudge
      /\ cur'.resolution = r /\ Keeps
  BY <1>1, <1>7 DEF WorkOrders, Keeps, Unmarked
<1>9. RunsOn
  BY DEF ActorFailsOver, Put, StillCurrent, RunsOn, Wrote
<1>10. /\ r.target = "actor" /\ r.iv = cur.iv + 1 /\ r.mode = "none" /\ r.sess = None
  BY <1>6
<1>11. ProbedIdle
  BY DEF ActorFailsOver, Safe, ProbedIdle
<1>12. FailedOver
  BY <1>1, <1>4, <1>5, <1>6, <1>8, <1>9, <1>10, <1>11 DEF FailedOver, DispatchSettled, DispatchIs
<1> QED
  BY <1>12 DEF RowChange

LEMMA RejudgeChange ==
  ASSUME IInv, RowInv, NEW c \in calls, StillCurrent(c), cur.phase = "checking",
         cur.dispatch.settled, UNCHANGED past,
         NEW retried, NEW judgeStage, Rejudge(c, retried, judgeStage),
         \/ ~cur.retried /\ retried
         \/ /\ stage[Judge] # "fallback" /\ judgeStage = NextStage(stage[Judge])
            /\ retried = cur.retried
  PROVE  RowChange
<1>1. cur \in WorkOrders /\ version \in Nat /\ cur.claim # None /\ cur.dispatch # None
  BY DEF IInv, TypeOK, Materials
<1>2. PICK j : j = NewJudge(cur, version + 1, version + 1, cur.iv)
  OBVIOUS
<1>3. j # None
  <2>1. version + 1 \in Nat /\ version + 1 \in Sessions /\ cur.iv \in Nat
    BY <1>1, FieldTypes DEF Sessions
  <2> QED
    BY <1>1, <1>2, <2>1, NewJudgeType
<1>4. PICK e : e = [cur EXCEPT !.retried = retried, !.judge = j]
  OBVIOUS
<1>5. IF ValidWorkOrder(e)
      THEN Put("running", e) /\ stage' = [stage EXCEPT ![Judge] = judgeStage]
      ELSE UNCHANGED <<status, cur, version>>
  BY <1>2, <1>4 DEF Rejudge, WithNewJudge
<1>6. CASE ValidWorkOrder(e)
  <2>1. cur' = e /\ RunsOn
    BY <1>5, <1>6 DEF Put, RunsOn, Wrote, StillCurrent
  <2>2. /\ cur'.judge = j /\ cur'.retried = retried /\ cur'.phase = cur.phase
        /\ cur'.dispatch = cur.dispatch /\ cur'.claim = cur.claim
        /\ Keeps /\ KeepsVerdict
    BY <1>1, <1>4, <2>1 DEF WorkOrders, Keeps, Unmarked, KeepsVerdict
  <2>3. JudgeIs(version + 1, cur.iv, FALSE) /\ cur'.judge.sess = version + 1
    BY <1>2, <1>3, <2>2 DEF JudgeIs, NewJudge
  <2>4. \/ ~cur.retried /\ cur'.retried
        \/ stage[Judge] # "fallback" /\ stage'[Judge] = NextStage(stage[Judge])
    BY <1>5, <1>6, <2>2 DEF IInv, TypeOK
  <2>5. JudgeArranged
    BY <1>1, <1>6, <2>1, <2>2, <2>3, <2>4 DEF JudgeArranged
  <2> QED
    BY <2>5 DEF RowChange
<1>7. CASE ~ValidWorkOrder(e)
  BY <1>5, <1>7 DEF RowChange, RowSame
<1> QED
  BY <1>6, <1>7

LEMMA AnotherJudgeChange ==
  ASSUME IInv, RowInv, NEW c \in calls, JudgeRetries(c) \/ JudgeFailsOver(c)
  PROVE  RowChange
<1>1. /\ StillCurrent(c) /\ cur.phase = "checking" /\ UNCHANGED past
      /\ c.op = "judgeProbe"
  BY DEF JudgeRetries, JudgeFailsOver, Safe
<1>2. cur.dispatch.settled
  BY <1>1 DEF RowInv, AllTimely, Timely, Stands, StillCurrent
<1>3. CASE JudgeRetries(c)
  BY <1>1, <1>2, <1>3, RejudgeChange DEF JudgeRetries
<1>4. CASE JudgeFailsOver(c)
  BY <1>1, <1>2, <1>4, RejudgeChange DEF JudgeFailsOver, MayFailOver
<1> QED
  BY <1>3, <1>4

LEMMA ResumesActorChange ==
  ASSUME IInv, RowInv, NEW replace, NEW skip, ResumesActor(replace, skip)
  PROVE  RowChange
<1> DEFINE asked == JudgmentIsCurrent(cur) /\ AskedBy(cur.judge, cur)
           older == /\ cur.judgment # None /\ cur.claim # None /\ cur.prevJudge # None
                    /\ cur.judgment.claim = cur.claim.id /\ cur.judgment.iv < cur.iv
                    /\ cur.judgment.judge = cur.prevJudge.id
                    /\ cur.judgment.sess = cur.prevJudge.sess
           kept  == cur.claim = None \/ asked \/ older
<1>1. cur \in WorkOrders /\ Wrote({"blocked"}, {"running"}) /\ Recovered
      /\ cur' = ReturnToActor(cur, replace \/ skip)
  BY DEF IInv, TypeOK, ResumesActor, Put, Wrote
<1>2. PICK pc : pc = IF cur.claim = None THEN cur.prevClaim ELSE cur.claim
  OBVIOUS
<1>3. PICK pj : pj = IF cur.claim # None /\ asked THEN cur.judge
                     ELSE IF kept THEN cur.prevJudge ELSE None
  OBVIOUS
<1>4. PICK jm : jm = IF kept THEN cur.judgment ELSE None
  OBVIOUS
<1>5. PICK n, r : /\ n = cur.iv + 1
                  /\ r = [target |-> "actor", iv |-> n, ctx |-> TRUE,
                          mode |-> "none", sess |-> None]
  OBVIOUS
<1>6. PICK b : b = (cur.prepared \/ (replace \/ skip))
  OBVIOUS
<1>7. cur' = [cur EXCEPT !.prevClaim = pc, !.prevJudge = pj, !.judgment = jm,
                !.claim = None, !.judge = None, !.retried = FALSE, !.phase = "ready",
                !.prepared = b, !.restart = FALSE, !.iv = n, !.resolution = r]
  BY <1>1, <1>2, <1>3, <1>4, <1>5, <1>6 DEF ReturnToActor
<1>8. /\ cur'.phase = "ready" /\ cur'.dispatch = cur.dispatch /\ cur'.claim = None
      /\ cur'.judge = None /\ cur'.iv = n /\ cur'.judgment = jm /\ cur'.prevClaim = pc
      /\ cur'.prevJudge = pj /\ cur'.resolution = r /\ cur'.node = cur.node
      /\ cur'.restart = FALSE
  BY <1>1, <1>7 DEF WorkOrders
<1>9. \/ UNCHANGED past /\ (cur.phase = "ready" => PredecessorSettled)
      \/ cur.phase = "ready" /\ past # <<>> /\ SettlePredecessor
  BY <1>1 DEF Recovered, PredecessorSettled
<1>10. cur.phase \in {"ready", "working"} \/ ~Accepted(cur)
  BY DEF ResumesActor
<1>11. \/ cur.claim # None /\ asked /\ jm = cur.judgment /\ pj = cur.judge
       \/ (cur.claim = None \/ older) /\ jm = cur.judgment /\ pj = cur.prevJudge
       \/ jm = None /\ pj = None
  BY <1>3, <1>4 DEF JudgmentIsCurrent
<1>12. /\ r.target = "actor" /\ r.iv = cur.iv + 1 /\ r.mode = "none" /\ r.sess = None
  BY <1>5
<1>13. Returned
  BY <1>1, <1>2, <1>5, <1>8, <1>9, <1>10, <1>11, <1>12 DEF Returned
<1> QED
  BY <1>13 DEF RowChange

\* What both takeovers write.
LEMMA RejudgedChange ==
  ASSUME IInv, UNCHANGED past, cur.claim # None, cur.dispatch # None,
         cur.phase = "checking", ~Accepted(cur),
         cur.dispatch.settled \/ (status = "blocked" /\ RoleIsIdle),
         Wrote({"running", "blocked"}, {"running"}),
         NEW mode, NEW s \in Maybe(Sessions), NEW ctx,
         cur' = Rejudged(cur, mode, s, version + 1, ctx),
         \/ mode = "fresh" /\ s = None
         \/ mode = "followup" /\ Continued(s)
  PROVE  RowChange
<1>1. cur \in WorkOrders /\ cur.dispatch \in Dispatches /\ version + 1 \in Nat
      /\ cur.iv \in Nat
  BY FieldTypes DEF IInv, TypeOK
<1>2. PICK d : d = [cur.dispatch EXCEPT !.settled = TRUE]
  OBVIOUS
<1>3. d \in Dispatches /\ d.id = cur.dispatch.id /\ d.pub = cur.dispatch.pub
      /\ d.sess = cur.dispatch.sess /\ d.settled = TRUE
  BY <1>1, <1>2 DEF Dispatches
<1>4. d # None
  BY <1>3, NoneAssumption
<1>5. PICK pj : pj = IF JudgmentIsCurrent(cur) /\ AskedBy(cur.judge, cur)
                     THEN cur.judge ELSE cur.prevJudge
  OBVIOUS
<1>6. PICK t \in Sessions : t = IF s = None THEN version + 1 ELSE s
  BY <1>1 DEF Maybe, Sessions
<1>7. PICK n \in Nat : n = cur.iv + 1
  BY <1>1
<1>8. PICK j : j = NewJudge(cur, version + 1, t, n)
  OBVIOUS
<1>9. /\ j # None /\ j.id = version + 1 /\ j.claim = cur.claim.id /\ j.iv = n
      /\ j.pub = FALSE /\ j.settled = FALSE /\ j.sess = t
  <2>1. j # None
    BY <1>1, <1>8, NewJudgeType
  <2> QED
    BY <1>8, <2>1 DEF NewJudge
<1>10. PICK r : r = [target |-> "judge", iv |-> n, ctx |-> ctx, mode |-> mode, sess |-> s]
  OBVIOUS
<1>11. cur' = [cur EXCEPT !.dispatch = d, !.prevJudge = pj, !.judge = j,
                 !.retried = FALSE, !.restart = FALSE, !.iv = n, !.resolution = r]
  BY <1>1, <1>2, <1>5, <1>6, <1>7, <1>8, <1>10 DEF Rejudged, WorkOrders
<1>12. /\ cur'.dispatch = d /\ cur'.prevJudge = pj /\ cur'.judge = j /\ cur'.iv = n
       /\ cur'.resolution = r /\ cur'.phase = cur.phase /\ cur'.claim = cur.claim
       /\ cur'.judgment = cur.judgment /\ cur'.prevClaim = cur.prevClaim /\ Keeps
       /\ cur'.restart = FALSE
  BY <1>1, <1>11 DEF WorkOrders, Keeps, Unmarked
<1>13. /\ r.target = "judge" /\ r.iv = cur.iv + 1
       /\ \/ r.mode = "fresh" /\ r.sess = None /\ j.sess = version + 1
          \/ r.mode = "followup" /\ Continued(r.sess) /\ j.sess = r.sess
  BY <1>6, <1>7, <1>9, <1>10 DEF Continued
<1>14. DispatchSettled
  BY <1>3, <1>4, <1>12 DEF DispatchSettled, DispatchIs
<1>15. JudgeIs(version + 1, cur.iv + 1, FALSE)
  BY <1>7, <1>9, <1>12 DEF JudgeIs
<1>16. TakenOver
  BY <1>5, <1>7, <1>12, <1>13, <1>14, <1>15 DEF TakenOver
<1> QED
  BY <1>16 DEF RowChange

LEMMA ResumesJudgeChange ==
  ASSUME IInv, NEW mode \in {"fresh", "followup"}, ResumesJudge(mode)
  PROVE  RowChange
<1>1. /\ cur \in WorkOrders /\ UNCHANGED past /\ cur.claim # None
      /\ cur.dispatch # None /\ cur.phase = "checking" /\ ~Accepted(cur)
      /\ cur.dispatch.settled \/ (status = "blocked" /\ RoleIsIdle)
  BY DEF IInv, TypeOK, ResumesJudge
<1>2. PICK s \in Maybe(Sessions) :
        /\ s = IF mode = "followup" THEN JudgeToContinue.sess ELSE None
        /\ mode = "followup" => Continued(s)
  <2>1. JudgeToContinue \in Maybe(Judges)
    BY <1>1 DEF JudgeToContinue, WorkOrders, Maybe
  <2>2. mode = "followup" => JudgeToContinue \in Judges
    BY <2>1 DEF ResumesJudge, Maybe
  <2> DEFINE s == IF mode = "followup" THEN JudgeToContinue.sess ELSE None
  <2>3. s \in Maybe(Sessions)
    BY <2>2 DEF Judges, Maybe
  <2>4. ASSUME mode = "followup"
        PROVE  Continued(JudgeToContinue.sess)
    <3> DEFINE j == JudgeToContinue
    <3>1. j # None /\ j.sess # None
      BY <2>2, <2>4, NoneAssumption DEF Judges
    <3>2. Idle(j.sess) /\ "resumeJudge" \in Commands
      BY <2>4 DEF ResumesJudge, Command
    <3>3. CASE JudgmentIsCurrent(cur) /\ AskedBy(cur.judge, cur)
      BY <3>1, <3>2, <3>3 DEF JudgeToContinue, Continued
    <3>4. CASE ~(JudgmentIsCurrent(cur) /\ AskedBy(cur.judge, cur))
      <4>1. cur.restart
        BY <2>4, <3>4 DEF ResumesJudge
      <4>2. j \in {cur.judge, cur.prevJudge}
        BY <3>1 DEF JudgeToContinue
      <4> QED
        BY <3>1, <3>2, <4>1, <4>2 DEF Continued
    <3> QED
      BY <3>3, <3>4
  <2> QED
    BY <2>3, <2>4
<1>3. cur' = Rejudged(cur, mode, s, version + 1, TRUE)
  BY <1>2 DEF ResumesJudge, Put
<1>4. Wrote({"running", "blocked"}, {"running"})
  BY DEF ResumesJudge, Put, Wrote
<1>5. \/ mode = "fresh" /\ s = None
      \/ mode = "followup" /\ Continued(s)
  BY <1>2
<1> QED
  BY <1>1, <1>3, <1>4, <1>5, RejudgedChange

LEMMA RespawnsJudgeChange ==
  ASSUME IInv, RespawnsJudge
  PROVE  RowChange
<1>1. /\ UNCHANGED past /\ cur.claim # None /\ cur.phase = "checking" /\ ~Accepted(cur)
      /\ cur.dispatch.settled
  BY DEF RespawnsJudge
<1>2. cur.dispatch # None
  BY <1>1 DEF IInv, Materials
<1>3. PICK ctx : cur' = Rejudged(cur, "fresh", None, version + 1, ctx)
  BY DEF RespawnsJudge, Put
<1>4. Wrote({"running", "blocked"}, {"running"})
  BY DEF RespawnsJudge, Put, Wrote
<1>5. None \in Maybe(Sessions)
  BY DEF Maybe
<1> QED
  BY <1>1, <1>2, <1>3, <1>4, <1>5, RejudgedChange

LEMMA MarkChange ==
  ASSUME IInv, IInv', (\E key \in Roles \cup {Judge} : SetsRoleModel(key)) \/ Resets \/ Restarts
  PROVE  RowChange
<1>1. cur \in WorkOrders /\ cur' \in WorkOrders
  BY DEF IInv, TypeOK
<1>2. CASE \E key \in Roles \cup {Judge} : SetsRoleModel(key)
  <2>1. PICK b : cur' = [cur EXCEPT !.prepared = b]
    BY <1>2 DEF SetsRoleModel, Put
  <2>2. UNCHANGED past
    BY <1>2 DEF SetsRoleModel
  <2>3. \/ Wrote({"running"}, {"running"}) /\ "setRoleModel" \in Commands
        \/ Wrote({"running", "blocked"}, {"blocked", "terminated"})
    BY <1>2 DEF SetsRoleModel, Command, Put, Wrote
  <2> QED
    BY <1>1, <2>1, <2>2, <2>3, NoteChange DEF Noted, RowChange
<1>3. CASE Resets
  <2>1. /\ cur' = [cur EXCEPT !.restart = FALSE] /\ UNCHANGED past
        /\ Wrote({"running", "blocked"}, {"blocked", "terminated"})
    BY <1>3 DEF Resets, Put, Wrote
  <2> QED
    BY <1>1, <2>1, NoteChange DEF Noted, RowChange
<1>4. CASE Restarts
  <2>1. UNCHANGED past
    BY <1>4 DEF Restarts
  <2>2. \/ UNCHANGED <<status, cur, version>>
        \/ /\ cur' = [cur EXCEPT !.restart = TRUE] /\ status' # "running"
           /\ Wrote({"running", "blocked"}, {"blocked", "terminated"})
           /\ "restart" \in Commands
    BY <1>4 DEF Restarts, Command, BlockRow, Put, Wrote
  <2> QED
    BY <1>1, <2>1, <2>2, NoteChange DEF Noted, RowChange, RowSame
<1> QED
  BY <1>2, <1>3, <1>4

-----------------------------------------------------------------------------
(* Every step changes the row in one of these ways.                        *)

LEMMA ContinuesChange ==
  ASSUME IInv, IInv', RowInv, NEW c \in calls, Continues(c)
  PROVE  RowChange
<1>1. CASE \/ DriveStarts(c) \/ ProbeIdle(c) \/ Sent(c) \/ TurnEndReads(c)
           \/ ProbeWaiting(c) \/ SettlesStale(c) \/ ActorSettlesNothing(c)
           \/ RejudgeSends(c)
  BY <1>1 DEF DriveStarts, ProbeIdle, Sent, TurnEndReads, ProbeWaiting, SettlesStale,
              ActorSettlesNothing, RejudgeSends, rowVars, RowChange, RowSame
<1>2. CASE ArrangeActor(c) \/ Compacted(c) \/ PublishActor(c)
  BY <1>2, ArrangeActorChange, CompactedChange, PublishActorChange
<1>3. CASE ArrangeJudge(c) \/ PublishJudge(c) \/ JudgeRetries(c) \/ JudgeFailsOver(c)
  BY <1>3, ArrangeJudgeChange, PublishJudgeChange, AnotherJudgeChange
<1>4. CASE DriveFaults(c) \/ ProbeUnsafe(c)
  BY <1>4, BlockIfCurrentChange DEF DriveFaults, ProbeUnsafe
<1>5. CASE ActorEndsWithoutClaim(c) \/ JudgeEndsWithoutVerdict(c)
  BY <1>5, BlockChange DEF ActorEndsWithoutClaim, JudgeEndsWithoutVerdict, StillCurrent, Live
<1>6. CASE ActivationSettles(c)
  BY <1>6, BlockChange DEF ActivationSettles, Live, RowChange, RowSame
<1>7. CASE ReleasedAndAccepted(c) \/ TransferSettles(c)
  BY <1>7, AcceptChange, TransferSettlesChange
<1>8. CASE ActorSettles(c) \/ ActorFailsOver(c)
  BY <1>8, ActorSettlesChange, ActorFailsOverChange
<1> QED
  BY <1>1, <1>2, <1>3, <1>4, <1>5, <1>6, <1>7, <1>8 DEF Continues

LEMMA EveryChange ==
  ASSUME IInv, IInv', RowInv, [Next]_vars
  PROVE  RowChange
<1>1. CASE \E c \in calls : Continues(c)
  BY <1>1, ContinuesChange
<1>2. CASE \E h \in host : Submits(h)
  <2>1. PICK h \in host : Submits(h)
    BY <1>2
  <2>2. CASE TurnEnds(h) \/ TurnWakes(h) \/ ActivationFails(h)
    BY <2>2 DEF TurnEnds, TurnWakes, ActivationFails, rowVars, RowChange, RowSame
  <2>3. CASE ActorBlocks(h)
    BY <2>3, BlockChange DEF ActorBlocks, Live
  <2>4. CASE (\E r \in Results : NodeClaim(h, r)) \/ JudgeRejects(h)
             \/ JudgeNeedsContext(h) \/ JudgeAccepts(h)
    BY <2>4, NodeClaimChange, JudgeRejectsChange, JudgeNeedsContextChange, AcceptChange
  <2> QED
    BY <2>1, <2>2, <2>3, <2>4 DEF Submits
<1>3. CASE Commanded
  <2>1. CASE ManagerBlocks \/ RespawnFaults
    BY <2>1, BlockChange DEF ManagerBlocks, RespawnFaults, Live
  <2>2. CASE \E replace, skip \in BOOLEAN : ResumesActor(replace, skip)
    BY <2>2, ResumesActorChange
  <2>3. CASE \E mode \in {"fresh", "followup"} : ResumesJudge(mode)
    BY <2>3, ResumesJudgeChange
  <2>4. CASE RespawnsJudge
    BY <2>4, RespawnsJudgeChange
  <2>5. CASE (\E key \in Roles \cup {Judge} : SetsRoleModel(key)) \/ Resets \/ Restarts
    BY <2>5, MarkChange
  <2> QED
    BY <1>3, <2>1, <2>2, <2>3, <2>4, <2>5 DEF Commanded
<1>4. CASE UNCHANGED vars
  BY <1>4 DEF vars, RowChange, RowSame
<1> QED
  BY <1>1, <1>2, <1>3, <1>4 DEF Next

-----------------------------------------------------------------------------
(* Each way of changing the row keeps what holds of the current work order. *)

WorkInv == Stands(cur) /\ Dated(cur) /\ ValidWorkOrder(cur)

LEMMA Numbers ==
  ASSUME NEW e \in WorkOrders
  PROVE  /\ e.iv \in Nat
         /\ e.dispatch # None => e.dispatch.id \in Nat
         /\ e.claim # None => e.claim.id \in Nat /\ e.claim.dispatch \in Nat
         /\ e.judge # None => e.judge.id \in Nat /\ e.judge.claim \in Nat /\ e.judge.iv \in Nat
         /\ e.judgment # None => e.judgment.claim \in Nat /\ e.judgment.iv \in Nat
         /\ e.prevJudge # None => e.prevJudge.iv \in Nat
BY FieldTypes DEF Dispatches, Claims, Judges, Judgments

LEMMA VerdictFields ==
  ASSUME NEW r
  PROVE  /\ Verdict(r).result = r /\ Verdict(r).claim = cur.claim.id
         /\ Verdict(r).judge = cur.judge.id /\ Verdict(r).sess = cur.judge.sess
         /\ Verdict(r).iv = cur.judge.iv
BY DEF Verdict

LEMMA KeptWork ==
  ASSUME IInv, IInv', WorkInv, RowSame \/ Noted \/ PredecessorSettles
  PROVE  WorkInv'
<1>1. cur \in WorkOrders /\ version \in Nat /\ (version' = version \/ version' = version + 1)
  BY DEF IInv, TypeOK, RowSame, Noted, PredecessorSettles, Wrote, RunsOn
<1>2. CASE cur' = cur
  BY <1>1, <1>2, Numbers DEF WorkInv, Stands, Dated, ValidWorkOrder, JudgmentIsCurrent, AskedBy
<1>3. CASE KeepsVerdict /\ KeepsWork
  BY <1>1, <1>3, Numbers DEF KeepsVerdict, KeepsWork, WorkInv, Stands, Dated, ValidWorkOrder,
                             JudgmentIsCurrent, AskedBy
<1> QED
  BY <1>2, <1>3 DEF RowSame, Noted, PredecessorSettles

LEMMA DispatchWork ==
  ASSUME IInv, IInv', WorkInv, Arranged \/ Published \/ DispatchSettles
  PROVE  WorkInv'
<1>1. /\ cur \in WorkOrders /\ version \in Nat /\ version' = version + 1 /\ KeepsVerdict
      /\ cur'.claim = cur.claim /\ cur'.judge = cur.judge
  BY DEF IInv, TypeOK, Arranged, Published, DispatchSettles, Wrote, RunsOn
<1>2. Stands(cur)'
  BY DEF WorkInv, Stands, Arranged, Published, DispatchSettles, DispatchSettled, DispatchIs,
         IInv, Materials
<1>3. Dated(cur)'
  BY <1>1, Numbers DEF WorkInv, Stands, Dated, KeepsVerdict, Arranged, Published,
                       DispatchSettles, DispatchSettled, DispatchIs, IInv, Materials
<1>4. ValidWorkOrder(cur)'
  BY <1>1 DEF WorkInv, Stands, KeepsVerdict, Arranged, Published, DispatchSettles, DispatchSettled,
              DispatchIs, ValidWorkOrder, JudgmentIsCurrent, AskedBy
<1> QED
  BY <1>2, <1>3, <1>4 DEF WorkInv

LEMMA ClaimedWork ==
  ASSUME IInv, IInv', WorkInv, Claimed
  PROVE  WorkInv'
<1>1. /\ cur \in WorkOrders /\ version \in Nat /\ version' = version + 1 /\ KeepsVerdict
      /\ cur.claim = None /\ cur.judge = None /\ cur.dispatch # None
      /\ cur'.dispatch = cur.dispatch /\ cur'.judge = cur.judge
  BY DEF IInv, TypeOK, Claimed, Wrote, RunsOn, WorkInv, Stands
<1>2. Stands(cur)'
  BY <1>1 DEF Claimed, Stands
<1>3. Dated(cur)'
  BY <1>1, Numbers DEF WorkInv, Dated, KeepsVerdict, Claimed
<1>4. ~JudgmentIsCurrent(cur) /\ ~JudgmentIsCurrent(cur')
  BY <1>1, Numbers DEF WorkInv, Dated, KeepsVerdict, Claimed, JudgmentIsCurrent
<1>5. cur.resolution # None => cur.resolution.target = "actor" /\ cur.resolution.mode = "none"
  BY <1>1, FieldTypes DEF WorkInv, ValidWorkOrder, Resolutions
<1>6. ValidWorkOrder(cur)'
  BY <1>1, <1>4, <1>5 DEF WorkInv, KeepsVerdict, Claimed, ValidWorkOrder
<1> QED
  BY <1>2, <1>3, <1>6 DEF WorkInv

LEMMA JudgeWork ==
  ASSUME IInv, IInv', WorkInv, JudgeArranged \/ JudgePublished
  PROVE  WorkInv'
<1>1. /\ cur \in WorkOrders /\ version \in Nat /\ version' = version + 1 /\ KeepsVerdict
      /\ cur'.claim = cur.claim /\ cur'.dispatch = cur.dispatch /\ cur'.phase = cur.phase
      /\ cur.claim # None
  BY DEF IInv, TypeOK, Materials, JudgeArranged, JudgePublished, Wrote, RunsOn
<1>2. Stands(cur)'
  BY <1>1 DEF WorkInv, Stands, JudgeArranged, JudgePublished, JudgeIs
<1>3. Dated(cur)'
  BY <1>1, Numbers DEF WorkInv, Dated, KeepsVerdict, JudgeArranged, JudgePublished, JudgeIs
<1>4. ValidWorkOrder(cur)'
  BY <1>1 DEF WorkInv, KeepsVerdict, JudgeArranged, JudgePublished, JudgeIs,
              ValidWorkOrder, JudgmentIsCurrent, AskedBy
<1> QED
  BY <1>2, <1>3, <1>4 DEF WorkInv

LEMMA VerdictWork ==
  ASSUME IInv, IInv', WorkInv, Rejected \/ ContextAsked \/ RunCompletes
  PROVE  WorkInv'
<1>1. /\ cur \in WorkOrders /\ version \in Nat /\ version' = version + 1
      /\ cur'.dispatch = cur.dispatch /\ JudgeSpeaks /\ cur.iv \in Nat
      /\ cur.judge.claim = cur.claim.id /\ cur.judge.iv = cur.iv
  BY FieldTypes DEF IInv, TypeOK, Rejected, ContextAsked, RunCompletes, Exited, KeepsWork,
                    Wrote, RunsOn, JudgeSpeaks, WorkInv, ValidWorkOrder
<1>2. CASE Rejected
  <2>1. Stands(cur)'
    BY <1>2 DEF Rejected, Stands
  <2>2. Dated(cur)'
    BY <1>1, <1>2, Numbers, VerdictFields DEF WorkInv, Dated, Rejected, JudgeSpeaks
  <2>3. ValidWorkOrder(cur)'
    BY <1>1, <1>2, VerdictFields DEF Rejected, JudgeSpeaks, ValidWorkOrder, JudgmentIsCurrent
  <2> QED
    BY <2>1, <2>2, <2>3 DEF WorkInv
<1>3. CASE ContextAsked \/ RunCompletes
  <2>1. /\ cur'.claim = cur.claim /\ cur'.judge = cur.judge /\ cur'.iv = cur.iv
        /\ cur'.prevClaim = None /\ cur'.prevJudge = None
        /\ cur'.judgment # None /\ cur'.judgment.claim = cur.claim.id
        /\ cur'.judgment.judge = cur.judge.id /\ cur'.judgment.sess = cur.judge.sess
        /\ cur'.judgment.iv = cur.iv /\ cur'.judgment.result # "REJECT"
        /\ cur'.resolution = ModeSpent(cur.resolution)
        /\ cur'.phase \in {"checking", "exited"}
    BY <1>1, <1>3, VerdictFields DEF ContextAsked, RunCompletes, Exited, KeepsWork, JudgeSpeaks
  <2>2. Stands(cur)'
    BY <1>1, <2>1 DEF WorkInv, Stands, JudgeSpeaks
  <2>3. Dated(cur)'
    BY <1>1, <2>1, Numbers DEF WorkInv, Dated, JudgeSpeaks
  <2>4. JudgmentIsCurrent(cur')
    BY <1>1, <2>1 DEF JudgmentIsCurrent, JudgeSpeaks
  <2>5. cur'.resolution # None =>
          /\ cur.resolution # None
          /\ cur'.resolution.iv = cur.iv /\ cur'.resolution.mode = "none"
          /\ cur'.resolution.sess = None
    <3>1. SUFFICES ASSUME cur'.resolution # None
                   PROVE  /\ cur.resolution # None
                          /\ cur'.resolution.iv = cur.iv /\ cur'.resolution.mode = "none"
                          /\ cur'.resolution.sess = None
      OBVIOUS
    <3>2. PICK r : r = cur.resolution
      OBVIOUS
    <3>3. r # None /\ r \in Resolutions
      BY <1>1, <2>1, <3>1, <3>2, FieldTypes DEF ModeSpent
    <3>4. r.iv = cur.iv /\ (r.target # "judge" => r.mode = "none" /\ r.sess = None)
      BY <3>2, <3>3 DEF WorkInv, ValidWorkOrder, Resolutions
    <3>5. CASE r.target = "judge"
      <4>1. cur'.resolution = [r EXCEPT !.mode = "none", !.sess = None]
        BY <2>1, <3>2, <3>3, <3>5 DEF ModeSpent
      <4> QED
        BY <3>2, <3>3, <3>4, <4>1 DEF Resolutions
    <3>6. CASE r.target # "judge"
      BY <2>1, <3>2, <3>3, <3>4, <3>6 DEF ModeSpent
    <3> QED
      BY <3>5, <3>6
  <2>6. ValidWorkOrder(cur)'
    BY <1>1, <2>1, <2>4, <2>5 DEF WorkInv, ValidWorkOrder, JudgeSpeaks
  <2> QED
    BY <2>2, <2>3, <2>6 DEF WorkInv
<1> QED
  BY <1>2, <1>3

LEMMA NewWork ==
  ASSUME IInv, IInv', MovesOn
  PROVE  WorkInv'
<1>1. /\ cur'.phase = "ready" /\ cur'.dispatch = None /\ cur'.claim = None
      /\ cur'.judge = None /\ cur'.judgment = None /\ cur'.prevJudge = None
      /\ cur'.resolution = None
  BY DEF MovesOn, NewWorkOrder
<1> QED
  BY <1>1 DEF WorkInv, Stands, Dated, ValidWorkOrder, JudgmentIsCurrent

LEMMA RedoneWork ==
  ASSUME IInv, IInv', WorkInv, FailedOver \/ Returned
  PROVE  WorkInv'
<1>1. /\ cur \in WorkOrders /\ version \in Nat /\ version' = version + 1 /\ cur.iv \in Nat
      /\ cur'.phase = "ready" /\ cur'.claim = None /\ cur'.judge = None
      /\ cur'.iv = cur.iv + 1
  BY FieldTypes DEF IInv, TypeOK, WorkInv, Stands, FailedOver, Returned, Wrote, RunsOn
<1>2. Stands(cur)'
  BY <1>1 DEF Stands
<1>3. cur'.judgment \in {cur.judgment, None}
  BY DEF FailedOver, Returned
<1>4. Dated(cur)'
  BY <1>1, <1>3, Numbers DEF WorkInv, Dated, FailedOver, Returned, DispatchSettled, DispatchIs
<1>5. CASE FailedOver
  <2>1. cur.claim = None
    BY <1>5 DEF FailedOver, WorkInv, Stands
  <2>2. ~JudgmentIsCurrent(cur) /\ ~JudgmentIsCurrent(cur')
    BY <1>1, <2>1 DEF JudgmentIsCurrent
  <2>3. ValidWorkOrder(cur)'
    BY <1>1, <1>5, <2>1, <2>2, Numbers DEF FailedOver, WorkInv, ValidWorkOrder, AskedBy
  <2> QED
    BY <1>2, <1>4, <2>3 DEF WorkInv
<1>6. CASE Returned
  <2>1. ~JudgmentIsCurrent(cur)'
    BY <1>1 DEF JudgmentIsCurrent
  <2>2. ValidWorkOrder(cur)'
    BY <1>1, <1>6, <2>1, Numbers DEF Returned, WorkInv, ValidWorkOrder, JudgmentIsCurrent,
                                    AskedBy, Accepted, Stands
  <2> QED
    BY <1>2, <1>4, <2>2 DEF WorkInv
<1> QED
  BY <1>5, <1>6

LEMMA TakenOverWork ==
  ASSUME IInv, IInv', WorkInv, TakenOver
  PROVE  WorkInv'
<1>1. /\ cur \in WorkOrders /\ version \in Nat /\ version' = version + 1 /\ cur.iv \in Nat
      /\ cur'.phase = "checking" /\ cur'.claim = cur.claim /\ cur.claim # None
      /\ cur.dispatch # None /\ cur'.iv = cur.iv + 1 /\ cur'.judgment = cur.judgment
      /\ cur'.prevClaim = cur.prevClaim
      /\ JudgeIs(version + 1, cur.iv + 1, FALSE)
      /\ DispatchIs(cur.dispatch.id, cur.dispatch.pub, TRUE)
  BY FieldTypes DEF IInv, TypeOK, TakenOver, DispatchSettled, Wrote
<1>2. Stands(cur)'
  BY <1>1 DEF WorkInv, Stands, JudgeIs, DispatchIs
<1>3. Dated(cur)'
  BY <1>1, Numbers DEF WorkInv, Dated, JudgeIs, DispatchIs
<1>4. ~JudgmentIsCurrent(cur')
  BY <1>1, Numbers DEF JudgmentIsCurrent, WorkInv, ValidWorkOrder
<1>5. cur.judgment # None /\ JudgmentIsCurrent(cur) => AskedBy(cur.judge, cur)
  BY <1>1, FieldTypes DEF TakenOver, Accepted, AskedBy, WorkInv, ValidWorkOrder, Judgments
<1>6. \/ cur'.prevJudge = cur.judge /\ JudgmentIsCurrent(cur) /\ AskedBy(cur.judge, cur)
      \/ cur'.prevJudge = cur.prevJudge /\ ~JudgmentIsCurrent(cur)
  BY <1>5 DEF TakenOver, JudgmentIsCurrent
<1>7. /\ cur'.resolution.target = "judge" /\ cur'.resolution.iv = cur.iv + 1
      /\ \/ cur'.resolution.mode = "fresh" /\ cur'.resolution.sess = None
         \/ /\ cur'.resolution.mode = "followup" /\ cur'.resolution.sess # None
            /\ cur'.judge.sess = cur'.resolution.sess
  BY DEF TakenOver, Continued
<1>8. ~Accepted(cur)
  BY DEF TakenOver
<1>9. ValidWorkOrder(cur)'
  BY <1>1, <1>4, <1>6, <1>7, <1>8, Numbers DEF WorkInv, ValidWorkOrder, JudgeIs, DispatchIs,
                                          JudgmentIsCurrent, AskedBy, Accepted
<1> QED
  BY <1>2, <1>3, <1>9 DEF WorkInv

LEMMA WorkStep ==
  ASSUME IInv, IInv', WorkInv, RowChange
  PROVE  WorkInv'
BY KeptWork, DispatchWork, ClaimedWork, JudgeWork, VerdictWork, NewWork, RedoneWork, TakenOverWork
DEF RowChange

-----------------------------------------------------------------------------
(* The history, and the end of the Run.                                    *)

\* A work order left by an ACCEPT was judged, and is one the store accepts.
LEMMA LeftWork ==
  ASSUME IInv, WorkInv, JudgeSpeaks, NEW left \in WorkOrders, Exited(left)
  PROVE  JudgedExit(left) /\ ValidWorkOrder(left) /\ left.phase = "exited"
<1>1. /\ cur \in WorkOrders /\ cur.judge.claim = cur.claim.id /\ cur.judge.iv = cur.iv
      /\ cur.claim.dispatch = cur.dispatch.id /\ cur.dispatch # None
  BY DEF IInv, TypeOK, JudgeSpeaks, WorkInv, ValidWorkOrder
<1>2. /\ left.judgment # None /\ left.judgment.claim = cur.claim.id
      /\ left.judgment.judge = cur.judge.id /\ left.judgment.sess = cur.judge.sess
      /\ left.judgment.iv = cur.iv /\ left.judgment.result = "ACCEPT"
  BY <1>1, VerdictFields DEF Exited
<1>3. JudgmentIsCurrent(left) /\ Accepted(left)
  BY <1>2 DEF Exited, JudgmentIsCurrent, Accepted, JudgeSpeaks
<1>4. JudgedExit(left)
  BY <1>1, <1>2, <1>3 DEF Exited, JudgedExit, JudgeSpeaks, WorkInv, Stands, Dated
<1>5. left.resolution # None =>
        left.resolution.iv = cur.iv /\ left.resolution.mode = "none"
        /\ left.resolution.sess = None
  <2>1. SUFFICES ASSUME left.resolution # None
                 PROVE  /\ left.resolution.iv = cur.iv /\ left.resolution.mode = "none"
                        /\ left.resolution.sess = None
    OBVIOUS
  <2>2. PICK r : r = cur.resolution
    OBVIOUS
  <2>3. r # None /\ r \in Resolutions
    BY <1>1, <2>1, <2>2, FieldTypes DEF Exited, ModeSpent
  <2>4. r.iv = cur.iv /\ (r.target # "judge" => r.mode = "none" /\ r.sess = None)
    BY <2>2, <2>3 DEF WorkInv, ValidWorkOrder, Resolutions
  <2>5. CASE r.target = "judge"
    <3>1. left.resolution = [r EXCEPT !.mode = "none", !.sess = None]
      BY <2>2, <2>3, <2>5 DEF Exited, ModeSpent
    <3> QED
      BY <2>3, <2>4, <3>1 DEF Resolutions
  <2>6. CASE r.target # "judge"
    BY <2>2, <2>3, <2>4, <2>6 DEF Exited, ModeSpent
  <2> QED
    BY <2>5, <2>6
<1>6. ValidWorkOrder(left)
  BY <1>1, <1>2, <1>3, <1>5 DEF Exited, ValidWorkOrder, JudgeSpeaks
<1> QED
  BY <1>4, <1>6 DEF Exited

\* The settling of its Judge changes nothing that was recorded of its exit.
LEMMA SettledWork ==
  ASSUME NEW e \in WorkOrders, e.judge # None, Judged(e)
  PROVE  Judged([e EXCEPT !.judge.settled = TRUE])
<1>1. e.judge \in Judges
  BY FieldTypes
<1>2. PICK j : j = [e.judge EXCEPT !.settled = TRUE]
  OBVIOUS
<1>3. /\ j \in Judges /\ j.id = e.judge.id /\ j.sess = e.judge.sess /\ j.claim = e.judge.claim
      /\ j.iv = e.judge.iv /\ j.pub = e.judge.pub
  BY <1>1, <1>2 DEF Judges
<1>4. j # None
  BY <1>3, NoneAssumption
<1>5. PICK f : f = [e EXCEPT !.judge.settled = TRUE] /\ f = [e EXCEPT !.judge = j]
  BY <1>2 DEF WorkOrders
<1>6. /\ f.judge = j /\ f.phase = e.phase /\ f.dispatch = e.dispatch /\ f.claim = e.claim
      /\ f.judgment = e.judgment /\ f.iv = e.iv /\ f.resolution = e.resolution
      /\ f.prevClaim = e.prevClaim /\ f.prevJudge = e.prevJudge
  BY <1>5 DEF WorkOrders
<1>7. JudgmentIsCurrent(f) = JudgmentIsCurrent(e) /\ Accepted(f) = Accepted(e)
  BY <1>6 DEF JudgmentIsCurrent, Accepted
<1>8. JudgedExit(f)
  BY <1>3, <1>6, <1>7 DEF Judged, JudgedExit
<1>9. ValidWorkOrder(f)
  BY <1>3, <1>4, <1>6, <1>7
  DEF Judged, ValidWorkOrder, AskedBy
<1> QED
  BY <1>5, <1>6, <1>8, <1>9 DEF Judged

PastInv == \A i \in DOMAIN past : Judged(past[i])

LEMMA PastStep ==
  ASSUME IInv, IInv', WorkInv, PastInv, RowChange
  PROVE  PastInv'
<1>1. TypeOK /\ Materials /\ past \in Seq(WorkOrders)
  BY DEF IInv, TypeOK
<1>2. CASE UNCHANGED past
  BY <1>2 DEF PastInv
<1>3. CASE MovesOn
  <2>1. PICK left \in WorkOrders : Exited(left) /\ past' = Append(past, left)
    BY <1>3 DEF MovesOn
  <2>2. Judged(left)
    BY <1>3, <2>1, LeftWork DEF MovesOn, Judged
  <2>3. \A i \in DOMAIN past' : past'[i] = left \/ (i \in DOMAIN past /\ past'[i] = past[i])
    BY <1>1, <2>1
  <2> QED
    BY <2>2, <2>3 DEF PastInv
<1>4. CASE past # <<>> /\ SettlePredecessor
  <2> DEFINE n == Len(past)
  <2>1. n \in DOMAIN past /\ past[n] \in WorkOrders /\ past[n].judge # None /\ Judged(past[n])
    BY <1>1, <1>4 DEF Materials, PastInv
  <2>2. DOMAIN past' = DOMAIN past /\ \A i \in DOMAIN past : i # n => past'[i] = past[i]
    BY <1>1, <1>4, SettlePredecessorType
  <2>3. past'[n] = [past[n] EXCEPT !.judge.settled = TRUE]
    BY <1>4, <2>1 DEF SettlePredecessor
  <2>4. Judged(past'[n])
    BY <2>1, <2>3, SettledWork
  <2> QED
    BY <2>2, <2>4 DEF PastInv
<1> QED
  BY <1>2, <1>3, <1>4 DEF RowChange, RowSame, Noted, Arranged, Published, Claimed,
     DispatchSettles, JudgeArranged, JudgePublished, Rejected, ContextAsked, RunCompletes,
     FailedOver, Returned, TakenOver, PredecessorSettles, Keeps

LEMMA EndedStep ==
  ASSUME IInv, IInv', WorkInv, Ended, cur.phase = "exited" => JudgedExit(cur), RowChange
  PROVE  Ended' /\ (cur.phase = "exited" => JudgedExit(cur))'
<1>1. CASE RunCompletes
  <2>1. cur' \in WorkOrders /\ Exited(cur') /\ JudgeSpeaks
    BY <1>1 DEF IInv, TypeOK, RunCompletes
  <2>2. JudgedExit(cur') /\ cur'.phase = "exited"
    BY <2>1, LeftWork
  <2> QED
    BY <1>1, <2>2 DEF Ended, RunCompletes, Wrote
<1>2. CASE RowSame \/ PredecessorSettles
  BY <1>2 DEF RowSame, PredecessorSettles, Ended, RunsOn, Wrote, JudgedExit,
              Accepted, JudgmentIsCurrent
<1>3. CASE Noted
  BY <1>3 DEF Noted, Wrote, Ended, KeepsWork, JudgedExit
<1>4. CASE /\ cur'.phase # "exited" /\ status' \in {"running", "blocked"}
  BY <1>4 DEF Ended
<1>5. CASE \/ Arranged \/ Published \/ Claimed \/ DispatchSettles \/ JudgeArranged
           \/ Rejected \/ MovesOn \/ FailedOver \/ Returned \/ TakenOver
  <2>1. cur'.phase # "exited" /\ status' \in {"running", "blocked"}
    <3>1. CASE Arranged \/ Published \/ Claimed \/ DispatchSettles \/ JudgeArranged \/ Rejected
      BY <3>1 DEF Arranged, Published, Claimed, DispatchSettles, JudgeArranged, Rejected,
                  RunsOn, Wrote
    <3>2. CASE MovesOn
      BY <3>2 DEF MovesOn, NewWorkOrder, RunsOn, Wrote
    <3>3. CASE FailedOver \/ Returned \/ TakenOver
      BY <3>3 DEF FailedOver, Returned, TakenOver, RunsOn, Wrote
    <3> QED
      BY <1>5, <3>1, <3>2, <3>3
  <2> QED
    BY <1>4, <2>1
<1>6. CASE JudgePublished \/ ContextAsked
  <2>1. cur'.phase # "exited" /\ status' \in {"running", "blocked"}
    BY <1>6 DEF JudgePublished, ContextAsked, JudgeSpeaks, KeepsWork, Ended, RunsOn, Wrote
  <2> QED
    BY <1>4, <2>1
<1> QED
  BY <1>1, <1>2, <1>3, <1>5, <1>6 DEF RowChange

-----------------------------------------------------------------------------
(* What a handler knows of the row when it is suspended.                   *)

\* A handler that a step suspends knows the row that the step leaves.
Informed == \A d \in calls' : d \in calls \/ (d.ver = version' => Timely(d)')

LEMMA InformedStep ==
  ASSUME IInv, AllTimely, RowChange, Informed
  PROVE  AllTimely'
<1>1. version \in Nat /\ \A d \in calls : d.ver \in Nat /\ d.ver <= version
  BY CallFields DEF IInv, TypeOK, Remembered
<1>2. RowSame \/ version' = version + 1
  BY DEF RowChange, Noted, Arranged, Published, Claimed, DispatchSettles, JudgeArranged,
     JudgePublished, Rejected, ContextAsked, RunCompletes, MovesOn, FailedOver, Returned,
     TakenOver, PredecessorSettles, RunsOn, Wrote
<1>3. CASE RowSame
  BY <1>3 DEF RowSame, Informed, AllTimely, Timely
<1>4. CASE version' = version + 1
  BY <1>1, <1>4 DEF Informed, AllTimely
<1> QED
  BY <1>2, <1>3, <1>4

LEMMA DriveReadsTimely ==
  ASSUME NEW e, NEW v, NEW d \in DriveReads(e, v)
  PROVE  \/ d.op = "arrange" /\ e.phase = "ready"
         \/ d.op = "cwd" /\ e.phase = "checking" /\ e.dispatch.settled
BY DEF DriveReads, Call, CallFor

LEMMA DriveInformed ==
  ASSUME IInv, RowInv, NEW c \in calls,
         \/ DriveStarts(c) \/ ArrangeActor(c) \/ ProbeIdle(c) \/ Compacted(c) \/ Sent(c)
         \/ ArrangeJudge(c)
  PROVE  Informed
<1>1. cur \in WorkOrders /\ c \in Calls /\ version \in Nat
  BY CallFields DEF IInv, TypeOK
<1>2. CASE DriveStarts(c)
  <2>1. cur' = cur
    BY <1>2 DEF DriveStarts, rowVars
  <2>2. \A d \in DriveReads(cur, version) : Timely([d EXCEPT !.from = c.ver])'
    <3>1. TAKE d \in DriveReads(cur, version)
    <3>2. [d EXCEPT !.from = c.ver].op = d.op
      BY <1>1, DriveReadsType DEF Calls
    <3> QED
      BY <2>1, <3>2, DriveReadsTimely DEF Timely
  <2> QED
    BY <1>2, <2>2 DEF DriveStarts, Resuspend, Informed
<1>3. CASE ArrangeActor(c)
  <2>1. CASE StillCurrent(c) /\ PredecessorSettled
    <3>1. PICK d : cur' = [cur EXCEPT !.phase = "working", !.dispatch = d]
      BY <1>3, <2>1 DEF ArrangeActor, Put
    <3>2. PICK op, s :
            /\ op \in {"probe", "compact", "send"}
            /\ calls' = (calls \ {c}) \cup {CallFor(op, version + 1, s, version + 1)}
      BY <1>3, <2>1 DEF ArrangeActor, Resuspend
    <3>3. cur'.phase = "working"
      BY <1>1, <3>1 DEF WorkOrders
    <3> QED
      BY <3>2, <3>3 DEF Informed, Timely, CallFor
  <2>2. CASE ~(StillCurrent(c) /\ PredecessorSettled)
    BY <1>3, <2>2 DEF ArrangeActor, Drop, Informed
  <2> QED
    BY <2>1, <2>2
<1>4. CASE ProbeIdle(c)
  <2>1. CASE StillCurrent(c)
    <3>1. PICK op \in {"send", "compact"} : calls' = (calls \ {c}) \cup {[c EXCEPT !.op = op]}
      BY <1>4, <2>1 DEF ProbeIdle, Resuspend
    <3>2. cur'.phase = "working"
      BY <1>4, <2>1 DEF RowInv, AllTimely, Timely, StillCurrent, ProbeIdle, rowVars
    <3>3. [c EXCEPT !.op = op].op = op
      BY <1>1 DEF Calls
    <3> QED
      BY <3>1, <3>2, <3>3 DEF Informed, Timely
  <2>2. CASE ~StillCurrent(c)
    BY <1>4, <2>2 DEF ProbeIdle, Drop, Informed
  <2> QED
    BY <2>1, <2>2
<1>5. CASE Compacted(c)
  <2>1. CASE StillCurrent(c)
    <3>1. calls' = (calls \ {c}) \cup {CallFor("send", version + 1, c.sess, c.id)}
      BY <1>5, <2>1 DEF Compacted, Resuspend
    <3>2. cur'.phase = cur.phase
      BY <1>1, <1>5, <2>1 DEF Compacted, Put, WorkOrders
    <3>3. cur.phase = "working"
      BY <1>5, <2>1 DEF RowInv, AllTimely, Timely, StillCurrent, Compacted
    <3> QED
      BY <3>1, <3>2, <3>3 DEF Informed, Timely, CallFor
  <2>2. CASE ~StillCurrent(c)
    BY <1>5, <2>2 DEF Compacted, Drop, Informed
  <2> QED
    BY <2>1, <2>2
<1>6. CASE Sent(c)
  <2>1. PICK op, s : /\ calls' = (calls \ {c}) \cup {[c EXCEPT !.sess = s, !.op = op]}
                     /\ op = IF c.op = "send" THEN "publish" ELSE "judgePublish"
    BY <1>6 DEF Sent, Resuspend
  <2>2. PICK x : x = [c EXCEPT !.sess = s, !.op = op]
    OBVIOUS
  <2>3. x.op = op /\ x.ver = c.ver
    BY <1>1, <2>2 DEF Calls
  <2>4. cur' = cur /\ version' = version /\ (c.ver = version => Timely(c))
    BY <1>6 DEF Sent, rowVars, RowInv, AllTimely
  <2>5. x.ver = version => Timely(x)
    <3>1. CASE c.op = "send"
      BY <2>1, <2>3, <2>4, <3>1 DEF Timely
    <3>2. CASE c.op # "send"
      BY <2>1, <2>3, <3>2 DEF Timely
    <3> QED
      BY <3>1, <3>2
  <2>6. x.ver = version' => Timely(x)'
    BY <2>4, <2>5 DEF Timely
  <2> QED
    BY <2>1, <2>2, <2>6 DEF Informed
<1>7. CASE ArrangeJudge(c)
  <2>1. calls' \subseteq calls \/ \E x : x.op = "judgeSend" /\ calls' = (calls \ {c}) \cup {x}
    <3>1. CASE ~StillCurrent(c)
      BY <1>7, <3>1 DEF ArrangeJudge, Drop
    <3>2. CASE StillCurrent(c) /\ cur.judge = None
      <4>1. PICK s : calls' = (calls \ {c})
                       \cup {CallFor("judgeSend", version + 1, s, version + 1)}
        BY <1>7, <3>2 DEF ArrangeJudge, Resuspend
      <4> QED
        BY <4>1 DEF CallFor
    <3>3. CASE StillCurrent(c) /\ cur.judge # None
      <4>1. \/ calls' = (calls \ {c}) \cup {}
            \/ calls' = (calls \ {c}) \cup
                 {[c EXCEPT !.op = "judgeSend", !.sess = cur.judge.sess, !.id = cur.judge.id]}
        BY <1>7, <3>3 DEF ArrangeJudge, Resuspend
      <4>2. PICK x : x = [c EXCEPT !.op = "judgeSend", !.sess = cur.judge.sess,
                                   !.id = cur.judge.id]
        OBVIOUS
      <4>3. x.op = "judgeSend"
        BY <1>1, <4>2 DEF Calls
      <4> QED
        BY <4>1, <4>2, <4>3
    <3> QED
      BY <3>1, <3>2, <3>3
  <2> QED
    BY <2>1 DEF Informed, Timely
<1> QED
  BY <1>2, <1>3, <1>4, <1>5, <1>6, <1>7

LEMMA SettleInformed ==
  ASSUME IInv, RowInv, NEW c \in calls,
         \/ TurnEndReads(c) \/ TransferSettles(c) \/ ActorSettles(c) \/ ActorFailsOver(c)
         \/ JudgeRetries(c) \/ JudgeFailsOver(c) \/ RejudgeSends(c)
  PROVE  Informed
<1>1. cur \in WorkOrders /\ c \in Calls
  BY CallFields DEF IInv, TypeOK
<1>2. CASE TurnEndReads(c)
  <2>1. PICK op, X : /\ calls' = (calls \ {c}) \cup X
                     /\ X \subseteq {[c EXCEPT !.op = op, !.ver = version]}
                     /\ \/ op = "transferProbe" /\ cur.phase = "ready"
                        \/ op = "actorProbe"
                        \/ op = "judgeProbe" /\ cur.judge # None
    <3>1. CASE status # "running"
      BY <1>2, <3>1 DEF TurnEndReads, Resuspend
    <3>2. CASE status = "running" /\ cur.phase = "ready" /\ past # <<>>
      BY <1>2, <3>2 DEF TurnEndReads, Resuspend
    <3>3. CASE status = "running" /\ ~(cur.phase = "ready" /\ past # <<>>)
      <4>1. CASE Matches(cur.dispatch, c.sess, c.id) /\ ~cur.dispatch.settled
        BY <1>2, <3>3, <4>1 DEF TurnEndReads, Resuspend
      <4>2. CASE ~(Matches(cur.dispatch, c.sess, c.id) /\ ~cur.dispatch.settled)
        BY <1>2, <3>3, <4>2 DEF TurnEndReads, Resuspend, Matches
      <4> QED
        BY <4>1, <4>2
    <3> QED
      BY <3>1, <3>2, <3>3
  <2>2. [c EXCEPT !.op = op, !.ver = version].op = op
    BY <1>1 DEF Calls
  <2>3. cur' = cur
    BY <1>2 DEF TurnEndReads, rowVars
  <2> QED
    BY <2>1, <2>2, <2>3 DEF Informed, Timely
<1>3. CASE TransferSettles(c)
  <2>1. cur' = cur /\ calls' = (calls \ {c}) \cup DriveReads(cur, version + 1)
    BY <1>3 DEF TransferSettles, Resuspend
  <2> QED
    BY <2>1, DriveReadsTimely DEF Informed, Timely
<1>4. CASE ActorSettles(c)
  <2>1. calls' = (calls \ {c}) \cup DriveReads(cur', version + 1)
    BY <1>4 DEF ActorSettles, Put, Resuspend
  <2> QED
    BY <2>1, DriveReadsTimely DEF Informed, Timely
<1>5. CASE ActorFailsOver(c)
  BY <1>5 DEF ActorFailsOver, Resuspend, Informed, Timely, Call, CallFor
<1>6. CASE JudgeRetries(c) \/ JudgeFailsOver(c)
  <2>1. \/ calls' = calls \ {c}
        \/ calls' = (calls \ {c}) \cup
             {CallFor("rejudge", version + 1, version + 1, version + 1)}
    BY <1>6 DEF JudgeRetries, JudgeFailsOver, Rejudge, Resuspend, Drop
  <2> QED
    BY <2>1 DEF Informed, Timely, CallFor
<1>7. CASE RejudgeSends(c)
  <2>1. calls' \subseteq (calls \ {c}) \cup {[c EXCEPT !.op = "judgeSend"]}
    BY <1>7 DEF RejudgeSends, Resuspend
  <2>2. [c EXCEPT !.op = "judgeSend"].op = "judgeSend"
    BY <1>1 DEF Calls
  <2> QED
    BY <2>1, <2>2 DEF Informed, Timely
<1> QED
  BY <1>2, <1>3, <1>4, <1>5, <1>6, <1>7

LEMMA SubmitInformed ==
  ASSUME IInv, NEW h \in host, Submits(h)
  PROVE  Informed
<1>1. CASE (\E r \in Results : NodeClaim(h, r)) \/ JudgeNeedsContext(h) \/ ActorBlocks(h)
           \/ TurnWakes(h)
  BY <1>1 DEF NodeClaim, JudgeNeedsContext, ActorBlocks, TurnWakes, Informed
<1>2. CASE JudgeRejects(h)
  BY <1>2 DEF JudgeRejects, Informed, Timely, Call, CallFor
<1>3. CASE JudgeAccepts(h)
  <2>1. CASE Releases
    <3>1. calls' = calls \cup {CallFor("accept", version, h.sess, cur.judge.id)} /\ cur' = cur
      BY <1>3, <2>1 DEF JudgeAccepts, rowVars
    <3>2. cur.phase = "checking" /\ cur.judge.pub
      BY <1>3 DEF JudgeAccepts, JudgeMaySubmit, Matches
    <3> QED
      BY <3>1, <3>2 DEF Informed, Timely, CallFor
  <2>2. CASE ~Releases
    BY <1>3, <2>2 DEF JudgeAccepts, Informed
  <2> QED
    BY <2>1, <2>2
<1>4. CASE TurnEnds(h) \/ ActivationFails(h)
  BY <1>4 DEF TurnEnds, ActivationFails, Informed, Timely, CallFor
<1> QED
  BY <1>1, <1>2, <1>3, <1>4 DEF Submits

LEMMA CommandInformed ==
  ASSUME IInv, Commanded
  PROVE  Informed
<1>1. CASE ManagerBlocks \/ RespawnFaults \/ Resets \/ Restarts
           \/ \E key \in Roles \cup {Judge} : SetsRoleModel(key)
  BY <1>1 DEF ManagerBlocks, RespawnFaults, Resets, Restarts, SetsRoleModel, Informed
<1>2. CASE \/ \E replace, skip \in BOOLEAN : ResumesActor(replace, skip)
           \/ \E mode \in {"fresh", "followup"} : ResumesJudge(mode)
           \/ RespawnsJudge
  <2>1. calls' \subseteq calls \cup {Call("drive", version + 1)} \cup DriveReads(cur', version + 1)
    <3>1. CASE \E replace, skip \in BOOLEAN : ResumesActor(replace, skip)
      BY <3>1 DEF ResumesActor, Put, ThenDrive
    <3>2. CASE \E mode \in {"fresh", "followup"} : ResumesJudge(mode)
      BY <3>2 DEF ResumesJudge, Put, ThenDrive
    <3>3. CASE RespawnsJudge
      BY <3>3 DEF RespawnsJudge, Put
    <3> QED
      BY <1>2, <3>1, <3>2, <3>3
  <2>2. Call("drive", version + 1).op = "drive"
    BY DEF Call, CallFor
  <2> QED
    BY <2>1, <2>2, DriveReadsTimely DEF Informed, Timely
<1> QED
  BY <1>1, <1>2 DEF Commanded

LEMMA EveryInformed ==
  ASSUME IInv, RowInv, [Next]_vars
  PROVE  Informed
<1>1. CASE \E c \in calls : Continues(c)
  <2>1. PICK c \in calls : Continues(c)
    BY <1>1
  <2>2. CASE \/ PublishActor(c) \/ PublishJudge(c) \/ DriveFaults(c) \/ ReleasedAndAccepted(c)
             \/ ProbeUnsafe(c) \/ ProbeWaiting(c) \/ SettlesStale(c)
             \/ ActorSettlesNothing(c) \/ ActorEndsWithoutClaim(c)
             \/ JudgeEndsWithoutVerdict(c) \/ ActivationSettles(c)
    <3>1. calls' \subseteq calls
      BY <2>2 DEF PublishActor, PublishJudge, DriveFaults, ReleasedAndAccepted, ProbeUnsafe,
         ProbeWaiting, SettlesStale, ActorSettlesNothing, ActorEndsWithoutClaim,
         JudgeEndsWithoutVerdict, ActivationSettles, BlockIfCurrent, Drop
    <3> QED
      BY <3>1 DEF Informed
  <2>3. CASE ~(\/ PublishActor(c) \/ PublishJudge(c) \/ DriveFaults(c) \/ ReleasedAndAccepted(c)
               \/ ProbeUnsafe(c) \/ ProbeWaiting(c) \/ SettlesStale(c)
               \/ ActorSettlesNothing(c) \/ ActorEndsWithoutClaim(c)
               \/ JudgeEndsWithoutVerdict(c) \/ ActivationSettles(c))
    BY <2>1, <2>3, DriveInformed, SettleInformed DEF Continues
  <2> QED
    BY <2>2, <2>3
<1>2. CASE \E h \in host : Submits(h)
  BY <1>2, SubmitInformed
<1>3. CASE Commanded
  BY <1>3, CommandInformed
<1>4. CASE UNCHANGED vars
  BY <1>4 DEF vars, Informed
<1> QED
  BY <1>1, <1>2, <1>3, <1>4 DEF Next

-----------------------------------------------------------------------------
(* The theorems.                                                           *)

LEMMA InitRowInv ==
  ASSUME Init
  PROVE  RowInv
<1> DEFINE first == [NewWorkOrder(StartNode) EXCEPT !.prepared = TRUE]
<1>1. /\ cur.phase = "ready" /\ cur.dispatch = None /\ cur.claim = None /\ cur.judge = None
      /\ cur.judgment = None /\ cur.prevJudge = None /\ cur.resolution = None
  BY DEF Init, NewWorkOrder
<1>2. Stands(cur) /\ Dated(cur) /\ ValidWorkOrder(cur)
  BY <1>1 DEF Stands, Dated, ValidWorkOrder, JudgmentIsCurrent
<1>3. Ended /\ AllTimely
  BY <1>1 DEF Init, Ended, AllTimely, Timely, Call, CallFor
<1> QED
  BY <1>1, <1>2, <1>3 DEF Init, RowInv

LEMMA RowInvStep ==
  ASSUME IInv, IInv', RowInv, [Next]_vars
  PROVE  RowInv'
<1>1. RowChange
  BY EveryChange
<1>2. WorkInv /\ PastInv
  BY DEF RowInv, WorkInv, PastInv
<1>3. WorkInv'
  BY <1>1, <1>2, WorkStep
<1>4. PastInv'
  BY <1>1, <1>2, PastStep
<1>5. Ended' /\ (cur.phase = "exited" => JudgedExit(cur))'
  BY <1>1, <1>2, EndedStep DEF RowInv
<1>6. AllTimely'
  BY <1>1, EveryInformed, InformedStep DEF RowInv
<1> QED
  BY <1>3, <1>4, <1>5, <1>6 DEF RowInv, WorkInv, PastInv

\* RowInv holds in every state: what a work order records in each phase, in
\* which order its ids were minted, and what each handler may rely on.
THEOREM RowsHold == Spec => [](IInv /\ RowInv)
<1>1. Init => RowInv
  BY InitRowInv
<1>2. IInv /\ IInv' /\ RowInv /\ [Next]_vars => RowInv'
  BY RowInvStep
<1> QED
  BY <1>1, <1>2, Inductive, PTL DEF Spec

\* A work order is left only by the ACCEPT of a Judge that was dispatched,
\* after the Actor's dispatch had settled, for the very claim it carries.
THEOREM ExitsStandJudged == Spec => []ExitsAreJudged
<1>1. RowInv => ExitsAreJudged
  BY DEF RowInv, ExitsAreJudged, Judged
<1> QED
  BY <1>1, RowsHold, PTL

-----------------------------------------------------------------------------
(* The Judges of one claim.                                                *)

LEMMA ReplacedForReason ==
  ASSUME IInv, RowChange,
         cur.judge # None, cur'.judge # None, cur'.judge.id # cur.judge.id
  PROVE  \/ cur'.iv > cur.iv \/ Len(past') > Len(past)
         \/ ~cur.retried /\ cur'.retried
         \/ stage[Judge] # "fallback" /\ stage'[Judge] = NextStage(stage[Judge])
<1>1. cur.iv \in Nat /\ cur.iv + 1 > cur.iv
  BY FieldTypes DEF IInv, TypeOK
<1>2. CASE JudgeArranged
  BY <1>2 DEF JudgeArranged
<1>3. CASE TakenOver
  BY <1>1, <1>3 DEF TakenOver
<1>4. CASE MovesOn
  <2>1. cur'.judge = None
    BY <1>4 DEF MovesOn, NewWorkOrder
  <2> QED
    BY <2>1
<1>5. CASE RowSame \/ Noted \/ Arranged \/ Published \/ Claimed \/ DispatchSettles
  BY <1>5 DEF RowSame, Noted, KeepsWork, Arranged, Published, Claimed, DispatchSettles
<1>6. CASE \/ JudgePublished \/ Rejected \/ ContextAsked \/ RunCompletes \/ FailedOver
           \/ Returned \/ PredecessorSettles
  BY <1>6 DEF JudgePublished, Rejected, ContextAsked, KeepsWork, RunCompletes, Exited,
              FailedOver, Returned, PredecessorSettles
<1> QED
  BY <1>2, <1>3, <1>4, <1>5, <1>6 DEF RowChange

\* The engine never replaces a Judge without end: each new Judge for the same
\* claim uses up the one retry of the input or a stage of the Judge's route.
THEOREM JudgesRunOut == Spec => JudgeReplacementsRunOut
<1>1. IInv /\ IInv' /\ RowInv /\ [Next]_vars =>
        [ cur.judge # None /\ cur'.judge # None /\ cur'.judge.id # cur.judge.id
            => \/ cur'.iv > cur.iv \/ Len(past') > Len(past)
               \/ ~cur.retried /\ cur'.retried
               \/ stage[Judge] # "fallback" /\ stage'[Judge] = NextStage(stage[Judge])
        ]_vars
  BY EveryChange, ReplacedForReason
<1> QED
  BY <1>1, RowsHold, PTL DEF Spec, JudgeReplacementsRunOut

-----------------------------------------------------------------------------
(* The Run as its users see it: Runtime implements SerialWorkflow, for     *)
(* every definition and every set of commands, and its history is a path   *)
(* of the definition.  Each way of changing the row (RowChange) is a step  *)
(* of SerialWorkflow under the mapping of Runtime, or leaves what its      *)
(* users see as it was.                                                    *)

-----------------------------------------------------------------------------
(* The mapped variables, named.                                            *)

ResultNow == IF cur.claim = None THEN None ELSE cur.claim.result
Entry(e)  == [node |-> e.node, result |-> e.claim.result]
Trail     == [i \in DOMAIN past |-> Entry(past[i])]
Lingers   == ~PredecessorSettled

Seen == <<cur.node, ResultNow, Trail, Lingers>>

LEMMA StepOfPhase ==
  /\ cur.phase = "ready" => Step = "open"
  /\ cur.phase = "working" => Step = "dispatched"
  /\ cur.phase = "checking" /\ cur.dispatch.settled => Step = "closed"
  /\ cur.phase = "checking" /\ ~cur.dispatch.settled => Step = "claimed"
  /\ cur.phase = "exited" => Step = "exited"
BY DEF Step

LEMMA StepOfPhaseNext ==
  /\ cur'.phase = "ready" => Step' = "open"
  /\ cur'.phase = "working" => Step' = "dispatched"
  /\ cur'.phase = "checking" /\ cur'.dispatch.settled => Step' = "closed"
  /\ cur'.phase = "checking" /\ ~cur'.dispatch.settled => Step' = "claimed"
  /\ cur'.phase = "exited" => Step' = "exited"
BY DEF Step

\* The same claim on the same Node, with the same history.
LEMMA SeenSame ==
  ASSUME UNCHANGED past, cur'.node = cur.node, cur'.claim = cur.claim
  PROVE  UNCHANGED Seen
BY DEF Seen, ResultNow, Trail, Entry, Lingers, PredecessorSettled

LEMMA StepSame ==
  ASSUME cur'.phase = cur.phase, cur'.dispatch = cur.dispatch
  PROVE  UNCHANGED Step
BY DEF Step

\* Each step of SerialWorkflow, in the words of the row.
LEMMA SerialStep ==
  ASSUME \/ status' = status /\ UNCHANGED <<Step, Seen>>
         \/ /\ status = "running" /\ status' = "running" /\ ~Lingers /\ UNCHANGED Seen
            /\ Step = "open" /\ Step' = "dispatched"
         \/ /\ Live /\ status' = "running" /\ Step \in {"claimed", "closed"}
            /\ Step' = "closed" /\ UNCHANGED Seen
         \/ /\ Live /\ status' \in {"blocked", "terminated"} /\ UNCHANGED <<Step, Seen>>
  PROVE  [Serial!Next]_(Serial!vars)
<1>1. CASE status' = status /\ UNCHANGED <<Step, Seen>>
  BY <1>1 DEF Serial!vars, Seen, ResultNow, Trail, Entry, Lingers
<1>2. CASE /\ status = "running" /\ status' = "running" /\ ~Lingers /\ UNCHANGED Seen
           /\ Step = "open" /\ Step' = "dispatched"
  <2>1. Serial!Dispatch
    BY <1>2 DEF Serial!Dispatch, Seen, ResultNow, Trail, Entry, Lingers
  <2> QED
    BY <2>1 DEF Serial!Next
<1>3. CASE /\ Live /\ status' = "running" /\ Step \in {"claimed", "closed"}
           /\ Step' = "closed" /\ UNCHANGED Seen
  <2>1. Serial!Close \/ Serial!Continue
    BY <1>3 DEF Serial!Close, Serial!Continue, Serial!Live, Live,
                Seen, ResultNow, Trail, Entry, Lingers
  <2> QED
    BY <2>1 DEF Serial!Next
<1>4. CASE Live /\ status' \in {"blocked", "terminated"} /\ UNCHANGED <<Step, Seen>>
  <2>1. Serial!Suspend \/ Serial!Terminate
    BY <1>4 DEF Serial!Suspend, Serial!Terminate, Serial!Live, Live,
                Seen, ResultNow, Trail, Entry, Lingers
  <2> QED
    BY <2>1 DEF Serial!Next
<1> QED
  BY <1>1, <1>2, <1>3, <1>4

-----------------------------------------------------------------------------
(* The history as a trail.                                                 *)

Entries == [node: Nodes, result: Results]

LEMMA EntryType ==
  ASSUME NEW e \in WorkOrders, Judged(e)
  PROVE  Entry(e) \in Entries
<1>1. e.claim \in Claims /\ e.node \in Nodes
  BY FieldTypes DEF Judged, JudgedExit, JudgmentIsCurrent
<1> QED
  BY <1>1 DEF Entry, Entries, Claims

LEMMA TrailType ==
  ASSUME IInv, PastInv
  PROVE  Trail \in Seq(Entries) /\ Len(Trail) = Len(past) /\ DOMAIN Trail = DOMAIN past
<1>1. past \in Seq(WorkOrders) /\ Len(past) \in Nat /\ DOMAIN past = 1 .. Len(past)
  BY DEF IInv, TypeOK
<1>2. \A i \in DOMAIN past : Entry(past[i]) \in Entries
  BY <1>1, EntryType DEF PastInv
<1>3. Trail \in [1 .. Len(past) -> Entries]
  BY <1>1, <1>2 DEF Trail
<1>4. Trail \in Seq(Entries)
  BY <1>1, <1>3, SeqDef
<1> QED
  BY <1>1, <1>3, <1>4

LEMMA TrailGrows ==
  ASSUME IInv, IInv', PastInv, PastInv', NEW left \in WorkOrders, past' = Append(past, left)
  PROVE  Trail' = Append(Trail, Entry(left))
<1>1. past \in Seq(WorkOrders) /\ Len(past) \in Nat /\ DOMAIN past = 1 .. Len(past)
  BY DEF IInv, TypeOK
<1>2. /\ Len(past') = Len(past) + 1 /\ past'[Len(past) + 1] = left
      /\ \A i \in 1 .. Len(past) : past'[i] = past[i]
  BY <1>1, AppendProperties
<1>3. DOMAIN past' = 1 .. Len(past) + 1
  BY <1>1
<1>4. Judged(left)
  BY <1>1, <1>2, <1>3 DEF PastInv
<1>5. Trail \in Seq(Entries) /\ Len(Trail) = Len(past) /\ Entry(left) \in Entries
  BY <1>4, TrailType, EntryType
<1> DEFINE longer == Append(Trail, Entry(left))
<1>6. /\ longer \in Seq(Entries) /\ Len(longer) = Len(past) + 1
      /\ longer[Len(past) + 1] = Entry(left)
      /\ \A i \in 1 .. Len(past) : longer[i] = Trail[i]
  BY <1>5, AppendProperties
<1>7. longer = [i \in 1 .. Len(past) + 1 |-> longer[i]]
  <2> HIDE DEF longer
  <2>1. longer \in [1 .. Len(past) + 1 -> Entries]
    BY <1>1, <1>6, LenProperties
  <2> QED
    BY <2>1
<1> HIDE DEF longer
<1>8. \A i \in 1 .. Len(past) + 1 : longer[i] = Entry(past'[i])
  <2>1. \A i \in 1 .. Len(past) : longer[i] = Entry(past[i])
    BY <1>1, <1>6 DEF Trail
  <2> QED
    BY <1>1, <1>2, <1>6, <2>1
<1>9. Trail' = [i \in 1 .. Len(past) + 1 |-> Entry(past'[i])]
  BY <1>3 DEF Trail, Entry
<1>10. Trail' = longer
  BY <1>7, <1>8, <1>9
<1> QED
  BY <1>10 DEF longer

LEMMA TrailSettles ==
  ASSUME IInv, past # <<>>, SettlePredecessor
  PROVE  Trail' = Trail /\ ~Lingers'
<1>1. TypeOK /\ Materials /\ past \in Seq(WorkOrders)
  BY DEF IInv, TypeOK
<1> DEFINE n == Len(past)
<1>2. n \in DOMAIN past /\ past[n] \in WorkOrders
  BY <1>1
<1>3. /\ DOMAIN past' = DOMAIN past /\ Len(past') = n /\ past'[n].judge.settled
      /\ \A i \in DOMAIN past : i # n => past'[i] = past[i]
  BY <1>1, SettlePredecessorType
<1>4. past'[n].node = past[n].node /\ past'[n].claim = past[n].claim
  <2>1. past'[n] = [past[n] EXCEPT !.judge.settled = TRUE]
    BY <1>2 DEF SettlePredecessor
  <2> QED
    BY <1>2, <2>1 DEF WorkOrders
<1>5. \A i \in DOMAIN past : Entry(past'[i]) = Entry(past[i])
  BY <1>3, <1>4 DEF Entry
<1>6. Trail' = [i \in DOMAIN past |-> Entry(past'[i])]
  BY <1>3 DEF Trail, Entry
<1>7. Trail' = Trail
  BY <1>5, <1>6 DEF Trail
<1> QED
  BY <1>3, <1>7 DEF Lingers, PredecessorSettled

-----------------------------------------------------------------------------
(* Each way of changing the row as a step of SerialWorkflow.               *)

LEMMA WorkIsSerial ==
  ASSUME IInv, RowInv,
         \/ RowSame \/ Noted \/ Arranged \/ Published \/ DispatchSettles
         \/ JudgeArranged \/ JudgePublished \/ ContextAsked
  PROVE  [Serial!Next]_(Serial!vars)
<1>1. CASE RowSame
  <2>1. UNCHANGED <<Step, Seen>>
    BY <1>1, SeenSame, StepSame DEF RowSame
  <2> QED
    BY <1>1, <2>1, SerialStep DEF RowSame
<1>2. CASE Noted \/ ContextAsked
  <2>1. UNCHANGED <<Step, Seen>>
    BY <1>2, SeenSame, StepSame DEF Noted, ContextAsked, Keeps, KeepsWork
  <2>2. \/ status' = status
        \/ Live /\ status' \in {"blocked", "terminated"}
    BY <1>2 DEF Noted, ContextAsked, Wrote, Live
  <2> QED
    BY <2>1, <2>2, SerialStep
<1>3. CASE Arranged
  <2>1. UNCHANGED Seen /\ ~Lingers
    BY <1>3, SeenSame DEF Arranged, Keeps, Lingers
  <2>2. Step = "open" /\ Step' = "dispatched"
    BY <1>3, StepOfPhase, StepOfPhaseNext DEF Arranged
  <2> QED
    BY <1>3, <2>1, <2>2, SerialStep DEF Arranged, RunsOn, Wrote
<1>4. CASE Published
  <2>1. UNCHANGED Seen
    BY <1>4, SeenSame DEF Published, Keeps
  <2>2. UNCHANGED Step
    BY <1>4, StepOfPhase, StepOfPhaseNext DEF Published
  <2> QED
    BY <1>4, <2>1, <2>2, SerialStep DEF Published, RunsOn, Wrote
<1>5. CASE DispatchSettles
  <2>1. UNCHANGED Seen
    BY <1>5, SeenSame DEF DispatchSettles, Keeps
  <2>2. Step \in {"claimed", "closed"} /\ Step' = "closed"
    BY <1>5, StepOfPhase, StepOfPhaseNext DEF DispatchSettles, DispatchSettled, DispatchIs
  <2> QED
    BY <1>5, <2>1, <2>2, SerialStep DEF DispatchSettles, RunsOn, Wrote, Live
<1>6. CASE JudgeArranged \/ JudgePublished
  <2>1. UNCHANGED <<Step, Seen>>
    BY <1>6, SeenSame, StepSame DEF JudgeArranged, JudgePublished, Keeps
  <2>2. status' = status
    BY <1>6 DEF JudgeArranged, JudgePublished, RunsOn, Wrote
  <2> QED
    BY <2>1, <2>2, SerialStep
<1> QED
  BY <1>1, <1>2, <1>3, <1>4, <1>5, <1>6

LEMMA ClaimIsSerial ==
  ASSUME IInv, IInv', RowInv, Claimed
  PROVE  Serial!Next
<1>1. cur'.claim \in Claims /\ cur'.claim # None
  BY FieldTypes DEF Claimed, IInv, TypeOK, WorkOrders, Maybe
<1>2. cur'.claim.result \in Results
  BY <1>1 DEF Claims
<1>3. Step = "dispatched" /\ Step' = "claimed"
  BY StepOfPhase, StepOfPhaseNext DEF Claimed, RowInv, Stands
<1>4. UNCHANGED <<cur.node, Trail, Lingers>> /\ ResultNow' = cur'.claim.result
  BY <1>1 DEF Claimed, Keeps, Trail, Entry, Lingers, PredecessorSettled, ResultNow
<1>5. Serial!Claim(cur'.claim.result)
  BY <1>3, <1>4 DEF Claimed, RunsOn, Wrote, Serial!Claim, Trail, Entry, Lingers, ResultNow
<1> QED
  BY <1>2, <1>5 DEF Serial!Next

\* Back to the Role while the Run is running.
LEMMA RedoIsSerial ==
  ASSUME IInv, RowInv, Rejected \/ FailedOver
  PROVE  Serial!Next
<1>1. Step \in {"dispatched", "closed"} /\ Step' = "open"
  BY StepOfPhase, StepOfPhaseNext DEF Rejected, FailedOver, JudgeSpeaks, RowInv, Stands
<1>2. UNCHANGED <<cur.node, Trail, Lingers>> /\ ResultNow' = None
  BY DEF Rejected, FailedOver, Keeps, Trail, Entry, Lingers, PredecessorSettled, ResultNow,
         RowInv, Stands
<1>3. status = "running" /\ status' = "running"
  BY DEF Rejected, FailedOver, RunsOn, Wrote
<1>4. Serial!Redo
  BY <1>1, <1>2, <1>3 DEF Serial!Redo, Trail, Entry, Lingers, ResultNow
<1> QED
  BY <1>4 DEF Serial!Next

LEMMA ResumeIsSerial ==
  ASSUME IInv, RowInv, OneHandoffAtATime, Returned
  PROVE  Serial!Next
<1>1. status = "blocked" /\ status' = "running"
  BY DEF Returned, Wrote
<1>2. cur.phase # "exited" /\ cur.phase \in {"ready", "working", "checking"}
  BY <1>1 DEF RowInv, Ended, IInv, TypeOK, WorkOrders
<1>3. Step # "exited" /\ Step' = "open"
  BY <1>2, StepOfPhase, StepOfPhaseNext DEF Returned
<1>4. cur'.node = cur.node /\ ResultNow' = None
  BY DEF Returned, ResultNow
<1>5. Trail' = Trail /\ ~Lingers'
  <2>1. CASE past # <<>> /\ SettlePredecessor
    BY <2>1, TrailSettles
  <2>2. CASE UNCHANGED past /\ (cur.phase = "ready" => PredecessorSettled)
    <3>1. PredecessorSettled
      <4>1. CASE cur.phase # "ready"
        <5>1. cur.dispatch # None
          BY <1>2, <4>1 DEF IInv, Materials
        <5>2. past # <<>> => Len(past) \in DOMAIN past
          BY DEF IInv, TypeOK
        <5> QED
          BY <5>1, <5>2 DEF OneHandoffAtATime, PredecessorSettled
      <4> QED
        BY <2>2, <4>1
    <3> QED
      BY <2>2, <3>1 DEF Trail, Entry, Lingers, PredecessorSettled
  <2> QED
    BY <2>1, <2>2 DEF Returned
<1>6. Serial!Resume
  BY <1>1, <1>3, <1>4, <1>5 DEF Serial!Resume, Trail, Entry, Lingers, ResultNow
<1> QED
  BY <1>6 DEF Serial!Next

LEMMA TakeoverIsSerial ==
  ASSUME IInv, RowInv, TakenOver
  PROVE  [Serial!Next]_(Serial!vars)
<1>1. UNCHANGED Seen
  BY SeenSame DEF TakenOver, Keeps
<1>2. Step \in {"claimed", "closed"} /\ Step' = "closed"
  BY StepOfPhase, StepOfPhaseNext DEF TakenOver, DispatchSettled, DispatchIs
<1> QED
  BY <1>1, <1>2, SerialStep DEF TakenOver, Wrote, Live

LEMMA SettlingIsSerial ==
  ASSUME IInv, PredecessorSettles
  PROVE  [Serial!Next]_(Serial!vars)
<1>1. Trail' = Trail /\ ~Lingers'
  BY TrailSettles DEF PredecessorSettles
<1>2. /\ status = "running" /\ status' = "running" /\ Step = "open" /\ Step' = "open"
      /\ cur.node' = cur.node /\ ResultNow' = ResultNow
  BY StepOfPhase, StepOfPhaseNext DEF PredecessorSettles, RunsOn, Wrote, ResultNow
<1>3. CASE Lingers
  <2>1. Serial!Settle
    BY <1>1, <1>2, <1>3 DEF Serial!Settle, Trail, Entry, Lingers, ResultNow
  <2> QED
    BY <2>1 DEF Serial!Next
<1>4. CASE ~Lingers
  <2>1. UNCHANGED Lingers
    BY <1>1, <1>4 DEF Lingers
  <2> QED
    BY <1>1, <1>2, <2>1, SerialStep DEF Seen
<1> QED
  BY <1>3, <1>4

LEMMA AcceptIsSerial ==
  ASSUME IInv, IInv', RowInv, RowInv', RunCompletes \/ MovesOn
  PROVE  Serial!Next
<1>1. Step = "closed" /\ status = "running" /\ ResultNow = cur.claim.result
  BY StepOfPhase DEF RunCompletes, MovesOn, JudgeSpeaks, RowInv, Stands, ResultNow
<1>2. CASE RunCompletes
  <2>1. Step' = "exited" /\ status' = "completed"
    BY <1>2, StepOfPhaseNext DEF RunCompletes, Exited, Wrote
  <2>2. UNCHANGED Seen
    BY <1>2, SeenSame DEF RunCompletes, Exited
  <2>3. Target[cur.node][ResultNow] = Return
    BY <1>1, <1>2 DEF RunCompletes
  <2>4. Serial!Accept
    BY <1>1, <2>1, <2>2, <2>3 DEF Serial!Accept, Seen, Trail, Entry, Lingers, ResultNow
  <2> QED
    BY <2>4 DEF Serial!Next
<1>3. CASE MovesOn
  <2>1. PICK left \in WorkOrders : Exited(left) /\ past' = Append(past, left)
    BY <1>3 DEF MovesOn
  <2>2. Trail' = Append(Trail, Entry(left)) /\ Entry(left) = [node |-> cur.node, result |-> ResultNow]
    BY <1>1, <2>1, TrailGrows DEF RowInv, PastInv, Exited, Entry
  <2>3. Lingers'
    <3>1. past' # <<>> /\ past'[Len(past')] = left
      BY <2>1, AppendProperties DEF IInv, TypeOK
    <3>2. ~left.judge.settled
      BY <1>3, <2>1 DEF Exited, MovesOn, JudgeSpeaks, RowInv, Stands
    <3> QED
      BY <3>1, <3>2 DEF Lingers, PredecessorSettled
  <2>4. /\ cur'.node = Target[cur.node][ResultNow] /\ Step' = "open" /\ ResultNow' = None
        /\ status' = "running" /\ Target[cur.node][ResultNow] # Return
    BY <1>1, <1>3, StepOfPhaseNext DEF MovesOn, NewWorkOrder, ResultNow, RunsOn, Wrote
  <2>5. Serial!Accept
    BY <1>1, <2>2, <2>3, <2>4 DEF Serial!Accept, Trail, Entry, Lingers, ResultNow
  <2> QED
    BY <2>5 DEF Serial!Next
<1> QED
  BY <1>2, <1>3

LEMMA EveryStepIsSerial ==
  ASSUME IInv, IInv', RowInv, RowInv', OneHandoffAtATime, RowChange
  PROVE  [Serial!Next]_(Serial!vars)
<1>1. CASE \/ RowSame \/ Noted \/ Arranged \/ Published \/ DispatchSettles
           \/ JudgeArranged \/ JudgePublished \/ ContextAsked
  BY <1>1, WorkIsSerial
<1>2. CASE Claimed
  BY <1>2, ClaimIsSerial
<1>3. CASE Rejected \/ FailedOver
  BY <1>3, RedoIsSerial
<1>4. CASE Returned
  BY <1>4, ResumeIsSerial
<1>5. CASE TakenOver
  BY <1>5, TakeoverIsSerial
<1>6. CASE PredecessorSettles
  BY <1>6, SettlingIsSerial
<1>7. CASE RunCompletes \/ MovesOn
  BY <1>7, AcceptIsSerial
<1> QED
  BY <1>1, <1>2, <1>3, <1>4, <1>5, <1>6, <1>7 DEF RowChange

LEMMA InitIsSerial ==
  ASSUME Init
  PROVE  Serial!Init
<1>1. /\ past = <<>> /\ status = "running"
      /\ cur.node = StartNode /\ cur.phase = "ready" /\ cur.claim = None
  BY DEF Init, NewWorkOrder
<1>2. Step = "open" /\ ResultNow = None /\ ~Lingers
  BY <1>1, StepOfPhase DEF ResultNow, Lingers, PredecessorSettled
<1>3. Trail = <<>>
  BY <1>1 DEF Trail
<1> QED
  BY <1>1, <1>2, <1>3 DEF Serial!Init, Trail, Entry, Lingers, ResultNow

-----------------------------------------------------------------------------
(* The theorems.                                                           *)

\* Whatever handlers overlap and whatever is retried, taken over or restarted,
\* a Run is a serial workflow: one work order at a time, dispatched when the
\* Judge of the last one has closed, claimed once, and left only when a closed
\* claim is accepted, to the Node its result leads to.
THEOREM RunsAreSerial == Spec => ImplementsSerialWorkflow
<1>1. Init => Serial!Init
  BY InitIsSerial
<1>2. /\ IInv /\ IInv' /\ RowInv /\ RowInv' /\ OneHandoffAtATime /\ [Next]_vars
      => [Serial!Next]_(Serial!vars)
  BY EveryChange, EveryStepIsSerial
<1> QED
  BY <1>1, <1>2, RowsHold, HandoffsAreSerial, PTL DEF Spec, ImplementsSerialWorkflow, Serial!Spec

\* What a step of SerialWorkflow does to the trail.
LEMMA TrailMoves ==
  ASSUME [Serial!Next]_(Serial!vars)
  PROVE  \/ /\ UNCHANGED <<cur.node, Trail>>
            /\ status' = "completed" =>
                 \/ status = "completed" /\ UNCHANGED <<Step, ResultNow>>
                 \/ /\ Step' = "exited" /\ UNCHANGED ResultNow
                    /\ Target[cur.node][ResultNow] = Return
         \/ /\ Trail' = Append(Trail, [node |-> cur.node, result |-> ResultNow])
            /\ cur'.node = Target[cur.node][ResultNow] /\ status' = "running"
<1>1. CASE UNCHANGED Serial!vars
  BY <1>1 DEF Serial!vars, Trail, Entry, ResultNow
<1>2. CASE Serial!Accept
  BY <1>2 DEF Serial!Accept, Trail, Entry, ResultNow
<1>3. CASE Serial!Dispatch \/ Serial!Close \/ Serial!Redo \/ Serial!Resume \/ Serial!Settle
  BY <1>3 DEF Serial!Dispatch, Serial!Close, Serial!Redo, Serial!Resume, Serial!Settle,
              Trail, Entry, ResultNow
<1>4. CASE \/ Serial!Suspend \/ Serial!Continue \/ Serial!Terminate
           \/ \E r \in Results : Serial!Claim(r)
  BY <1>4 DEF Serial!Suspend, Serial!Continue, Serial!Terminate, Serial!Claim,
              Trail, Entry, ResultNow
<1> QED
  BY <1>1, <1>2, <1>3, <1>4 DEF Serial!Next

\* A trail that is a path from the start Node to the current one.
Path(trail, at) ==
  /\ \A i \in DOMAIN trail :
       Target[trail[i].node][trail[i].result]
         = IF i = Len(trail) THEN at ELSE trail[i + 1].node
  /\ (IF trail = <<>> THEN at ELSE trail[1].node) = StartNode

LEMMA PathGrows ==
  ASSUME NEW trail \in Seq(Entries), NEW e \in Entries, Path(trail, e.node)
  PROVE  Path(Append(trail, e), Target[e.node][e.result])
<1> DEFINE longer == Append(trail, e)
           n      == Len(trail)
<1>1. n \in Nat /\ DOMAIN trail = 1 .. n /\ (trail = <<>> <=> n = 0)
  BY LenProperties, EmptySeq
<1>2. /\ longer \in Seq(Entries) /\ longer # <<>> /\ Len(longer) = n + 1
      /\ longer[n + 1] = e /\ \A i \in 1 .. n : longer[i] = trail[i]
  BY AppendProperties
<1>3. DOMAIN longer = 1 .. n + 1
  BY <1>2, LenProperties
<1> HIDE DEF longer
<1>4. ASSUME NEW i \in 1 .. n + 1
      PROVE  Target[longer[i].node][longer[i].result]
               = IF i = Len(longer) THEN Target[e.node][e.result] ELSE longer[i + 1].node
  <2>1. CASE i = n + 1
    BY <1>1, <1>2, <2>1
  <2>2. CASE i \in 1 .. n
    <3>1. Target[trail[i].node][trail[i].result] = IF i = n THEN e.node ELSE trail[i + 1].node
      BY <1>1, <2>2 DEF Path
    <3>2. longer[i] = trail[i] /\ i # Len(longer)
      BY <1>1, <1>2, <2>2
    <3>3. CASE i = n
      BY <1>2, <3>1, <3>2, <3>3
    <3>4. CASE i # n
      <4>1. i + 1 \in 1 .. n
        <5> HIDE DEF n
        <5>1. i \in Nat /\ n \in Nat /\ 1 <= i /\ i <= n
          BY <1>1, <2>2
        <5> QED
          BY <3>4, <5>1
      <4>2. longer[i + 1] = trail[i + 1]
        BY <1>2, <4>1
      <4>3. Target[trail[i].node][trail[i].result] = trail[i + 1].node
        BY <3>1, <3>4
      <4> QED
        BY <3>2, <4>2, <4>3
    <3> QED
      BY <3>3, <3>4
  <2> QED
    BY <1>1, <2>1, <2>2
<1>5. longer[1].node = StartNode
  BY <1>1, <1>2 DEF Path
<1>6. Path(longer, Target[e.node][e.result])
  BY <1>2, <1>3, <1>4, <1>5 DEF Path
<1> QED
  BY <1>6 DEF longer

PathInv ==
  /\ Path(Trail, cur.node)
  /\ status = "completed" => Step = "exited" /\ Target[cur.node][ResultNow] = Return

TrailTypeOK == Trail \in Seq(Entries)

LEMMA PathStep ==
  ASSUME TrailTypeOK, TrailTypeOK', PathInv, [Serial!Next]_(Serial!vars)
  PROVE  PathInv'
<1>1. CASE /\ UNCHANGED <<cur.node, Trail>>
           /\ status' = "completed" =>
                \/ status = "completed" /\ UNCHANGED <<Step, ResultNow>>
                \/ /\ Step' = "exited" /\ UNCHANGED ResultNow
                   /\ Target[cur.node][ResultNow] = Return
  BY <1>1 DEF PathInv, Path
<1>2. CASE /\ Trail' = Append(Trail, [node |-> cur.node, result |-> ResultNow])
           /\ cur'.node = Target[cur.node][ResultNow] /\ status' = "running"
  <2> DEFINE e == [node |-> cur.node, result |-> ResultNow]
  <2>1. e \in Entries
    <3>1. Len(Trail) \in Nat /\ Trail'[Len(Trail) + 1] = e /\ Len(Trail') = Len(Trail) + 1
      BY <1>2 DEF TrailTypeOK
    <3> HIDE DEF e
    <3>2. e \in Entries
      BY <3>1, ElementOfSeq DEF TrailTypeOK
    <3> QED
      BY <3>2
  <2>2. Path(Trail, e.node) /\ e.node = cur.node /\ e.result = ResultNow
    BY DEF PathInv
  <2>3. Path(Append(Trail, e), Target[e.node][e.result])
    BY <2>1, <2>2, PathGrows DEF TrailTypeOK
  <2>4. Path(Trail, cur.node)'
    BY <1>2, <2>2, <2>3 DEF Path
  <2> QED
    BY <1>2, <2>4 DEF PathInv
<1> QED
  BY <1>1, <1>2, TrailMoves

\* The work orders of a Run, whatever happened in between, are a path of the
\* frozen definition that begins at its start Node; a Run completes only at
\* the end of one.
THEOREM HistoriesArePaths == Spec => []HistoryIsAPath
<1>1. Init => PathInv
  BY InitIsSerial DEF Serial!Init, PathInv, Path, Trail, Entry, ResultNow
<1>2. IInv /\ RowInv => TrailTypeOK
  BY TrailType DEF RowInv, PastInv, TrailTypeOK
<1>3. TrailTypeOK /\ TrailTypeOK' /\ PathInv /\ [Serial!Next]_(Serial!vars) => PathInv'
  BY PathStep
<1>4. PathInv => HistoryIsAPath
  <2>1. /\ \A i \in DOMAIN Trail :
             Target[Trail[i].node][Trail[i].result]
               = IF i = Len(Trail) THEN cur.node ELSE Trail[i + 1].node
        /\ Trail # <<>> => Trail[1].node = StartNode
        /\ status = "completed" => Step = "exited" /\ Target[cur.node][ResultNow] = Return
        => HistoryIsAPath
    BY DEF HistoryIsAPath, Serial!TrailIsAPath, Serial!Follows, Trail, Entry, ResultNow
  <2> QED
    BY <2>1 DEF PathInv, Path
<1> QED
  BY <1>1, <1>2, <1>3, <1>4, RowsHold, RunsAreSerial, PTL
  DEF Spec, ImplementsSerialWorkflow, Serial!Spec
=============================================================================
