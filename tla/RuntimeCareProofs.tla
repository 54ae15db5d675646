------------------------- MODULE RuntimeCareProofs -------------------------
(***************************************************************************)
(* Theorems about who is responsible for a running Run (NeverAbandoned),    *)
(* and about the rows that the store accepts (StoreAccepts).               *)
(*                                                                         *)
(* The engine has no timer of its own: a Run that waits must be waited for  *)
(* by a suspended handler that will still find its version current, or by  *)
(* a live turn whose end will be recognised.  Serves and Works say which    *)
(* handler and which turn can answer for the row as it stands; the proof    *)
(* follows each of them until it has handed over to the next one.           *)
(***************************************************************************)
EXTENDS RuntimeSessionProofs

-----------------------------------------------------------------------------
(* What a running Run waits for, by its row.                               *)

Predecessor == past[Len(past)]

Starting      == cur.phase = "ready" /\ PredecessorSettled
HandingOver   == cur.phase = "ready" /\ ~PredecessorSettled
Dispatching   == cur.phase = "working" /\ ~cur.dispatch.pub
Underway    == cur.phase = "working" /\ cur.dispatch.pub
Closing       == cur.phase = "checking" /\ ~cur.dispatch.settled
UnderJudgment == cur.phase = "checking" /\ cur.judge # None /\ cur.judge.pub
Seating       == cur.phase = "checking" /\ cur.dispatch.settled /\ ~UnderJudgment

\* drive() will send to the Judge in the row: the session that a resume wants
\* continued is the Judge's own.
Continuable ==
  cur.judge # None /\ cur.resolution # None /\ cur.resolution.mode = "followup"
    => cur.resolution.sess = cur.judge.sess

\* The end of a turn for message m, or a later one, in session s is what the
\* Run waits for; and so is a failure of the activation for m itself.
Expects(s, m) ==
  \/ HandingOver /\ Predecessor.judge.sess = s /\ Predecessor.judge.id <= m
  \/ (Underway \/ Closing) /\ cur.dispatch.sess = s /\ cur.dispatch.id <= m
  \/ UnderJudgment /\ cur.judge.sess = s /\ cur.judge.id <= m
MayFail(s, m) ==
  \/ Underway /\ cur.dispatch.sess = s /\ cur.dispatch.id = m
  \/ UnderJudgment /\ cur.judge.sess = s /\ cur.judge.id = m

\* Handler c answers for the Run; and so does turn h.
ServesNow(c) ==
  \/ c.op = "arrange" /\ Starting
  \/ c.op = "transferProbe" /\ HandingOver
  \/ c.op \in Work /\ Dispatching
  \/ c.op = "actorProbe" /\ (Underway \/ Closing)
  \/ c.op = "cwd" /\ Seating /\ Continuable
  \/ c.op \in Judging /\ Seating
  \/ c.op = "judgeProbe" /\ UnderJudgment
Serves(c) ==
  \/ c.op = "drive" /\ (Starting \/ (Seating /\ Continuable))
  \/ c.ver = version /\ ServesNow(c)
  \/ c.op = "turnEnd" /\ Expects(c.sess, c.id)
  \/ c.op = "activationEnd" /\ MayFail(c.sess, c.id)
Works(h) == h.st # "idle" /\ Expects(h.sess, h.msg)

SomeoneServes == (\E c \in calls : Serves(c)) \/ (\E h \in host : Works(h))
Served == status = "running" => SomeoneServes

-----------------------------------------------------------------------------
(* The inductive invariant.                                                *)

\* No restart can be followed by a node_resume of the Judge it interrupted.
OneRecovery == "restart" \notin Commands \/ "resumeJudge" \notin Commands

\* The Host knows a session by its latest message.
OneTurn == \A g, h \in host : g.sess = h.sess => g = h

\* The handler of a turn's end is about a turn that the session has been at.
AtTurnEnd == {"turnEnd", "actorProbe", "judgeProbe"}
Trailing ==
  \A c \in calls : c.op \in AtTurnEnd => \E h \in host : h.sess = c.sess /\ c.id <= h.msg

\* A current probe of a Judge's session is about the turn of the Judge in the row.
Probed == \A c \in calls : c.op = "judgeProbe" /\ c.ver = version => Owes(cur.judge, c)

\* Nothing later than the dispatch's own message is sent to its session.
LatestWork ==
  cur.dispatch # None =>
    /\ \A h \in host :
         h.sess = cur.dispatch.id \/ h.sess = cur.dispatch.sess => h.msg <= cur.dispatch.id
    /\ \A c \in calls : c.op \in Work => c.id <= cur.dispatch.id

\* And nothing later than the verdict's Judge to its session, until it closes.
LatestHandover ==
  past # <<>> /\ ~PredecessorSettled =>
    /\ \A h \in host : h.sess = Predecessor.judge.sess => h.msg <= Predecessor.judge.id
    /\ \A c \in calls :
         c.op \in Judging /\ c.sess = Predecessor.judge.sess => c.id <= Predecessor.judge.id

\* A message that the Host has accepted is at work until it is published, or
\* its activation has failed and the failure is kept for then.
Busy(s, m) == \E h \in host : h.sess = s /\ h.st # "idle" /\ m <= h.msg
Failing(s, m) == \E c \in calls : c.op = "activationEnd" /\ c.sess = s /\ c.id = m
Publishing == {"publish", "judgePublish"}
Accepting ==
  \A c \in calls :
    c.op \in Publishing /\ c.ver = version => Busy(c.sess, c.id) \/ Failing(c.sess, c.id)

\* The turn that waits for the result of its ACCEPT goes on.
Submitting ==
  \A c \in calls : c.op = "accept" /\ c.ver = version =>
    /\ c.sess = cur.judge.sess /\ RoleNow \in NodeScoped
    /\ \E h \in host : h.sess = c.sess /\ h.st = "busy" /\ cur.judge.id <= h.msg

\* A running Run has no verdict on its present claim.
Unjudged == status = "running" => ~JudgmentIsCurrent(cur)

\* A recovery mode that names a session names that of the Judge that asked.
Asked ==
  OneRecovery /\ cur.resolution # None /\ cur.resolution.mode = "followup" =>
    /\ AskedBy(cur.prevJudge, cur)
    /\ cur.judgment.claim = cur.claim.id
    /\ cur.resolution.sess = cur.prevJudge.sess
Unrestarted ==
  "restart" \notin Commands /\ status \in {"running", "blocked"} => ~cur.restart

CareInv ==
  /\ OneTurn /\ Trailing /\ Probed /\ LatestWork /\ LatestHandover /\ Accepting /\ Submitting
  /\ Unjudged /\ Asked /\ Unrestarted /\ Served

-----------------------------------------------------------------------------
(* The Host's side of a step.                                              *)

HostStep ==
  \/ UNCHANGED host
  \/ \E S : Quiesce(S)
  \/ \E h \in host : h.st # "idle" /\ \E st : SetTurn(h, st)
  \/ \E c \in calls : Sent(c)

LEMMA EveryHostStep ==
  ASSUME IInv, [Next]_vars
  PROVE  HostStep
<1>1. ASSUME NEW c \in calls, Continues(c)
      PROVE  HostStep
  <2>1. CASE Sent(c)
    BY <2>1 DEF HostStep
  <2>2. CASE ReleasedAndAccepted(c)
    BY <2>2 DEF ReleasedAndAccepted, HostStep
  <2>3. CASE ~(Sent(c) \/ ReleasedAndAccepted(c))
    <3>1. UNCHANGED host
      BY <1>1, <2>3 DEF Continues, DriveStarts, ArrangeActor, ProbeIdle, Compacted, PublishActor,
         ArrangeJudge, PublishJudge, DriveFaults, TurnEndReads, ProbeUnsafe, ProbeWaiting,
         SettlesStale, TransferSettles, ActorSettles, ActorSettlesNothing, ActorFailsOver,
         ActorEndsWithoutClaim, JudgeRetries, JudgeFailsOver, RejudgeSends,
         JudgeEndsWithoutVerdict, ActivationSettles
    <3> QED
      BY <3>1 DEF HostStep
  <2> QED
    BY <2>1, <2>2, <2>3
<1>2. ASSUME NEW h \in host, Submits(h)
      PROVE  HostStep
  <2>1. CASE TurnEnds(h) \/ TurnWakes(h) \/ ActivationFails(h)
    <3>1. \E st : SetTurn(h, st) /\ h.st # "idle"
      BY <2>1 DEF TurnEnds, TurnWakes, ActivationFails, Working
    <3> QED
      BY <3>1 DEF HostStep
  <2>2. CASE ~(TurnEnds(h) \/ TurnWakes(h) \/ ActivationFails(h))
    <3>1. UNCHANGED host
      BY <1>2, <2>2 DEF Submits, NodeClaim, JudgeRejects, JudgeNeedsContext, JudgeAccepts,
         ActorBlocks
    <3> QED
      BY <3>1 DEF HostStep
  <2> QED
    BY <2>1, <2>2
<1>3. CASE Commanded
  <2>1. CASE Restarts
    <3> DEFINE S == {h.sess : h \in host}
    <3>1. host' = {[h EXCEPT !.st = "idle"] : h \in host}
      BY <2>1 DEF Restarts
    <3>2. Quiesce(S)
      BY <3>1 DEF Quiesce
    <3> QED
      BY <3>2 DEF HostStep
  <2>2. CASE ~Restarts
    <3>1. UNCHANGED host \/ \E S : Quiesce(S)
      BY <1>3, <2>2 DEF Commanded, ManagerBlocks, ResumesActor, ResumesJudge, RespawnsJudge,
         RespawnFaults, SetsRoleModel, Resets
    <3> QED
      BY <3>1 DEF HostStep
  <2> QED
    BY <2>1, <2>2
<1>4. CASE UNCHANGED vars
  BY <1>4 DEF vars, HostStep
<1> QED
  BY <1>1, <1>2, <1>3, <1>4 DEF Next

\* A delivery replaces what the Host knew of its receiver.
LEMMA Replaced ==
  ASSUME IInv, OneTurn, NEW c \in calls, Sent(c)
  PROVE  \E t : /\ host' = {h \in host : h.sess # Receiver(c)} \cup {t}
                /\ t.sess = Receiver(c) /\ t.st = "busy" /\ c.id <= t.msg
                /\ \A h \in host : h.sess = Receiver(c) => h.msg <= t.msg
<1> DEFINE s      == Receiver(c)
           before == {h \in host : h.sess = s /\ h.msg > c.id}
           last   == IF before = {} THEN c.id ELSE (CHOOSE h \in before : TRUE).msg
           turn   == [sess |-> s, msg |-> last, st |-> "busy", late |-> ~StillCurrent(c)]
<1>1. host' = {h \in host : h.sess # s} \cup {turn}
  BY DEF Sent, Deliver, Receiver
<1>2. turn.sess = s /\ turn.msg = last /\ turn.st = "busy"
  OBVIOUS
<1>3. c.id \in Nat /\ \A h \in host : h.msg \in Nat
  BY CallFields, TurnFields DEF IInv
<1>4. c.id <= last /\ \A h \in host : h.sess = s => h.msg <= last
  <2>1. CASE before = {}
    <3>1. last = c.id
      BY <2>1
    <3>2. \A h \in host : h.sess = s => ~(h.msg > c.id)
      BY <2>1
    <3> HIDE DEF last, before
    <3> QED
      BY <1>3, <3>1, <3>2
  <2>2. CASE before # {}
    <3>1. (CHOOSE h \in before : TRUE) \in before
      BY <2>2
    <3>2. PICK g \in before : last = g.msg
      BY <2>2, <3>1
    <3>3. g \in host /\ g.sess = s /\ g.msg > c.id
      BY <3>2
    <3>4. \A h \in host : h.sess = s => h = g
      BY <3>3 DEF OneTurn
    <3> HIDE DEF last, before
    <3> QED
      BY <1>3, <3>2, <3>3, <3>4
  <2> QED
    BY <2>1, <2>2
<1> HIDE DEF last, turn, before
<1> QED
  BY <1>1, <1>2, <1>4

LEMMA OneTurnStep ==
  ASSUME IInv, OneTurn, HostStep
  PROVE  OneTurn'
<1>1. host \subseteq Turns
  BY DEF IInv, TypeOK
<1>2. CASE UNCHANGED host
  BY <1>2 DEF OneTurn
<1>3. CASE \E S : Quiesce(S)
  <2>1. PICK S : host' = {IF h.sess \in S THEN [h EXCEPT !.st = "idle"] ELSE h : h \in host}
    BY <1>3 DEF Quiesce
  <2> DEFINE k(h) == IF h.sess \in S THEN [h EXCEPT !.st = "idle"] ELSE h
  <2>2. \A h \in host : k(h).sess = h.sess
    BY <1>1 DEF Turns
  <2>3. host' = {k(h) : h \in host}
    BY <2>1
  <2> HIDE DEF k
  <2>4. ASSUME NEW g \in host', NEW h \in host', g.sess = h.sess
        PROVE  g = h
    <3>1. PICK g1 \in host : g = k(g1)
      BY <2>3
    <3>2. PICK h1 \in host : h = k(h1)
      BY <2>3
    <3>3. g1 = h1
      BY <2>2, <2>4, <3>1, <3>2 DEF OneTurn
    <3> QED
      BY <3>1, <3>2, <3>3
  <2> QED
    BY <2>4 DEF OneTurn
<1>4. CASE \E h \in host : h.st # "idle" /\ \E st : SetTurn(h, st)
  <2>1. PICK h \in host : \E st : SetTurn(h, st)
    BY <1>4
  <2>2. PICK st : host' = (host \ {h}) \cup {[h EXCEPT !.st = st]}
    BY <2>1 DEF SetTurn
  <2>3. [h EXCEPT !.st = st].sess = h.sess
    BY <1>1, <2>1 DEF Turns
  <2> QED
    BY <2>1, <2>2, <2>3 DEF OneTurn
<1>5. CASE \E c \in calls : Sent(c)
  <2>1. PICK c \in calls : Sent(c)
    BY <1>5
  <2>2. PICK t : /\ host' = {h \in host : h.sess # Receiver(c)} \cup {t}
                 /\ t.sess = Receiver(c)
    BY <2>1, Replaced
  <2> QED
    BY <2>2 DEF OneTurn
<1> QED
  BY <1>2, <1>3, <1>4, <1>5 DEF HostStep

\* A session that the Host knows stays known, and its latest message is never
\* replaced by an earlier one.
LEMMA TurnLasts ==
  ASSUME IInv, OneTurn, HostStep, NEW h \in host
  PROVE  \E g \in host' : g.sess = h.sess /\ h.msg <= g.msg
<1>1. h \in Turns /\ h.msg \in Nat /\ host \subseteq Turns
  BY TurnFields DEF IInv, TypeOK
<1>2. CASE UNCHANGED host
  BY <1>1, <1>2
<1>3. CASE \E S : Quiesce(S)
  <2>1. PICK S : host' = {IF g.sess \in S THEN [g EXCEPT !.st = "idle"] ELSE g : g \in host}
    BY <1>3 DEF Quiesce
  <2> DEFINE k == IF h.sess \in S THEN [h EXCEPT !.st = "idle"] ELSE h
  <2>2. k.sess = h.sess /\ k.msg = h.msg
    BY <1>1 DEF Turns
  <2>3. k \in host'
    BY <2>1
  <2> HIDE DEF k
  <2> QED
    BY <1>1, <2>2, <2>3
<1>4. CASE \E g \in host : g.st # "idle" /\ \E st : SetTurn(g, st)
  <2>1. PICK g \in host : \E st : SetTurn(g, st)
    BY <1>4
  <2>2. PICK st : host' = (host \ {g}) \cup {[g EXCEPT !.st = st]}
    BY <2>1 DEF SetTurn
  <2> DEFINE k == [g EXCEPT !.st = st]
  <2>3. k.sess = g.sess /\ k.msg = g.msg /\ k \in host'
    BY <1>1, <2>1, <2>2 DEF Turns
  <2> HIDE DEF k
  <2>4. h = g \/ h \in host'
    BY <2>2
  <2> QED
    BY <1>1, <2>3, <2>4
<1>5. CASE \E c \in calls : Sent(c)
  <2>1. PICK c \in calls : Sent(c)
    BY <1>5
  <2>2. PICK t : /\ host' = {g \in host : g.sess # Receiver(c)} \cup {t}
                 /\ t.sess = Receiver(c)
                 /\ \A g \in host : g.sess = Receiver(c) => g.msg <= t.msg
    BY <2>1, Replaced
  <2> QED
    BY <1>1, <2>2
<1> QED
  BY <1>2, <1>3, <1>4, <1>5 DEF HostStep

\* A turn is at work until it ends, its activation fails, or its session is
\* drained.
LEMMA WorkLasts ==
  ASSUME IInv, OneTurn, NEW h \in host, h.st # "idle",
         UNCHANGED host \/ (\E g \in host : TurnWakes(g)) \/ (\E c \in calls : Sent(c))
  PROVE  \E g \in host' : g.sess = h.sess /\ g.st # "idle" /\ h.msg <= g.msg
                          /\ (h.st = "busy" => g.st = "busy")
<1>1. h \in Turns /\ h.msg \in Nat /\ host \subseteq Turns
  BY TurnFields DEF IInv, TypeOK
<1>2. CASE UNCHANGED host
  BY <1>1, <1>2
<1>3. CASE \E g \in host : TurnWakes(g)
  <2>1. PICK g \in host : TurnWakes(g)
    BY <1>3
  <2>2. host' = (host \ {g}) \cup {[g EXCEPT !.st = "busy"]}
    BY <2>1 DEF TurnWakes, SetTurn
  <2> DEFINE k == [g EXCEPT !.st = "busy"]
  <2>3. k.sess = g.sess /\ k.msg = g.msg /\ k.st = "busy" /\ k \in host'
    BY <1>1, <2>1, <2>2 DEF Turns
  <2> HIDE DEF k
  <2>4. h = g \/ h \in host'
    BY <2>2
  <2> QED
    BY <1>1, <2>3, <2>4
<1>4. CASE \E c \in calls : Sent(c)
  <2>1. PICK c \in calls : Sent(c)
    BY <1>4
  <2>2. PICK t : /\ host' = {g \in host : g.sess # Receiver(c)} \cup {t}
                 /\ t.sess = Receiver(c) /\ t.st = "busy"
                 /\ \A g \in host : g.sess = Receiver(c) => g.msg <= t.msg
    BY <2>1, Replaced
  <2> QED
    BY <1>1, <2>2
<1> QED
  BY <1>2, <1>3, <1>4

-----------------------------------------------------------------------------
(* What the row says.                                                      *)

LEMMA UnrestartedStep ==
  ASSUME Unrestarted, RowChange
  PROVE  Unrestarted'
<1>1. CASE RowSame \/ PredecessorSettles
  BY <1>1 DEF RowSame, PredecessorSettles, RunsOn, Wrote, Unrestarted
<1>2. CASE Noted \/ Arranged \/ Published \/ Claimed \/ DispatchSettles \/ JudgeArranged
           \/ JudgePublished \/ Rejected \/ FailedOver \/ ContextAsked
  <2>1. Unmarked /\ status \in {"running", "blocked"}
    BY <1>2 DEF Noted, Arranged, Published, Claimed, DispatchSettles, JudgeArranged,
       JudgePublished, Rejected, FailedOver, ContextAsked, Keeps, RunsOn, Wrote
  <2> QED
    BY <2>1 DEF Unmarked, Unrestarted
<1>3. CASE RunCompletes
  BY <1>3 DEF RunCompletes, Wrote, Unrestarted
<1>4. CASE MovesOn
  BY <1>4 DEF MovesOn, NewWorkOrder, Unrestarted
<1>5. CASE Returned \/ TakenOver
  BY <1>5 DEF Returned, TakenOver, Unrestarted
<1> QED
  BY <1>1, <1>2, <1>3, <1>4, <1>5 DEF RowChange

LEMMA UnjudgedStep ==
  ASSUME IInv, RowInv, Unjudged, RowChange
  PROVE  Unjudged'
<1>1. cur \in WorkOrders /\ version \in Nat /\ cur.iv \in Nat
  BY FieldTypes DEF IInv, TypeOK
<1>2. CASE RowSame \/ PredecessorSettles
  BY <1>2 DEF RowSame, PredecessorSettles, RunsOn, Wrote, Unjudged, JudgmentIsCurrent
<1>3. CASE \/ Noted \/ Arranged \/ Published \/ DispatchSettles \/ JudgeArranged
           \/ JudgePublished
  <2>1. /\ cur'.claim = cur.claim /\ cur'.judgment = cur.judgment /\ cur'.iv = cur.iv
        /\ status' = "running" => status = "running"
    BY <1>3 DEF Noted, Arranged, Published, DispatchSettles, JudgeArranged, JudgePublished,
       KeepsVerdict, KeepsWork, RunsOn, Wrote
  <2> QED
    BY <2>1 DEF Unjudged, JudgmentIsCurrent
<1>4. CASE Claimed
  <2>1. cur'.judgment = cur.judgment /\ cur'.claim.id = version + 1
    BY <1>4 DEF Claimed, KeepsVerdict
  <2>2. cur.judgment # None => cur.judgment.claim <= version /\ cur.judgment.claim \in Nat
    BY <1>1, Numbers DEF RowInv, Dated
  <2> QED
    BY <1>1, <2>1, <2>2 DEF Unjudged, JudgmentIsCurrent
<1>5. CASE Rejected \/ Returned
  BY <1>5 DEF Rejected, Returned, Unjudged, JudgmentIsCurrent
<1>6. CASE ContextAsked \/ RunCompletes
  BY <1>6 DEF ContextAsked, RunCompletes, Wrote, Unjudged
<1>7. CASE MovesOn
  BY <1>7 DEF MovesOn, NewWorkOrder, Unjudged, JudgmentIsCurrent
<1>8. CASE FailedOver
  BY <1>8 DEF FailedOver, RowInv, Stands, Unjudged, JudgmentIsCurrent
<1>9. CASE TakenOver
  <2>1. cur'.judgment = cur.judgment /\ cur'.iv = cur.iv + 1
    BY <1>9 DEF TakenOver
  <2>2. cur.judgment # None => cur.judgment.iv <= cur.iv /\ cur.judgment.iv \in Nat
    <3>1. JudgmentIsCurrent(cur) => cur.judgment.iv = cur.iv
      BY DEF JudgmentIsCurrent
    <3>2. cur.judgment # None /\ ~JudgmentIsCurrent(cur) => cur.judgment.iv < cur.iv
      BY DEF RowInv, ValidWorkOrder
    <3> QED
      BY <1>1, <3>1, <3>2, Numbers
  <2> QED
    BY <1>1, <2>1, <2>2 DEF Unjudged, JudgmentIsCurrent
<1> QED
  BY <1>2, <1>3, <1>4, <1>5, <1>6, <1>7, <1>8, <1>9 DEF RowChange

\* Only a resolution for the Judge has a recovery mode, and it has a claim.
LEMMA ModeIsOfJudge ==
  ASSUME IInv, RowInv, cur.resolution # None, cur.resolution.mode = "followup"
  PROVE  cur.resolution.target = "judge" /\ cur.claim # None
BY FieldTypes DEF IInv, TypeOK, RowInv, ValidWorkOrder, Resolutions

LEMMA AskedStep ==
  ASSUME IInv, RowInv, Settlement, Unrestarted, Asked, RowChange
  PROVE  Asked'
<1>1. cur \in WorkOrders
  BY DEF IInv, TypeOK
<1>2. CASE RowSame \/ PredecessorSettles
  BY <1>2 DEF RowSame, PredecessorSettles, RunsOn, Wrote, Asked, AskedBy
<1>3. CASE \/ Noted \/ Arranged \/ Published \/ DispatchSettles \/ JudgeArranged
           \/ JudgePublished
  <2>1. cur'.claim = cur.claim /\ KeepsVerdict
    BY <1>3 DEF Noted, Arranged, Published, DispatchSettles, JudgeArranged, JudgePublished,
       KeepsWork
  <2> QED
    BY <2>1 DEF KeepsVerdict, Asked, AskedBy
<1>4. CASE Claimed
  <2>1. cur'.resolution = cur.resolution /\ cur.claim = None
    BY <1>4 DEF Claimed, KeepsVerdict
  <2> QED
    BY <2>1, ModeIsOfJudge DEF Asked
<1>5. CASE Rejected \/ FailedOver \/ Returned
  BY <1>5 DEF Rejected, FailedOver, Returned, Asked
<1>6. CASE ContextAsked \/ RunCompletes
  <2>1. cur'.resolution = ModeSpent(cur.resolution)
    BY <1>6 DEF ContextAsked, RunCompletes, Exited
  <2>2. cur'.resolution # None => cur'.resolution.mode # "followup"
    <3>1. CASE cur.resolution = None
      BY <2>1, <3>1 DEF ModeSpent
    <3>2. CASE cur.resolution # None /\ cur.resolution.target = "judge"
      BY <1>1, <2>1, <3>2, FieldTypes DEF ModeSpent, Resolutions
    <3>3. CASE cur.resolution # None /\ cur.resolution.target # "judge"
      BY <2>1, <3>3, ModeIsOfJudge DEF ModeSpent
    <3> QED
      BY <3>1, <3>2, <3>3
  <2> QED
    BY <2>2 DEF Asked
<1>7. CASE MovesOn
  BY <1>7 DEF MovesOn, NewWorkOrder, Asked
<1>8. CASE TakenOver
  <2>1. SUFFICES ASSUME OneRecovery, cur'.resolution.mode = "followup"
                 PROVE  Asked'
    BY DEF Asked
  <2>2. Continued(cur'.resolution.sess)
    BY <1>8, <2>1 DEF TakenOver
  <2>3. "restart" \notin Commands
    BY <2>1, <2>2 DEF Continued, OneRecovery
  <2>4. ~cur.restart
    BY <1>8, <2>3 DEF TakenOver, Wrote, Unrestarted
  <2>5. /\ JudgmentIsCurrent(cur) /\ AskedBy(cur.judge, cur)
        /\ cur'.resolution.sess = cur.judge.sess
    BY <2>2, <2>4 DEF Continued
  <2>6. cur'.prevJudge = cur.judge /\ cur'.judgment = cur.judgment /\ cur'.claim = cur.claim
    BY <1>8, <2>5 DEF TakenOver
  <2> QED
    BY <2>5, <2>6 DEF Asked, AskedBy, JudgmentIsCurrent
<1> QED
  BY <1>2, <1>3, <1>4, <1>5, <1>6, <1>7, <1>8 DEF RowChange

\* A replacement of the Judge is accepted by the store: the recovery mode of a
\* resume that is still recorded does not name the session that is given up.
LEMMA RetryIsValid ==
  ASSUME IInv, RowInv, Unjudged, Asked, ~ContinuedAfterRestart, status = "running",
         cur.judge # None, NEW b
  PROVE  ValidWorkOrder(WithNewJudge(b))
<1> DEFINE j == NewJudge(cur, version + 1, version + 1, cur.iv)
           e == [cur EXCEPT !.retried = b, !.judge = j]
<1>1. cur \in WorkOrders /\ cur.claim # None /\ ~JudgmentIsCurrent(cur)
  BY DEF IInv, TypeOK, Materials, Unjudged
<1>2. j # None /\ j.claim = cur.claim.id /\ j.iv = cur.iv
  <2>1. version + 1 \in Nat /\ cur.iv \in Nat
    BY <1>1, FieldTypes DEF IInv, TypeOK
  <2>2. j # None
    BY <1>1, <2>1, NewJudgeType DEF Sessions
  <2> QED
    BY <2>2 DEF NewJudge
<1> HIDE DEF j
<1>3. /\ e.phase = cur.phase /\ e.iv = cur.iv /\ e.dispatch = cur.dispatch
      /\ e.claim = cur.claim /\ e.judge = j /\ e.judgment = cur.judgment
      /\ e.prevClaim = cur.prevClaim /\ e.prevJudge = cur.prevJudge
      /\ e.resolution = cur.resolution
  BY <1>1 DEF WorkOrders
<1> HIDE DEF e
<1>4. ~JudgmentIsCurrent(e)
  BY <1>1, <1>3 DEF JudgmentIsCurrent
<1>5. ValidWorkOrder(cur)
  BY DEF RowInv
<1>6. cur.resolution # None /\ cur.resolution.mode = "followup" =>
        /\ AskedBy(e.prevJudge, e) /\ e.judgment.claim = e.claim.id
        /\ cur.resolution.sess = e.prevJudge.sess
  <2>1. CASE OneRecovery
    BY <1>3, <2>1 DEF Asked, AskedBy
  <2>2. CASE ~OneRecovery
    BY <1>3, <1>5, <2>2 DEF OneRecovery, ContinuedAfterRestart, ValidWorkOrder, AskedBy
  <2> QED
    BY <2>1, <2>2
<1>7. ValidWorkOrder(e)
  BY <1>1, <1>2, <1>3, <1>4, <1>6, <1>5 DEF ValidWorkOrder
<1> QED
  BY <1>7 DEF e, j, WithNewJudge

-----------------------------------------------------------------------------
(* How the work of a turn ends, and which handlers a turn leaves behind.    *)

Lasts(h) ==
  \E g \in host' :
    /\ g.sess = h.sess /\ g.st # "idle" /\ h.msg <= g.msg
    /\ h.st = "busy" => g.st = "busy"

LEMMA WorkEnds ==
  ASSUME IInv, OneTurn, [Next]_vars, NEW h \in host, h.st # "idle"
  PROVE  \/ Lasts(h) \/ TurnEnds(h) \/ ActivationFails(h)
         \/ version' = version + 1 \/ Restarts
<1>1. CASE UNCHANGED host \/ (\E g \in host : TurnWakes(g)) \/ (\E c \in calls : Sent(c))
  BY <1>1, WorkLasts DEF Lasts
<1>2. CASE \E g \in host : TurnEnds(g) \/ ActivationFails(g)
  <2>1. PICK g \in host : TurnEnds(g) \/ ActivationFails(g)
    BY <1>2
  <2>2. CASE g = h
    BY <2>1, <2>2
  <2>3. CASE g # h
    <3>1. h \in host'
      BY <2>1, <2>3 DEF TurnEnds, ActivationFails, SetTurn
    <3>2. h.msg \in Nat
      BY TurnFields DEF IInv
    <3> QED
      BY <3>1, <3>2 DEF Lasts
  <2> QED
    BY <2>2, <2>3
<1>3. ASSUME NEW c \in calls, Continues(c), ~Sent(c)
      PROVE  UNCHANGED host \/ version' = version + 1
  <2>1. CASE ReleasedAndAccepted(c)
    BY <2>1, AdvanceMapping DEF ReleasedAndAccepted, Advance, Put
  <2>2. CASE ~ReleasedAndAccepted(c)
    BY <1>3, <2>2 DEF Continues, DriveStarts, ArrangeActor, ProbeIdle, Compacted, PublishActor,
       ArrangeJudge, PublishJudge, DriveFaults, TurnEndReads, ProbeUnsafe, ProbeWaiting,
       SettlesStale, TransferSettles, ActorSettles, ActorSettlesNothing, ActorFailsOver,
       ActorEndsWithoutClaim, JudgeRetries, JudgeFailsOver, RejudgeSends,
       JudgeEndsWithoutVerdict, ActivationSettles
  <2> QED
    BY <2>1, <2>2
<1>4. ASSUME NEW g \in host, Submits(g), ~(TurnEnds(g) \/ TurnWakes(g) \/ ActivationFails(g))
      PROVE  UNCHANGED host
  BY <1>4 DEF Submits, NodeClaim, JudgeRejects, JudgeNeedsContext, JudgeAccepts, ActorBlocks
<1>5. ASSUME Commanded, ~Restarts
      PROVE  UNCHANGED host \/ version' = version + 1
  BY <1>5 DEF Commanded, ManagerBlocks, ResumesActor, ResumesJudge, RespawnsJudge,
     RespawnFaults, SetsRoleModel, Resets, Put
<1>6. CASE UNCHANGED vars
  BY <1>1, <1>6 DEF vars
<1> QED
  BY <1>1, <1>2, <1>3, <1>4, <1>5, <1>6 DEF Next

\* Where a handler of a turn's end or of an ACCEPT comes from.
LEMMA Births ==
  ASSUME IInv, IInv', RowInv, [Next]_vars, NEW d \in calls', d \notin calls
  PROVE  /\ d.op = "turnEnd" => \E h \in host : TurnEnds(h) /\ d.sess = h.sess /\ d.id = h.msg
         /\ d.op = "accept" => \E h \in host : JudgeAccepts(h) /\ Releases /\ d.sess = h.sess
         /\ d.op \in Probes => \E c \in calls : TurnEndGoes(c, d)
         /\ d.op \in Publishing => \E c \in calls : SentGoes(c, d)
<1>1. ASSUME NEW c \in calls, Continues(c)
      PROVE  d.op \notin {"turnEnd", "accept"}
  <2>1. c \in Calls /\ version \in Nat /\ cur \in WorkOrders
    BY CallFields DEF IInv, TypeOK
  <2>2. CASE ArrangeActor(c) \/ Compacted(c)
    BY <2>2 DEF ArrangeActor, Compacted, Resuspend, Drop, CallFor
  <2>3. CASE ProbeIdle(c) \/ RejudgeSends(c) \/ Sent(c)
    <3> DEFINE Ops == {"send", "compact", "publish", "judgeSend", "judgePublish"}
    <3>1. \E s : \E op \in Ops : d = [[c EXCEPT !.sess = s] EXCEPT !.op = op]
      <4>1. c = [c EXCEPT !.sess = c.sess]
        BY <2>1 DEF Calls
      <4>2. CASE ProbeIdle(c)
        <5>1. \E op \in Ops : d = [c EXCEPT !.op = op]
          BY <4>2 DEF ProbeIdle, Resuspend, Drop
        <5> QED
          BY <4>1, <5>1
      <4>3. CASE RejudgeSends(c)
        BY <4>1, <4>3 DEF RejudgeSends, Resuspend
      <4>4. CASE Sent(c)
        BY <4>4 DEF Sent, Resuspend
      <4> QED
        BY <2>3, <4>2, <4>3, <4>4
    <3>2. PICK s : \E op \in Ops : d = [[c EXCEPT !.sess = s] EXCEPT !.op = op]
      BY <3>1
    <3>3. PICK op \in Ops : d = [[c EXCEPT !.sess = s] EXCEPT !.op = op]
      BY <3>2
    <3>4. d.op = op
      BY <2>1, <3>3 DEF Calls
    <3> QED
      BY <3>3, <3>4
  <2>10. CASE ArrangeJudge(c)
    <3>1. CASE cur.judge = None
      BY <2>10, <3>1 DEF ArrangeJudge, Resuspend, Drop, CallFor
    <3>2. CASE cur.judge # None
      <4>1. d = [c EXCEPT !.op = "judgeSend", !.sess = cur.judge.sess, !.id = cur.judge.id]
        BY <2>10, <3>2 DEF ArrangeJudge, Resuspend, Drop
      <4>2. d.op = "judgeSend"
        BY <2>1, <4>1 DEF Calls
      <4> QED
        BY <4>2
    <3> QED
      BY <3>1, <3>2
  <2>4. CASE JudgeRetries(c) \/ JudgeFailsOver(c)
    <3>1. \E b, st : Rejudge(c, b, st)
      BY <2>4 DEF JudgeRetries, JudgeFailsOver
    <3>2. calls' \subseteq calls \cup
            {CallFor("rejudge", version + 1, version + 1, version + 1)}
      BY <3>1 DEF Rejudge, Resuspend, Drop
    <3> QED
      BY <2>1, <3>2 DEF CallFor
  <2>5. CASE TurnEndReads(c)
    <3>1. \E op \in Probes : calls' \subseteq calls \cup {[c EXCEPT !.op = op, !.ver = version]}
      BY <2>5 DEF TurnEndReads, Resuspend, Probes
    <3>2. PICK op \in Probes : calls' \subseteq calls \cup {[c EXCEPT !.op = op, !.ver = version]}
      BY <3>1
    <3>3. d = [c EXCEPT !.op = op, !.ver = version]
      BY <3>2
    <3>4. d.op = op
      BY <2>1, <3>3 DEF Calls
    <3> QED
      BY <3>2, <3>4 DEF Probes
  <2>6. CASE DriveStarts(c)
    <3>1. \E b \in DriveReads(cur, version) : d = [b EXCEPT !.from = c.ver]
      BY <2>6 DEF DriveStarts, Resuspend
    <3>2. PICK b \in DriveReads(cur, version) : d = [b EXCEPT !.from = c.ver]
      BY <3>1
    <3>3. b \in Calls /\ b.op \in {"arrange", "cwd"}
      BY <2>1, <3>2, DriveReadsType
    <3> QED
      BY <3>2, <3>3 DEF Calls
  <2>7. CASE TransferSettles(c) \/ ActorSettles(c)
    <3>1. \E e : d \in DriveReads(e, version + 1)
      BY <2>7 DEF TransferSettles, ActorSettles, Resuspend
    <3> QED
      BY <3>1, DriveReadsTimely
  <2>8. CASE ActorFailsOver(c)
    BY <2>8 DEF ActorFailsOver, Resuspend, Call, CallFor
  <2>9. CASE \/ PublishActor(c) \/ PublishJudge(c) \/ DriveFaults(c) \/ ReleasedAndAccepted(c)
             \/ ProbeUnsafe(c) \/ ProbeWaiting(c) \/ SettlesStale(c)
             \/ ActorSettlesNothing(c) \/ ActorEndsWithoutClaim(c)
             \/ JudgeEndsWithoutVerdict(c) \/ ActivationSettles(c)
    BY <2>9 DEF PublishActor, PublishJudge, DriveFaults, ReleasedAndAccepted, ProbeUnsafe,
         ProbeWaiting, SettlesStale, ActorSettlesNothing, ActorEndsWithoutClaim,
         JudgeEndsWithoutVerdict, ActivationSettles, BlockIfCurrent, Drop
  <2> QED
    BY <1>1, <2>2, <2>3, <2>4, <2>5, <2>6, <2>7, <2>8, <2>9, <2>10 DEF Continues
<1>2. ASSUME NEW h \in host, Submits(h)
      PROVE  /\ d.op = "turnEnd" => TurnEnds(h) /\ d.sess = h.sess /\ d.id = h.msg
             /\ d.op = "accept" => JudgeAccepts(h) /\ Releases /\ d.sess = h.sess
  <2>1. CASE TurnEnds(h)
    BY <2>1 DEF TurnEnds, CallFor
  <2>2. CASE JudgeAccepts(h)
    BY <2>2 DEF JudgeAccepts, CallFor
  <2>3. CASE ActivationFails(h) \/ JudgeRejects(h)
    BY <2>3 DEF ActivationFails, JudgeRejects, Call, CallFor
  <2>4. CASE \/ \E r \in Results : NodeClaim(h, r)
             \/ JudgeNeedsContext(h) \/ TurnWakes(h) \/ ActorBlocks(h)
    BY <2>4 DEF NodeClaim, JudgeNeedsContext, TurnWakes, ActorBlocks
  <2> QED
    BY <1>2, <2>1, <2>2, <2>3, <2>4 DEF Submits
<1>3. ASSUME Commanded
      PROVE  d.op \notin {"turnEnd", "accept"}
  <2>1. \E e : d \in {Call("drive", version + 1)} \cup DriveReads(e, version + 1)
    <3>1. CASE ManagerBlocks \/ RespawnFaults \/ Resets \/ Restarts
               \/ \E key \in Roles \cup {Judge} : SetsRoleModel(key)
      BY <3>1 DEF ManagerBlocks, RespawnFaults, Resets, Restarts, SetsRoleModel
    <3>2. CASE \E replace, skip \in BOOLEAN : ResumesActor(replace, skip)
      BY <3>2 DEF ResumesActor, ThenDrive
    <3>3. CASE \E mode \in {"fresh", "followup"} : ResumesJudge(mode)
      BY <3>3 DEF ResumesJudge, ThenDrive
    <3>4. CASE RespawnsJudge
      BY <3>4 DEF RespawnsJudge
    <3> QED
      BY <1>3, <3>1, <3>2, <3>3, <3>4 DEF Commanded
  <2>2. PICK e : d \in {Call("drive", version + 1)} \cup DriveReads(e, version + 1)
    BY <2>1
  <2>3. CASE d = Call("drive", version + 1)
    BY <2>3 DEF Call, CallFor
  <2>4. CASE d \in DriveReads(e, version + 1)
    BY <2>4, DriveReadsTimely
  <2> QED
    BY <2>2, <2>3, <2>4
<1>4. CASE UNCHANGED vars
  BY <1>4 DEF vars
<1>5. d.op \in {"turnEnd", "accept"} =>
        /\ d.op = "turnEnd" => \E h \in host : TurnEnds(h) /\ d.sess = h.sess /\ d.id = h.msg
        /\ d.op = "accept" => \E h \in host : JudgeAccepts(h) /\ Releases /\ d.sess = h.sess
  BY <1>1, <1>2, <1>3, <1>4 DEF Next
<1>6. d.op \notin Aside => \E c \in calls : GoesOn(c, d)
  BY EveryCalls DEF CallsChange
<1>7. d.op \in Probes => \E c \in calls : TurnEndGoes(c, d)
  BY <1>6 DEF Aside, Probes, GoesOn, ArrangeGoes, ProbeGoes, CompactGoes, SentGoes, JudgeGoes,
     RejudgeGoes
<1>8. d.op \in Publishing => \E c \in calls : SentGoes(c, d)
  BY <1>6 DEF Aside, Publishing, Probes, GoesOn, ArrangeGoes, ProbeGoes, CompactGoes, TurnEndGoes,
     JudgeGoes, RejudgeGoes
<1> QED
  BY <1>5, <1>7, <1>8

LEMMA TrailingStep ==
  ASSUME IInv, IInv', RowInv, OneTurn, Trailing, [Next]_vars
  PROVE  Trailing'
<1>1. ASSUME NEW h \in host, NEW s, NEW i \in Nat, h.sess = s, i <= h.msg
      PROVE  \E g \in host' : g.sess = s /\ i <= g.msg
  <2>1. PICK g \in host' : g.sess = h.sess /\ h.msg <= g.msg
    BY EveryHostStep, TurnLasts
  <2>2. h.msg \in Nat /\ g.msg \in Nat
    BY TurnFields DEF IInv, TypeOK, Turns
  <2> QED
    BY <1>1, <2>1, <2>2
<1>2. ASSUME NEW c \in calls, c.op \in AtTurnEnd
      PROVE  \E g \in host' : g.sess = c.sess /\ c.id <= g.msg
  <2>1. PICK h \in host : h.sess = c.sess /\ c.id <= h.msg
    BY <1>2 DEF Trailing
  <2>2. c.id \in Nat
    BY CallFields DEF IInv
  <2> QED
    BY <1>1, <2>1, <2>2
<1>3. ASSUME NEW d \in calls', d.op \in AtTurnEnd, d \notin calls
      PROVE  \E g \in host' : g.sess = d.sess /\ d.id <= g.msg
  <2>1. CASE d.op = "turnEnd"
    <3>1. PICK h \in host : d.sess = h.sess /\ d.id = h.msg
      BY <1>3, <2>1, Births
    <3>2. h.msg \in Nat
      BY TurnFields DEF IInv
    <3> QED
      BY <1>1, <3>1, <3>2
  <2>2. CASE d.op \in Probes
    <3>1. PICK c \in calls : TurnEndGoes(c, d)
      BY <1>3, <2>2, Births
    <3> QED
      BY <1>2, <3>1 DEF TurnEndGoes, AtTurnEnd
  <2> QED
    BY <1>3, <2>1, <2>2 DEF AtTurnEnd, Probes
<1> QED
  BY <1>2, <1>3 DEF Trailing

LEMMA ProbedStep ==
  ASSUME IInv, IInv', RowInv, Probed, [Next]_vars
  PROVE  Probed'
<1>1. \A d : (UNCHANGED <<status, version, cur, past>>) => (Owes(cur.judge, d) => Owes(cur.judge, d)')
  BY DEF Owes, Matches
<1>2. version' = version + 1 \/ (UNCHANGED SeenRow /\ version' = version)
  BY VersionStep
<1>3. ASSUME NEW d \in calls', d.op = "judgeProbe", d.ver = version'
      PROVE  Owes(cur.judge, d)'
  <2>1. CASE d \in calls
    <3>1. version' = version /\ UNCHANGED SeenRow
      BY <1>2, <1>3, <2>1, VersionOfCall
    <3> QED
      BY <1>1, <1>3, <2>1, <3>1 DEF Probed, SeenRow
  <2>2. CASE d \notin calls
    <3>1. PICK c \in calls : TurnEndGoes(c, d)
      BY <1>3, <2>2, Births DEF Probes
    <3> QED
      BY <1>1, <1>3, <3>1 DEF TurnEndGoes, RowKept, rowVars
  <2> QED
    BY <2>1, <2>2
<1> QED
  BY <1>3 DEF Probed

LEMMA LatestWorkStep ==
  ASSUME IInv, IInv', RowInv, AllKnow, Seated, Minted', Apart, LatestWork, [Next]_vars
  PROVE  LatestWork'
<1>1. RowChange /\ HostChange /\ CallsChange
  BY EveryChange, EveryHost, EveryCalls
<1>2. CASE cur'.dispatch = None
  BY <1>2 DEF LatestWork
<1>3. CASE Arranged
  <2>1. cur'.dispatch.id = version'
    BY <1>3 DEF Arranged, DispatchIs, RunsOn, Wrote
  <2> QED
    BY <2>1 DEF LatestWork, Minted
<1>4. CASE cur'.dispatch # None /\ ~Arranged
  <2> DEFINE X == {cur.dispatch.id, cur.dispatch.sess}
  <2>1. /\ cur.dispatch # None /\ cur'.dispatch.id = cur.dispatch.id
        /\ cur'.dispatch.sess \in X
    <3>1. CASE DispatchSame \/ SettledNow
      BY <1>4, <3>1 DEF DispatchSame, SettledNow, DispatchSettled, DispatchIs
    <3>2. CASE Published
      <4>1. PICK c \in calls : PublishActor(c) /\ StillCurrent(c) /\ cur'.dispatch.sess = c.sess
        BY <3>2 DEF Published
      <4>2. KnowsWork(c) /\ c.op = "publish"
        BY <4>1 DEF PublishActor, StillCurrent, AllKnow, Knows, Work
      <4> QED
        BY <3>2, <4>1, <4>2 DEF KnowsWork, Published, DispatchIs
    <3> QED
      BY <1>1, <1>4, <3>1, <3>2, DispatchChanges
  <2>2. cur.dispatch.id \in Nat
    BY <2>1, FieldTypes DEF IInv, TypeOK, Dispatches
  <2>3. ASSUME NEW h \in host', h.sess \in X
        PROVE  h.msg <= cur.dispatch.id
    <3>1. CASE Calm
      BY <2>1, <2>3, <3>1 DEF Calm, Resembles, LatestWork
    <3>2. CASE \E c \in calls : Sent(c)
      <4>1. PICK c \in calls : Sent(c)
        BY <3>2
      <4>2. CASE h \in host
        BY <2>1, <2>3, <4>2 DEF LatestWork
      <4>3. CASE h \notin host
        <5>1. /\ h.sess = Receiver(c)
              /\ \/ h.msg = c.id
                 \/ \E g \in host : g.sess = h.sess /\ g.msg = h.msg
          BY <4>1, <4>3, Delivered
        <5>2. OfActor(h.sess)
          BY <2>1, <2>3 DEF OfActor, ActorInRow
        <5>3. c.op = "send"
          BY <4>1, <5>1, <5>2, ReceiverIsApart DEF Sent
        <5>4. c.id <= cur.dispatch.id
          BY <2>1, <5>3 DEF LatestWork, Work
        <5> QED
          BY <2>1, <2>3, <5>1, <5>4 DEF LatestWork
      <4> QED
        BY <4>2, <4>3
    <3> QED
      BY <1>1, <3>1, <3>2 DEF HostChange
  <2>4. ASSUME NEW d \in calls', d.op \in Work
        PROVE  d.id <= cur.dispatch.id
    <3>1. CASE d \in calls
      BY <2>1, <2>4, <3>1 DEF LatestWork
    <3>2. CASE d \notin calls
      <4>1. PICK c \in calls : GoesOn(c, d)
        BY <1>1, <2>4, <3>2 DEF CallsChange, Aside, Work
      <4>2. CASE ArrangeGoes(c, d)
        BY <1>4, <4>2 DEF ArrangeGoes
      <4>3. CASE ProbeGoes(c, d) \/ CompactGoes(c, d)
        BY <2>1, <4>3 DEF ProbeGoes, CompactGoes, LatestWork, Work
      <4>4. CASE SentGoes(c, d)
        BY <2>1, <2>4, <4>4 DEF SentGoes, Sent, LatestWork, Work
      <4>5. CASE JudgeGoes(c, d) \/ RejudgeGoes(c, d) \/ TurnEndGoes(c, d)
        BY <2>4, <4>5 DEF JudgeGoes, RejudgeGoes, TurnEndGoes, Probes, Work
      <4> QED
        BY <4>1, <4>2, <4>3, <4>4, <4>5 DEF GoesOn
    <3> QED
      BY <3>1, <3>2
  <2> QED
    BY <2>1, <2>3, <2>4 DEF LatestWork
<1> QED
  BY <1>2, <1>3, <1>4

\* As long as the Judge of the predecessor is open, no other one is arranged.
LEMMA NoJudgeMeanwhile ==
  ASSUME IInv, OneHandoffAtATime, past # <<>>, ~PredecessorSettled
  PROVE  cur.dispatch = None /\ cur.judge = None /\ cur.claim = None
<1>1. Len(past) \in DOMAIN past
  BY DEF IInv, TypeOK
<1> QED
  BY <1>1 DEF IInv, Materials, OneHandoffAtATime, PredecessorSettled

LEMMA LatestHandoverStep ==
  ASSUME IInv, IInv', RowInv, OneHandoffAtATime, OneHandoffAtATime', Seated, Apart, LatestJudge,
         LatestHandover, [Next]_vars
  PROVE  LatestHandover'
<1>1. RowChange /\ HostChange /\ CallsChange /\ version \in Nat
  BY EveryChange, EveryHost, EveryCalls DEF IInv, TypeOK
<1>2. SUFFICES ASSUME past' # <<>>, ~PredecessorSettled'
               PROVE  LatestHandover'
  BY DEF LatestHandover
<1>3. cur'.judge = None /\ past \in Seq(WorkOrders) /\ past' \in Seq(WorkOrders)
  BY <1>2, NoJudgeMeanwhile DEF IInv, TypeOK, OneHandoffAtATime, PredecessorSettled, Materials
<1>4. CASE MovesOn
  <2>1. PICK left \in WorkOrders : Exited(left) /\ past' = Append(past, left)
    BY <1>4 DEF MovesOn
  <2>2. past'[Len(past')] = left
    BY <1>3, <2>1
  <2>3. left.judge = cur.judge /\ cur.judge # None
    BY <1>4, <2>1 DEF Exited, MovesOn, JudgeSpeaks
  <2>4. version' = version + 1
    BY <1>4 DEF MovesOn, RunsOn, Wrote
  <2>5. ASSUME NEW h \in host', h.sess = cur.judge.sess
        PROVE  h.msg <= cur.judge.id
    <3>1. Calm
      <4>1. ASSUME NEW c \in calls, Sent(c)
            PROVE  FALSE
        BY <1>1, <2>4, <4>1 DEF Sent, rowVars
      <4> QED
        BY <1>1, <4>1 DEF HostChange
    <3> QED
      BY <2>3, <2>5, <3>1 DEF Calm, Resembles, LatestJudge
  <2>6. ASSUME NEW d \in calls', d.op \in Judging
        PROVE  d \in calls
    <3>1. SUFFICES ASSUME d \notin calls
                   PROVE  FALSE
      OBVIOUS
    <3>2. PICK c \in calls : GoesOn(c, d)
      BY <1>1, <2>6, <3>1 DEF CallsChange, Aside, Judging
    <3> QED
      BY <1>1, <1>3, <2>4, <2>6, <3>2 DEF GoesOn, ArrangeGoes, ProbeGoes, CompactGoes, SentGoes, Sent,
         JudgeGoes, RejudgeGoes, TurnEndGoes, RowKept, rowVars, Judging, Probes
  <2> QED
    BY <2>2, <2>3, <2>5, <2>6 DEF LatestHandover, LatestJudge, Predecessor
<1>5. CASE PastSettled
  <2>1. past'[Len(past')].judge.settled
    <3>1. Len(past) \in DOMAIN past /\ past[Len(past)] \in WorkOrders
          /\ past[Len(past)].judge # None
      BY <1>3, <1>5 DEF PastSettled, IInv, Materials
    <3>2. past[Len(past)].judge \in Judges
      BY <3>1, FieldTypes
    <3>3. Len(past') = Len(past)
      BY <1>5, SettledPast
    <3>4. past'[Len(past)] = [past[Len(past)] EXCEPT !.judge.settled = TRUE]
      BY <1>3, <1>5, <3>1 DEF PastSettled, SettlePredecessor
    <3> QED
      BY <3>1, <3>2, <3>3, <3>4 DEF WorkOrders, Judges
  <2> QED
    BY <1>2, <2>1 DEF PredecessorSettled
<1>6. CASE past' = past
  <2> DEFINE j == Predecessor.judge
  <2>1. past # <<>> /\ ~PredecessorSettled /\ Predecessor' = Predecessor
    BY <1>2, <1>6 DEF PredecessorSettled, Predecessor
  <2>2. j \in Judges /\ j.sess \in Nat /\ OfJudge(j.sess)
    <3>1. Len(past) \in DOMAIN past /\ past[Len(past)] \in WorkOrders
          /\ past[Len(past)].judge # None
      BY <1>3, <2>1 DEF IInv, Materials
    <3> QED
      BY <2>1, <3>1, FieldTypes DEF Judges, Sessions, Predecessor, OfJudge, JudgeInRow
  <2>3. ASSUME NEW h \in host', h.sess = j.sess
        PROVE  h.msg <= j.id
    <3>1. CASE Calm
      BY <2>1, <2>3, <3>1 DEF Calm, Resembles, LatestHandover
    <3>2. CASE \E c \in calls : Sent(c)
      <4>1. PICK c \in calls : Sent(c)
        BY <3>2
      <4>2. CASE h \in host
        BY <2>1, <2>3, <4>2 DEF LatestHandover
      <4>3. CASE h \notin host
        <5>1. /\ h.sess = Receiver(c)
              /\ \/ h.msg = c.id
                 \/ \E g \in host : g.sess = h.sess /\ g.msg = h.msg
          BY <4>1, <4>3, Delivered
        <5>2. c.op = "judgeSend" /\ c.sess = j.sess
          BY <2>2, <2>3, <4>1, <5>1, ReceiverIsApart DEF Sent
        <5>3. c.id <= j.id
          BY <2>1, <5>2 DEF LatestHandover, Judging
        <5> QED
          BY <2>1, <2>3, <5>1, <5>3 DEF LatestHandover
      <4> QED
        BY <4>2, <4>3
    <3> QED
      BY <1>1, <3>1, <3>2 DEF HostChange
  <2>4. ASSUME NEW d \in calls', d.op \in Judging, d.sess = j.sess
        PROVE  d.id <= j.id
    <3>1. CASE d \in calls
      BY <2>1, <2>4, <3>1 DEF LatestHandover
    <3>2. CASE d \notin calls
      <4>1. PICK c \in calls : GoesOn(c, d)
        BY <1>1, <2>4, <3>2 DEF CallsChange, Aside, Judging
      <4>2. CASE SentGoes(c, d)
        <5>1. c.op = "judgeSend" /\ d.id = c.id /\ d.sess = c.sess
          BY <2>4, <4>2 DEF SentGoes, Sent, Judging, Receiver, Seated
        <5> QED
          BY <2>1, <2>4, <5>1 DEF LatestHandover, Judging
      <4>3. CASE RejudgeGoes(c, d)
        BY <2>1, <2>4, <4>3 DEF RejudgeGoes, LatestHandover, Judging
      <4>4. CASE JudgeGoes(c, d)
        BY <1>3, <4>4 DEF JudgeGoes
      <4>5. CASE ArrangeGoes(c, d) \/ ProbeGoes(c, d) \/ CompactGoes(c, d) \/ TurnEndGoes(c, d)
        BY <2>4, <4>5 DEF ArrangeGoes, ProbeGoes, CompactGoes, TurnEndGoes, Probes, Judging
      <4> QED
        BY <4>1, <4>2, <4>3, <4>4, <4>5 DEF GoesOn
    <3> QED
      BY <3>1, <3>2
  <2> QED
    BY <2>1, <2>3, <2>4 DEF LatestHandover
<1> QED
  BY <1>1, <1>4, <1>5, <1>6, PastChanges

\* A handler leaves the set of calls by taking its next step.
LEMMA HandlerGoes ==
  ASSUME IInv, [Next]_vars, NEW c \in calls, c \notin calls', ~Restarts
  PROVE  Continues(c)
<1>1. ASSUME NEW b \in calls, Continues(b)
      PROVE  b = c
  BY <1>1 DEF Continues, DriveStarts, ArrangeActor, ProbeIdle, Compacted, Sent,
     PublishActor, ArrangeJudge, PublishJudge, DriveFaults, ReleasedAndAccepted, TurnEndReads,
     ProbeUnsafe, ProbeWaiting, SettlesStale, TransferSettles, ActorSettles,
     ActorSettlesNothing, ActorFailsOver, ActorEndsWithoutClaim, JudgeRetries, JudgeFailsOver,
     Rejudge, RejudgeSends, JudgeEndsWithoutVerdict, ActivationSettles, BlockIfCurrent,
     Resuspend, Drop
<1>2. ASSUME NEW h \in host, Submits(h)
      PROVE  FALSE
  BY <1>2 DEF Submits, NodeClaim, JudgeRejects, JudgeNeedsContext, JudgeAccepts, TurnEnds,
     TurnWakes, ActivationFails, ActorBlocks
<1>3. CASE Commanded
  BY <1>3 DEF Commanded, ManagerBlocks, ResumesActor, ResumesJudge, RespawnsJudge,
     RespawnFaults, SetsRoleModel, Resets, ThenDrive
<1>4. CASE UNCHANGED vars
  BY <1>4 DEF vars
<1> QED
  BY <1>1, <1>2, <1>3, <1>4 DEF Next

\* A failure that is kept for a message still to be published stays kept.
LEMMA FailingLasts ==
  ASSUME IInv, [Next]_vars, NEW c \in calls, c \in calls', c.op \in Publishing,
         Failing(c.sess, c.id)
  PROVE  Failing(c.sess, c.id)'
<1>1. PICK d \in calls : d.op = "activationEnd" /\ d.sess = c.sess /\ d.id = c.id
  BY DEF Failing
<1>2. SUFFICES ASSUME d \notin calls'
               PROVE  FALSE
  BY <1>1 DEF Failing
<1>3. ~Restarts
  BY DEF Restarts
<1>4. Continues(d)
  BY <1>1, <1>2, <1>3, HandlerGoes
<1>5. ActivationSettles(d)
  BY <1>1, <1>4 DEF Continues, DriveStarts, ArrangeActor, ProbeIdle, Compacted, Sent,
     PublishActor, ArrangeJudge, PublishJudge, DriveFaults, ReleasedAndAccepted, TurnEndReads,
     ProbeUnsafe, ProbeWaiting, SettlesStale, TransferSettles, ActorSettles,
     ActorSettlesNothing, ActorFailsOver, ActorEndsWithoutClaim, JudgeRetries, JudgeFailsOver,
     RejudgeSends, JudgeEndsWithoutVerdict, Probing, Safe
<1> QED
  BY <1>1, <1>5 DEF ActivationSettles, Publishing

\* The message that is being published is the latest of its session.
LEMMA PublishedLatest ==
  ASSUME IInv, AllKnow, LatestWork, LatestJudge, NEW c \in calls, c.op \in Publishing,
         c.ver = version, NEW h \in host, h.sess = c.sess
  PROVE  h.msg <= c.id
<1>1. CASE c.op = "publish"
  <2>1. KnowsWork(c)
    BY <1>1 DEF AllKnow, Knows, Work
  <2> QED
    BY <1>1, <2>1 DEF KnowsWork, LatestWork
<1>2. CASE c.op = "judgePublish"
  <2>1. KnowsJudge(c)
    BY <1>2 DEF AllKnow, Knows, Judging
  <2> QED
    BY <1>2, <2>1 DEF KnowsJudge, LatestJudge
<1> QED
  BY <1>1, <1>2 DEF Publishing

LEMMA AcceptingStep ==
  ASSUME IInv, IInv', RowInv, AllKnow, LatestWork, LatestJudge, OneTurn, Accepting, [Next]_vars
  PROVE  Accepting'
<1>1. SUFFICES ASSUME NEW c \in calls', c.op \in Publishing, c.ver = version'
               PROVE  Busy(c.sess, c.id)' \/ Failing(c.sess, c.id)'
  BY DEF Accepting
<1>2. CASE c \in calls
  <2>1. version' = version /\ c.ver = version /\ c.id \in Nat /\ version \in Nat
    BY <1>1, <1>2, VersionOfCall, VersionStep, CallFields DEF IInv
  <2>2. CASE Failing(c.sess, c.id)
    BY <1>1, <1>2, <2>2, FailingLasts
  <2>3. CASE Busy(c.sess, c.id)
    <3>1. PICK h \in host : h.sess = c.sess /\ h.st # "idle" /\ c.id <= h.msg
      BY <2>3 DEF Busy
    <3>2. h.msg \in Nat /\ h.msg = c.id
      <4>1. h.msg \in Nat
        BY TurnFields DEF IInv
      <4>2. h.msg <= c.id
        BY <1>1, <1>2, <2>1, <3>1, PublishedLatest
      <4> QED
        BY <2>1, <3>1, <4>1, <4>2
    <3>3. CASE Lasts(h)
      BY <3>1, <3>2, <3>3 DEF Lasts, Busy
    <3>4. CASE TurnEnds(h)
      BY <1>1, <1>2, <3>1, <3>4 DEF TurnEnds, Publishing
    <3>5. CASE ActivationFails(h)
      <4>1. CallFor("activationEnd", 0, h.sess, h.msg) \in calls'
        BY <3>5 DEF ActivationFails
      <4> QED
        BY <3>1, <3>2, <4>1 DEF CallFor, Failing
    <3>6. CASE Restarts
      BY <1>1, <3>6 DEF Restarts
    <3> QED
      BY <2>1, <3>1, <3>3, <3>4, <3>5, <3>6, WorkEnds
  <2> QED
    BY <1>1, <1>2, <2>1, <2>2, <2>3 DEF Accepting
<1>3. CASE c \notin calls
  <2>1. PICK b \in calls : SentGoes(b, c)
    BY <1>1, <1>3, Births
  <2>2. Sent(b) /\ c.id = b.id /\ c.sess = Receiver(b)
    BY <2>1 DEF SentGoes
  <2>3. PICK t \in host' : t.sess = Receiver(b) /\ t.st = "busy" /\ b.id <= t.msg
    BY <2>2, Replaced
  <2> QED
    BY <2>2, <2>3 DEF Busy
<1> QED
  BY <1>2, <1>3

LEMMA SubmittingStep ==
  ASSUME IInv, IInv', RowInv, OneTurn, Submitting, [Next]_vars
  PROVE  Submitting'
<1>1. SUFFICES ASSUME NEW c \in calls', c.op = "accept", c.ver = version'
               PROVE  /\ c.sess = cur'.judge.sess /\ RoleNow' \in NodeScoped
                      /\ \E h \in host' : h.sess = c.sess /\ h.st = "busy" /\ cur'.judge.id <= h.msg
  BY DEF Submitting
<1>2. CASE c \in calls
  <2>1. version' = version /\ c.ver = version /\ cur' = cur /\ version \in Nat
    BY <1>1, <1>2, VersionOfCall, VersionStep DEF SeenRow
  <2>2. c.sess = cur.judge.sess /\ RoleNow \in NodeScoped /\ RoleNow' = RoleNow
    BY <1>1, <1>2, <2>1 DEF Submitting, RoleNow
  <2>3. PICK h \in host : h.sess = c.sess /\ h.st = "busy" /\ cur.judge.id <= h.msg
    BY <1>1, <1>2, <2>1 DEF Submitting
  <2>4. CASE Lasts(h)
    <3>1. PICK g \in host' : g.sess = h.sess /\ g.st = "busy" /\ h.msg <= g.msg
      BY <2>3, <2>4 DEF Lasts
    <3>2. h.msg \in Nat /\ g.msg \in Nat /\ cur.judge.id \in Nat
      <4>1. cur.judge # None
        BY <1>1, <1>2, <2>1 DEF IInv, Held, Backed
      <4> QED
        BY <4>1, TurnFields, FieldTypes DEF IInv, TypeOK, Turns, Judges
    <3> QED
      BY <2>1, <2>2, <2>3, <3>1, <3>2
  <2>5. CASE TurnEnds(h) \/ ActivationFails(h)
    BY <1>1, <1>2, <2>3, <2>5 DEF TurnEnds, ActivationFails, Working
  <2>6. CASE Restarts
    BY <1>1, <2>6 DEF Restarts
  <2> QED
    BY <2>1, <2>3, <2>4, <2>5, <2>6, WorkEnds
<1>3. CASE c \notin calls
  <2>1. PICK h \in host : JudgeAccepts(h) /\ Releases /\ c.sess = h.sess
    BY <1>1, <1>3, Births
  <2>2. cur' = cur /\ host' = host /\ RoleNow \in NodeScoped /\ RoleNow' = RoleNow
    BY <2>1 DEF JudgeAccepts, rowVars, Releases, RoleNow
  <2>3. h.st = "busy" /\ cur.judge.sess = h.sess /\ cur.judge.id <= h.msg
    BY <2>1 DEF JudgeAccepts, JudgeMaySubmit, Working, Matches
  <2> QED
    BY <2>1, <2>2, <2>3
<1> QED
  BY <1>2, <1>3

-----------------------------------------------------------------------------
(* A step that leaves the row alone: who served still does, or has handed   *)
(* over to the next step of the same handler.                              *)

Cared == IInv /\ RowInv /\ SessionInv /\ OneHandoffAtATime /\ CareInv
Apt == "setRoleModel" \notin Commands /\ OneRecovery

LEMMA RowSays ==
  ASSUME IInv, RowInv, Settlement
  PROVE  /\ HandingOver => /\ past # <<>> /\ Predecessor.judge # None
                           /\ Predecessor.judge \in Judges
                           /\ Predecessor.judge.pub /\ ~Predecessor.judge.settled
         /\ Dispatching \/ Underway => cur.dispatch # None /\ ~cur.dispatch.settled
         /\ Closing => /\ cur.dispatch # None /\ cur.dispatch.pub /\ ~cur.dispatch.settled
                       /\ cur.judge = None /\ cur.claim # None
                       /\ cur.claim.dispatch = cur.dispatch.id
         /\ UnderJudgment => /\ cur.dispatch # None /\ cur.dispatch.settled
                             /\ cur.judge # None /\ ~cur.judge.settled
         /\ Seating => cur.claim # None /\ cur.dispatch # None /\ cur.dispatch.settled
<1>1. cur.phase = "checking" => cur.claim # None /\ cur.dispatch # None
  BY DEF IInv, Materials
<1>2. cur.phase = "working" => cur.dispatch # None /\ ~cur.dispatch.settled
  BY DEF IInv, Materials, RowInv, Stands
<1>3. cur.claim # None => cur.dispatch.pub /\ cur.claim.dispatch = cur.dispatch.id
  BY DEF RowInv, Stands, ValidWorkOrder
<1>4. cur.judge # None => cur.dispatch.settled /\ ~cur.judge.settled
  BY DEF RowInv, Stands
<1>5. HandingOver => /\ past # <<>> /\ Predecessor.judge # None
                     /\ Predecessor.judge \in Judges
                     /\ Predecessor.judge.pub /\ ~Predecessor.judge.settled
  <2>1. SUFFICES ASSUME HandingOver
                 PROVE  /\ past # <<>> /\ Predecessor.judge # None
                        /\ Predecessor.judge \in Judges
                        /\ Predecessor.judge.pub /\ ~Predecessor.judge.settled
    OBVIOUS
  <2>2. past # <<>> /\ ~Predecessor.judge.settled
    BY <2>1 DEF HandingOver, PredecessorSettled, Predecessor
  <2>3. Len(past) \in DOMAIN past /\ Predecessor \in WorkOrders
    BY <2>2 DEF IInv, TypeOK, Predecessor
  <2>4. Predecessor.judge # None /\ Predecessor.judge.pub
    BY <2>3 DEF IInv, Materials, RowInv, Judged, JudgedExit, Predecessor
  <2> QED
    BY <2>2, <2>3, <2>4, FieldTypes
<1> QED
  BY <1>1, <1>2, <1>3, <1>4, <1>5 DEF Dispatching, Underway, Closing, UnderJudgment, Seating

LEMMA SameServes ==
  ASSUME RowSame
  PROVE  /\ \A c : Serves(c)' <=> Serves(c)
         /\ \A s, m : Expects(s, m)' <=> Expects(s, m)
<1>1. cur' = cur /\ past' = past /\ version' = version
  BY DEF RowSame
<1>2. (PredecessorSettled' <=> PredecessorSettled) /\ Predecessor' = Predecessor
  BY <1>1 DEF PredecessorSettled, Predecessor
<1>3. (Starting' <=> Starting) /\ (HandingOver' <=> HandingOver)
  BY <1>1, <1>2 DEF Starting, HandingOver
<1>4. (Dispatching' <=> Dispatching) /\ (Underway' <=> Underway) /\ (Closing' <=> Closing)
  BY <1>1 DEF Dispatching, Underway, Closing
<1>5. UnderJudgment' <=> UnderJudgment
  BY <1>1 DEF UnderJudgment
<1>6. (Seating' <=> Seating) /\ (Continuable' <=> Continuable)
  BY <1>1, <1>5 DEF Seating, Continuable
<1>7. \A s, m : Expects(s, m)' <=> Expects(s, m)
  BY <1>1, <1>2, <1>3, <1>4, <1>5 DEF Expects
<1>8. \A s, m : MayFail(s, m)' <=> MayFail(s, m)
  BY <1>1, <1>4, <1>5 DEF MayFail
<1>9. \A c : ServesNow(c)' <=> ServesNow(c)
  BY <1>3, <1>4, <1>5, <1>6 DEF ServesNow
<1>10. \A c : Serves(c)' <=> Serves(c)
  BY <1>1, <1>3, <1>6, <1>7, <1>8, <1>9 DEF Serves
<1> QED
  BY <1>7, <1>10

\* What a later message of the same session is expected for, an earlier one is.
LEMMA ExpectsLater ==
  ASSUME IInv, RowInv, Settlement, NEW s, NEW m \in Nat, NEW n \in Nat, m <= n, Expects(s, m)
  PROVE  Expects(s, n)
<1>1. HandingOver => Predecessor.judge.id \in Nat
  BY RowSays DEF Judges
<1>2. Underway \/ Closing => cur.dispatch.id \in Nat
  BY RowSays, FieldTypes DEF IInv, TypeOK, Dispatches
<1>3. UnderJudgment => cur.judge.id \in Nat
  BY RowSays, FieldTypes DEF IInv, TypeOK, Judges
<1> QED
  BY <1>1, <1>2, <1>3 DEF Expects

\* A turn at work is at the very message that is awaited.
LEMMA ExpectsLatest ==
  ASSUME IInv, RowInv, Settlement, LatestWork, LatestJudge, LatestHandover,
         NEW h \in host, Expects(h.sess, h.msg)
  PROVE  \/ HandingOver /\ Predecessor.judge.id = h.msg
         \/ Closing /\ cur.dispatch.id = h.msg
         \/ MayFail(h.sess, h.msg)
<1>1. h.msg \in Nat
  BY TurnFields DEF IInv
<1>2. CASE HandingOver /\ Predecessor.judge.sess = h.sess /\ Predecessor.judge.id <= h.msg
  <2>1. past # <<>> /\ ~PredecessorSettled /\ Predecessor.judge.id \in Nat
    BY <1>2, RowSays DEF HandingOver, Judges
  <2>2. h.msg <= Predecessor.judge.id
    BY <1>2, <2>1 DEF LatestHandover
  <2> QED
    BY <1>1, <1>2, <2>1, <2>2
<1>3. CASE (Underway \/ Closing) /\ cur.dispatch.sess = h.sess /\ cur.dispatch.id <= h.msg
  <2>1. cur.dispatch # None /\ cur.dispatch.id \in Nat
    BY <1>3, RowSays, FieldTypes DEF IInv, TypeOK, Dispatches
  <2>2. h.msg <= cur.dispatch.id
    BY <1>3, <2>1 DEF LatestWork
  <2> QED
    BY <1>1, <1>3, <2>1, <2>2 DEF MayFail
<1>4. CASE UnderJudgment /\ cur.judge.sess = h.sess /\ cur.judge.id <= h.msg
  <2>1. cur.judge # None /\ cur.judge.id \in Nat
    BY <1>4, RowSays, FieldTypes DEF IInv, TypeOK, Judges
  <2>2. h.msg <= cur.judge.id
    BY <1>4, <2>1 DEF LatestJudge
  <2> QED
    BY <1>1, <1>4, <2>1, <2>2 DEF MayFail
<1> QED
  BY <1>2, <1>3, <1>4 DEF Expects

\* A turn that is awaited goes on, or leaves the handler of its end behind.
LEMMA TurnServes ==
  ASSUME Cared, IInv', [Next]_vars, RowSame, status = "running", NEW h \in host, Works(h)
  PROVE  SomeoneServes'
<1>1. IInv /\ RowInv /\ Settlement /\ LatestWork /\ LatestJudge /\ LatestHandover /\ OneTurn
      /\ Unstopped
  BY DEF Cared, SessionInv, CareInv
<1>2. h.st # "idle" /\ Expects(h.sess, h.msg) /\ h.msg \in Nat /\ version \in Nat
  BY <1>1, TurnFields DEF Works, IInv, TypeOK
<1>3. CASE Lasts(h)
  <2>1. PICK g \in host' : g.sess = h.sess /\ g.st # "idle" /\ h.msg <= g.msg
    BY <1>3 DEF Lasts
  <2>2. g.msg \in Nat
    BY DEF IInv, TypeOK, Turns
  <2>3. Expects(g.sess, g.msg)
    BY <1>1, <1>2, <2>1, <2>2, ExpectsLater
  <2>4. Expects(g.sess, g.msg)'
    BY <2>3, SameServes
  <2> QED
    BY <2>1, <2>4 DEF SomeoneServes, Works
<1>4. CASE TurnEnds(h)
  <2>1. PICK d : d = CallFor("turnEnd", 0, h.sess, h.msg) /\ d \in calls'
    BY <1>4 DEF TurnEnds
  <2>2. d.op = "turnEnd" /\ d.sess = h.sess /\ d.id = h.msg
    BY <2>1 DEF CallFor
  <2>3. Serves(d)
    BY <1>2, <2>2 DEF Serves
  <2> QED
    BY <2>1, <2>3, SameServes DEF SomeoneServes
<1>5. CASE ActivationFails(h)
  <2>1. PICK d : d = CallFor("activationEnd", 0, h.sess, h.msg) /\ d \in calls'
    BY <1>5 DEF ActivationFails
  <2>2. d.op = "activationEnd" /\ d.sess = h.sess /\ d.id = h.msg
    BY <2>1 DEF CallFor
  <2>3. ~(HandingOver /\ Predecessor.judge.id = h.msg)
    BY <1>1, <1>5, RowSays DEF ActivationFails, Submitted, Predecessor
  <2>4. ~(Closing /\ cur.dispatch.id = h.msg)
    BY <1>1, <1>5, RowSays DEF ActivationFails, Submitted
  <2>5. MayFail(h.sess, h.msg)
    BY <1>1, <1>2, <2>3, <2>4, ExpectsLatest
  <2>6. Serves(d)
    BY <2>2, <2>5 DEF Serves
  <2> QED
    BY <2>1, <2>6, SameServes DEF SomeoneServes
<1>6. CASE Restarts
  BY <1>1, <1>2, <1>6 DEF Restarts, RowSame, Unstopped, BlockRow, Put
<1> QED
  BY <1>1, <1>2, <1>3, <1>4, <1>5, <1>6, WorkEnds DEF RowSame

\* What a serving handler answers for, by the step it is at.
LEMMA ServingAt ==
  ASSUME NEW c, Serves(c)
  PROVE  /\ c.op = "drive" => Starting \/ (Seating /\ Continuable)
         /\ c.op = "turnEnd" => Expects(c.sess, c.id)
         /\ c.op = "activationEnd" => MayFail(c.sess, c.id)
         /\ c.op \notin {"drive", "turnEnd", "activationEnd"} => c.ver = version
         /\ c.op = "arrange" => Starting
         /\ c.op = "transferProbe" => HandingOver
         /\ c.op \in Work => Dispatching
         /\ c.op = "actorProbe" => Underway \/ Closing
         /\ c.op = "cwd" => Seating /\ Continuable
         /\ c.op \in Judging => Seating
         /\ c.op = "judgeProbe" => UnderJudgment
         /\ c.op # "accept"
BY DEF Serves, ServesNow, Work, Judging

LEMMA HandlerServes ==
  ASSUME NEW d \in calls', Serves(d), RowSame
  PROVE  SomeoneServes'
BY SameServes DEF SomeoneServes

LEMMA DriveServes ==
  ASSUME Cared, NEW c \in calls, Serves(c), DriveStarts(c), status = "running"
  PROVE  SomeoneServes'
<1>1. RowSame /\ c.op = "drive"
  BY DEF DriveStarts, rowVars, RowSame
<1>2. IInv /\ RowInv /\ Settlement /\ version \in Nat
  BY DEF Cared, SessionInv, IInv, TypeOK
<1>3. ASSUME NEW op \in {"arrange", "cwd"}, DriveReads(cur, version) = {Call(op, version)}
      PROVE  \E d \in calls' : d.op = op /\ d.ver = version
  <2>1. [Call(op, version) EXCEPT !.from = c.ver] \in calls'
    BY <1>3, status = "running" DEF DriveStarts, Resuspend
  <2>2. /\ [Call(op, version) EXCEPT !.from = c.ver].op = op
        /\ [Call(op, version) EXCEPT !.from = c.ver].ver = version
    BY DEF Call, CallFor
  <2> QED
    BY <2>1, <2>2
<1>4. CASE Starting
  <2>1. DriveReads(cur, version) = {Call("arrange", version)}
    BY <1>4 DEF Starting, DriveReads
  <2>2. PICK d \in calls' : d.op = "arrange" /\ d.ver = version
    BY <1>3, <2>1
  <2> QED
    BY <1>1, <1>4, <2>2, HandlerServes DEF Serves, ServesNow
<1>5. CASE Seating /\ Continuable
  <2>1. DriveReads(cur, version) = {Call("cwd", version)}
    BY <1>2, <1>5, RowSays DEF Seating, UnderJudgment, DriveReads
  <2>2. PICK d \in calls' : d.op = "cwd" /\ d.ver = version
    BY <1>3, <2>1
  <2> QED
    BY <1>1, <1>5, <2>2, HandlerServes DEF Serves, ServesNow
<1> QED
  BY <1>1, <1>4, <1>5, ServingAt

\* The steps of a dispatch, and of the start of a Judge, that only await.
LEMMA AwaitServes ==
  ASSUME Cared, NEW c \in calls, Serves(c), status = "running",
         ProbeIdle(c) \/ Sent(c) \/ RejudgeSends(c)
  PROVE  SomeoneServes'
<1>1. RowSame /\ c.op \in {"probe", "send", "judgeSend", "rejudge"}
  BY DEF ProbeIdle, Sent, RejudgeSends, rowVars, RowSame
<1>2. c \in Calls /\ c.ver = version /\ StillCurrent(c)
  BY <1>1, CallFields, ServingAt DEF Cared, IInv, StillCurrent
<1>3. \E d \in calls' : /\ d.ver = version
                        /\ \/ c.op \in Work /\ d.op \in Work
                           \/ c.op \in Judging /\ d.op \in Judging
  <2>1. CASE ProbeIdle(c)
    <3>1. PICK op \in {"send", "compact"} : [c EXCEPT !.op = op] \in calls'
      BY <1>2, <2>1 DEF ProbeIdle, Resuspend
    <3>2. [c EXCEPT !.op = op].op = op /\ [c EXCEPT !.op = op].ver = version
      BY <1>2 DEF Calls
    <3> QED
      BY <2>1, <3>1, <3>2 DEF ProbeIdle, Work
  <2>2. CASE Sent(c)
    <3> DEFINE op == IF c.op = "send" THEN "publish" ELSE "judgePublish"
               d  == [c EXCEPT !.sess = IF c.sess = None THEN c.id ELSE c.sess, !.op = op]
    <3>1. d \in calls'
      BY <2>2 DEF Sent, Resuspend
    <3>2. d.op = op /\ d.ver = version
      BY <1>2 DEF Calls
    <3> HIDE DEF d
    <3> QED
      BY <2>2, <3>1, <3>2 DEF Sent, Work, Judging
  <2>3. CASE RejudgeSends(c)
    <3>1. [c EXCEPT !.op = "judgeSend"] \in calls'
      BY <1>2, <2>3 DEF RejudgeSends, Resuspend
    <3>2. [c EXCEPT !.op = "judgeSend"].op = "judgeSend" /\ [c EXCEPT !.op = "judgeSend"].ver = version
      BY <1>2 DEF Calls
    <3> QED
      BY <2>3, <3>1, <3>2 DEF RejudgeSends, Judging
  <2> QED
    BY <2>1, <2>2, <2>3
<1>4. PICK d \in calls' : /\ d.ver = version
                          /\ \/ c.op \in Work /\ d.op \in Work
                             \/ c.op \in Judging /\ d.op \in Judging
  BY <1>3
<1>5. Serves(d)
  BY <1>4, ServingAt DEF Serves, ServesNow
<1> QED
  BY <1>1, <1>5, HandlerServes

\* The Judge that a resume has arranged is found to be the one to send.
LEMMA ArrangedJudgeServes ==
  ASSUME Cared, NEW c \in calls, Serves(c), status = "running", ArrangeJudge(c),
         cur.judge # None
  PROVE  SomeoneServes'
<1>1. c.op = "cwd" /\ c.ver = version /\ Seating /\ Continuable /\ StillCurrent(c)
  BY ServingAt DEF ArrangeJudge, StillCurrent
<1>2. c \in Calls /\ ValidWorkOrder(cur)
  BY CallFields DEF Cared, IInv, RowInv
<1>3. RowSame
  BY <1>1 DEF ArrangeJudge, RowSame
<1>4. cur.judge.claim = cur.claim.id /\ cur.judge.iv = cur.iv
  BY <1>2 DEF ValidWorkOrder
<1> DEFINE cont == IF cur.resolution # None /\ cur.resolution.target = "judge"
                      /\ cur.resolution.mode = "followup"
                   THEN cur.resolution.sess ELSE None
<1>5. cont \in {None, cur.judge.sess}
  BY <1>1 DEF Continuable
<1>6. [c EXCEPT !.op = "judgeSend", !.sess = cur.judge.sess, !.id = cur.judge.id] \in calls'
  BY <1>1, <1>4, <1>5 DEF ArrangeJudge, Resuspend
<1>7. PICK d \in calls' :
        d = [c EXCEPT !.op = "judgeSend", !.sess = cur.judge.sess, !.id = cur.judge.id]
  BY <1>6
<1>8. d.op = "judgeSend" /\ d.ver = version
  BY <1>1, <1>2, <1>7 DEF Calls
<1>9. Serves(d)
  BY <1>1, <1>8 DEF Serves, ServesNow, Judging
<1> QED
  BY <1>3, <1>9, HandlerServes

\* The handler of an awaited turn's end recognises whose turn it was.
LEMMA TurnEndServes ==
  ASSUME Cared, NEW c \in calls, Serves(c), status = "running", TurnEndReads(c)
  PROVE  SomeoneServes'
<1>1. RowSame /\ c.op = "turnEnd" /\ Expects(c.sess, c.id) /\ c \in Calls
  BY CallFields, ServingAt DEF Cared, IInv, TurnEndReads, rowVars, RowSame
<1>2. IInv /\ RowInv /\ Settlement
  BY DEF Cared, SessionInv
<1>3. ASSUME NEW op, [c EXCEPT !.op = op, !.ver = version] \in calls'
      PROVE  \E d \in calls' : d.op = op /\ d.ver = version
  BY <1>1, <1>3 DEF Calls
<1>4. CASE HandingOver /\ Predecessor.judge.sess = c.sess /\ Predecessor.judge.id <= c.id
  <2>1. past # <<>> /\ cur.phase = "ready" /\ Owes(past[Len(past)].judge, c)
    BY <1>2, <1>4, RowSays DEF HandingOver, Predecessor, Owes, Matches
  <2>2. [c EXCEPT !.op = "transferProbe", !.ver = version] \in calls'
    BY <2>1 DEF TurnEndReads, Resuspend, Owes
  <2>3. PICK d \in calls' : d.op = "transferProbe" /\ d.ver = version
    BY <1>3, <2>2
  <2> QED
    BY <1>1, <1>4, <2>3, HandlerServes DEF Serves, ServesNow
<1>5. CASE (Underway \/ Closing) /\ cur.dispatch.sess = c.sess /\ cur.dispatch.id <= c.id
  <2>1. cur.phase # "ready" /\ Owes(cur.dispatch, c)
    BY <1>2, <1>5, RowSays DEF Underway, Closing, Owes, Matches
  <2>2. [c EXCEPT !.op = "actorProbe", !.ver = version] \in calls'
    BY <2>1 DEF TurnEndReads, Resuspend, Owes
  <2>3. PICK d \in calls' : d.op = "actorProbe" /\ d.ver = version
    BY <1>3, <2>2
  <2> QED
    BY <1>1, <1>5, <2>3, HandlerServes DEF Serves, ServesNow
<1>6. CASE UnderJudgment /\ cur.judge.sess = c.sess /\ cur.judge.id <= c.id
  <2>1. cur.phase # "ready" /\ ~Owes(cur.dispatch, c) /\ Owes(cur.judge, c)
    BY <1>2, <1>6, RowSays DEF UnderJudgment, Owes, Matches
  <2>2. [c EXCEPT !.op = "judgeProbe", !.ver = version] \in calls'
    BY <2>1 DEF TurnEndReads, Resuspend, Owes
  <2>3. PICK d \in calls' : d.op = "judgeProbe" /\ d.ver = version
    BY <1>3, <2>2
  <2> QED
    BY <1>1, <1>6, <2>3, HandlerServes DEF Serves, ServesNow
<1> QED
  BY <1>1, <1>4, <1>5, <1>6 DEF Expects

\* A probe that finds the session waiting leaves the Run to its wake-up.
LEMMA WaitingServes ==
  ASSUME Cared, NEW c \in calls, Serves(c), status = "running", ProbeWaiting(c)
  PROVE  SomeoneServes'
<1>1. /\ RowSame /\ host' = host /\ c.op \in {"actorProbe", "judgeProbe"} /\ c.ver = version
      /\ IInv /\ RowInv /\ Settlement
  BY ServingAt DEF Cared, SessionInv, ProbeWaiting, rowVars, RowSame
<1>2. PICK h \in host : h.sess = c.sess /\ h.st = "waiting"
  BY DEF ProbeWaiting
<1>3. c.id <= h.msg
  BY <1>1, <1>2 DEF Cared, CareInv, Trailing, OneTurn, AtTurnEnd
<1>4. c.id \in Nat /\ h.msg \in Nat
  BY <1>1, CallFields, TurnFields DEF IInv
<1>5. Expects(c.sess, c.id)
  <2>1. CASE c.op = "actorProbe"
    <3>1. Owes(cur.dispatch, c) /\ (Underway \/ Closing)
      BY <1>1, <2>1, ServingAt DEF Cared, SessionInv, AllKnow, Knows
    <3> QED
      BY <3>1 DEF Owes, Matches, Expects
  <2>2. CASE c.op = "judgeProbe"
    <3>1. Owes(cur.judge, c) /\ UnderJudgment
      BY <1>1, <2>2, ServingAt DEF Cared, CareInv, Probed
    <3> QED
      BY <3>1 DEF Owes, Matches, Expects
  <2> QED
    BY <1>1, <2>1, <2>2
<1>6. Expects(h.sess, h.msg)
  BY <1>1, <1>2, <1>3, <1>4, <1>5, ExpectsLater
<1>7. Expects(h.sess, h.msg)'
  BY <1>1, <1>6, SameServes
<1> QED
  BY <1>1, <1>2, <1>7 DEF SomeoneServes, Works

\* Every other step of a serving handler writes the row.
LEMMA WriterWrites ==
  ASSUME Cared, Apt, NEW c \in calls, Serves(c), status = "running", Continues(c),
         ~\/ DriveStarts(c) \/ ProbeIdle(c) \/ Sent(c) \/ RejudgeSends(c)
          \/ TurnEndReads(c) \/ ProbeWaiting(c)
          \/ (ArrangeJudge(c) /\ cur.judge # None)
  PROVE  version' = version + 1
<1>1. IInv /\ RowInv /\ Settlement /\ Unjudged /\ Asked /\ OneRecovery
  BY DEF Cared, SessionInv, CareInv, Apt
<1>2. c.op \notin {"drive", "turnEnd", "activationEnd"} => StillCurrent(c)
  BY ServingAt DEF StillCurrent
<1>3. CASE ArrangeActor(c)
  <2>1. StillCurrent(c) /\ PredecessorSettled
    BY <1>2, <1>3, ServingAt DEF ArrangeActor, Starting
  <2> QED
    BY <1>3, <2>1 DEF ArrangeActor, Put
<1>4. CASE Compacted(c) \/ PublishActor(c) \/ PublishJudge(c)
  <2>1. StillCurrent(c)
    BY <1>2, <1>4 DEF Compacted, PublishActor, PublishJudge
  <2> QED
    BY <1>4, <2>1 DEF Compacted, PublishActor, PublishJudge, Put
<1>5. CASE ArrangeJudge(c)
  <2>1. StillCurrent(c) /\ cur.judge = None
    BY <1>2, <1>5 DEF ArrangeJudge
  <2> QED
    BY <1>5, <2>1 DEF ArrangeJudge, Put
<1>6. CASE DriveFaults(c) \/ ProbeUnsafe(c)
  <2>1. StillCurrent(c) /\ BlockIfCurrent(c)
    BY <1>2, <1>6 DEF DriveFaults, ProbeUnsafe, Probing
  <2> QED
    BY <2>1 DEF BlockIfCurrent, BlockRow, Put
<1>7. CASE ReleasedAndAccepted(c)
  BY <1>7, ServingAt DEF ReleasedAndAccepted
<1>8. CASE SettlesStale(c)
  BY <1>2, <1>8 DEF SettlesStale, Probing
<1>9. CASE \/ TransferSettles(c) \/ ActorSettles(c) \/ ActorFailsOver(c)
           \/ ActorEndsWithoutClaim(c) \/ JudgeEndsWithoutVerdict(c)
  BY <1>9 DEF TransferSettles, ActorSettles, ActorFailsOver, ActorEndsWithoutClaim,
     JudgeEndsWithoutVerdict, BlockRow, Put
<1>10. CASE ActorSettlesNothing(c)
  <2>1. Underway \/ Closing
    BY <1>10, ServingAt DEF ActorSettlesNothing, Safe
  <2> QED
    BY <1>10, <2>1 DEF ActorSettlesNothing, Underway, Closing
<1>11. CASE JudgeRetries(c) \/ JudgeFailsOver(c)
  <2>1. cur.judge # None
    BY <1>11, ServingAt DEF JudgeRetries, JudgeFailsOver, Safe, UnderJudgment
  <2>2. \A b : ValidWorkOrder(WithNewJudge(b))
    BY <1>1, <2>1, RetryIsValid DEF ContinuedAfterRestart, OneRecovery
  <2>3. \E b, st : Rejudge(c, b, st)
    BY <1>11 DEF JudgeRetries, JudgeFailsOver
  <2>4. PICK b, st : Rejudge(c, b, st)
    BY <2>3
  <2>5. ValidWorkOrder(WithNewJudge(b))
    BY <2>2
  <2> QED
    BY <2>4, <2>5 DEF Rejudge, Put
<1>12. CASE ActivationSettles(c)
  <2>1. MayFail(c.sess, c.id)
    BY <1>12, ServingAt DEF ActivationSettles
  <2>2. CASE Underway /\ cur.dispatch.sess = c.sess /\ cur.dispatch.id = c.id
    <3>1. /\ cur.phase = "working" /\ cur.dispatch # None /\ cur.dispatch.pub
          /\ ~cur.dispatch.settled
      BY <1>1, <2>2, RowSays DEF Underway
    <3> QED
      BY <1>12, <2>2, <3>1 DEF ActivationSettles, BlockRow, Put
  <2>3. CASE UnderJudgment /\ cur.judge.sess = c.sess /\ cur.judge.id = c.id
    <3>1. /\ cur.phase = "checking" /\ cur.judge # None /\ cur.judge.pub
          /\ ~cur.judge.settled
      BY <1>1, <2>3, RowSays DEF UnderJudgment
    <3> QED
      BY <1>12, <2>3, <3>1 DEF ActivationSettles, BlockRow, Put
  <2> QED
    BY <2>1, <2>2, <2>3 DEF MayFail
<1> QED
  BY <1>3, <1>4, <1>5, <1>6, <1>7, <1>8, <1>9, <1>10, <1>11, <1>12 DEF Continues

\* While the row stays as it is, responsibility is passed on.
LEMMA SameRowServed ==
  ASSUME Cared, Apt, IInv', [Next]_vars, RowSame, status = "running"
  PROVE  SomeoneServes'
<1>1. SomeoneServes /\ IInv /\ version \in Nat /\ Unstopped
  BY DEF Cared, CareInv, Served, SessionInv, IInv, TypeOK
<1>2. CASE \E h \in host : Works(h)
  BY <1>2, TurnServes
<1>3. CASE \E c \in calls : Serves(c)
  <2>1. PICK c \in calls : Serves(c)
    BY <1>3
  <2>2. CASE c \in calls'
    BY <2>1, <2>2, HandlerServes
  <2>3. CASE c \notin calls'
    <3>1. ~Restarts
      BY <1>1 DEF Restarts, RowSame, Unstopped, BlockRow, Put
    <3>2. Continues(c)
      BY <1>1, <2>3, <3>1, HandlerGoes
    <3>3. version' = version
      BY DEF RowSame
    <3>4. \/ DriveStarts(c) \/ ProbeIdle(c) \/ Sent(c) \/ RejudgeSends(c)
          \/ TurnEndReads(c) \/ ProbeWaiting(c)
          \/ (ArrangeJudge(c) /\ cur.judge # None)
      BY <1>1, <2>1, <3>2, <3>3, WriterWrites
    <3> QED
      BY <2>1, <3>4, DriveServes, AwaitServes, TurnEndServes, WaitingServes, ArrangedJudgeServes
  <2> QED
    BY <2>2, <2>3
<1> QED
  BY <1>1, <1>2, <1>3 DEF SomeoneServes

-----------------------------------------------------------------------------
(* A step that writes the row: who serves the new one.                     *)

\* The gate of a work order that has been dispatched stays open.
LEMMA GateIsOpen ==
  ASSUME IInv, OneHandoffAtATime, cur.dispatch # None
  PROVE  PredecessorSettled
<1>1. past # <<>> => Len(past) \in DOMAIN past
  BY DEF IInv, TypeOK
<1> QED
  BY <1>1 DEF OneHandoffAtATime, PredecessorSettled

LEMMA GateOpens ==
  ASSUME IInv, SettlePredecessor
  PROVE  PredecessorSettled'
<1>1. CASE past = <<>>
  <2>1. past' = <<>>
    <3>1. DOMAIN past' = DOMAIN past
      BY DEF SettlePredecessor
    <3>2. past' = [i \in DOMAIN past |-> past'[i]]
      BY DEF SettlePredecessor
    <3> QED
      BY <1>1, <3>1, <3>2
  <2> QED
    BY <2>1 DEF PredecessorSettled
<1>2. CASE past # <<>>
  BY <1>2, SettlePredecessorType DEF IInv, PredecessorSettled
<1> QED
  BY <1>1, <1>2

\* The handler that is to start a ready work order, or to seat a Judge.
LEMMA StarterServes ==
  ASSUME NEW d \in calls', Starting',
         d.op = "drive" \/ (d.op = "arrange" /\ d.ver = version')
  PROVE  SomeoneServes'
<1>1. Serves(d)'
  BY DEF Serves, ServesNow
<1> QED
  BY <1>1 DEF SomeoneServes

LEMMA SeaterServes ==
  ASSUME NEW d \in calls', Seating', Continuable',
         d.op = "drive" \/ (d.op = "cwd" /\ d.ver = version')
  PROVE  SomeoneServes'
<1>1. Serves(d)'
  BY DEF Serves, ServesNow
<1> QED
  BY <1>1 DEF SomeoneServes

LEMMA SenderServes ==
  ASSUME NEW d \in calls', d.ver = version',
         (d.op \in Work /\ Dispatching') \/ (d.op \in Judging /\ Seating')
  PROVE  SomeoneServes'
<1>1. Serves(d)'
  BY DEF Serves, ServesNow
<1> QED
  BY <1>1 DEF SomeoneServes

LEMMA ArrangeActorServed ==
  ASSUME Cared, NEW c \in calls, ArrangeActor(c), ~RowSame
  PROVE  SomeoneServes'
<1>1. StillCurrent(c) /\ PredecessorSettled
  BY DEF ArrangeActor, RowSame
<1>2. Dispatching' /\ version' = version + 1
  BY <1>1, ArrangeActorChange DEF Cared, Arranged, DispatchIs, RunsOn, Wrote, Dispatching
<1>3. \E op \in {"probe", "compact", "send"} :
        CallFor(op, version + 1, SessionOf(RoleNow), version + 1) \in calls'
  BY <1>1 DEF ArrangeActor, Resuspend
<1>4. PICK op \in {"probe", "compact", "send"} :
        CallFor(op, version + 1, SessionOf(RoleNow), version + 1) \in calls'
  BY <1>3
<1>5. PICK d \in calls' : d.op = op /\ d.ver = version + 1
  BY <1>4 DEF CallFor
<1> QED
  BY <1>2, <1>5, SenderServes DEF Work

LEMMA CompactedServed ==
  ASSUME Cared, NEW c \in calls, Compacted(c), ~RowSame
  PROVE  SomeoneServes'
<1>1. StillCurrent(c) /\ c.op = "compact" /\ cur \in WorkOrders
  BY DEF Compacted, RowSame, Cared, IInv, TypeOK
<1>2. cur.phase = "working" /\ ~cur.dispatch.pub
  BY <1>1 DEF Cared, RowInv, AllTimely, Timely, SessionInv, AllKnow, Knows, KnowsWork, Work,
     StillCurrent
<1>3. version' = version + 1 /\ cur'.phase = cur.phase /\ cur'.dispatch = cur.dispatch
  BY <1>1 DEF Compacted, Put, WorkOrders
<1>4. CallFor("send", version + 1, c.sess, c.id) \in calls'
  BY <1>1 DEF Compacted, Resuspend
<1>5. PICK d \in calls' : d.op = "send" /\ d.ver = version + 1
  BY <1>4 DEF CallFor
<1> QED
  BY <1>2, <1>3, <1>5, SenderServes DEF Work, Dispatching

\* The message was accepted before its identity is recorded: its turn is at
\* work, or the failure of its activation has been kept.
LEMMA PublishActorServed ==
  ASSUME Cared, NEW c \in calls, PublishActor(c), ~RowSame
  PROVE  SomeoneServes'
<1>1. StillCurrent(c) /\ c.op = "publish" /\ cur \in WorkOrders /\ c \in Calls
  BY CallFields DEF PublishActor, RowSame, Cared, IInv, TypeOK
<1>2. cur.phase = "working" /\ cur.dispatch # None /\ cur.dispatch.id = c.id
  BY <1>1 DEF Cared, RowInv, AllTimely, Timely, SessionInv, AllKnow, Knows, KnowsWork, Work,
     StillCurrent
<1>3. cur.dispatch \in Dispatches
  BY <1>1, <1>2, FieldTypes
<1>7. cur' = [cur EXCEPT !.dispatch = [cur.dispatch EXCEPT !.sess = c.sess, !.pub = TRUE]]
  BY <1>1 DEF PublishActor, Put, WorkOrders
<1> DEFINE e == [cur.dispatch EXCEPT !.sess = c.sess, !.pub = TRUE]
<1>8. e.id = c.id /\ e.sess = c.sess /\ e.pub
  BY <1>2, <1>3 DEF Dispatches
<1>9. cur'.phase = cur.phase /\ cur'.dispatch = e
  BY <1>1, <1>7 DEF WorkOrders
<1> HIDE DEF e
<1>4. /\ cur'.phase = "working" /\ cur'.dispatch.id = c.id /\ cur'.dispatch.sess = c.sess
      /\ cur'.dispatch.pub /\ host' = host /\ calls' = calls \ {c}
  BY <1>2, <1>8, <1>9 DEF PublishActor, Drop
<1>5. CASE Busy(c.sess, c.id)
  <2>1. PICK h \in host' : h.sess = c.sess /\ h.st # "idle" /\ c.id <= h.msg
    BY <1>4, <1>5 DEF Busy
  <2> QED
    BY <1>4, <2>1 DEF SomeoneServes, Works, Expects, Underway
<1>6. CASE Failing(c.sess, c.id)
  <2>1. PICK d \in calls' : d.op = "activationEnd" /\ d.sess = c.sess /\ d.id = c.id
    BY <1>1, <1>4, <1>6 DEF Failing
  <2> QED
    BY <1>4, <2>1 DEF SomeoneServes, Serves, MayFail, Underway
<1> QED
  BY <1>1, <1>5, <1>6 DEF Cared, CareInv, Accepting, Publishing, StillCurrent

LEMMA PublishJudgeServed ==
  ASSUME Cared, NEW c \in calls, PublishJudge(c), ~RowSame
  PROVE  SomeoneServes'
<1>1. StillCurrent(c) /\ c.op = "judgePublish" /\ cur \in WorkOrders /\ c \in Calls
  BY CallFields DEF PublishJudge, RowSame, Cared, IInv, TypeOK
<1>2. cur.judge # None /\ cur.judge.id = c.id /\ cur.judge.sess = c.sess
  BY <1>1 DEF Cared, SessionInv, AllKnow, Knows, KnowsJudge, Judging, StillCurrent
<1>3. cur.judge \in Judges /\ cur.phase = "checking"
  BY <1>1, <1>2, FieldTypes DEF Cared, RowInv, Stands, Ended, StillCurrent, WorkOrders
<1>4. cur' = [cur EXCEPT !.judge = [cur.judge EXCEPT !.pub = TRUE]]
  BY <1>1 DEF PublishJudge, Put, WorkOrders
<1> DEFINE j == [cur.judge EXCEPT !.pub = TRUE]
<1>5. j \in Judges /\ j.id = c.id /\ j.sess = c.sess /\ j.pub
  BY <1>2, <1>3 DEF Judges
<1>6. j # None
  BY <1>5, NoneAssumption
<1>7. cur'.phase = "checking" /\ cur'.judge = j
  BY <1>1, <1>3, <1>4 DEF WorkOrders
<1> HIDE DEF j
<1>8. UnderJudgment' /\ cur'.judge.id = c.id /\ cur'.judge.sess = c.sess
  BY <1>5, <1>6, <1>7 DEF UnderJudgment
<1>9. host' = host /\ calls' = calls \ {c}
  BY DEF PublishJudge, Drop
<1>10. CASE Busy(c.sess, c.id)
  <2>1. PICK h \in host' : h.sess = c.sess /\ h.st # "idle" /\ c.id <= h.msg
    BY <1>9, <1>10 DEF Busy
  <2> QED
    BY <1>8, <2>1 DEF SomeoneServes, Works, Expects
<1>11. CASE Failing(c.sess, c.id)
  <2>1. PICK d \in calls' : d.op = "activationEnd" /\ d.sess = c.sess /\ d.id = c.id
    BY <1>1, <1>9, <1>11 DEF Failing
  <2> QED
    BY <1>8, <2>1 DEF SomeoneServes, Serves, MayFail
<1> QED
  BY <1>1, <1>10, <1>11 DEF Cared, CareInv, Accepting, Publishing, StillCurrent

\* A new Judge is in the row, not yet published.
LEMMA NewJudgeSeats ==
  ASSUME Cared, NEW b, NEW s, cur.phase = "checking", cur.dispatch.settled,
         cur' = [cur EXCEPT !.retried = b, !.judge = NewJudge(cur, version + 1, s, cur.iv)]
  PROVE  Seating'
<1> DEFINE j == NewJudge(cur, version + 1, s, cur.iv)
<1>1. cur \in WorkOrders
  BY DEF Cared, IInv, TypeOK
<1>2. j.pub = FALSE
  BY DEF NewJudge
<1>4. cur' = [cur EXCEPT !.retried = b, !.judge = j]
  OBVIOUS
<1> HIDE DEF j
<1>3. cur'.phase = cur.phase /\ cur'.dispatch = cur.dispatch /\ cur'.judge = j
  BY <1>1, <1>4 DEF WorkOrders
<1> QED
  BY <1>2, <1>3 DEF Seating, UnderJudgment

LEMMA ArrangeJudgeServed ==
  ASSUME Cared, NEW c \in calls, ArrangeJudge(c), ~RowSame
  PROVE  SomeoneServes'
<1>1. StillCurrent(c) /\ c.op = "cwd" /\ cur.judge = None /\ cur \in WorkOrders
  BY DEF ArrangeJudge, RowSame, Cared, IInv, TypeOK
<1>2. cur.phase = "checking" /\ cur.dispatch.settled
  BY <1>1 DEF Cared, RowInv, AllTimely, Timely, StillCurrent
<1>3. PICK s : /\ Put("running", [cur EXCEPT !.judge = NewJudge(cur, version + 1, s, cur.iv)])
               /\ calls' = (calls \ {c}) \cup {CallFor("judgeSend", version + 1, s, version + 1)}
  BY <1>1 DEF ArrangeJudge, Resuspend
<1>4. cur' = [cur EXCEPT !.judge = NewJudge(cur, version + 1, s, cur.iv)]
      /\ version' = version + 1
  BY <1>3 DEF Put
<1>5. cur' = [cur EXCEPT !.retried = cur.retried,
                         !.judge = NewJudge(cur, version + 1, s, cur.iv)]
  BY <1>1, <1>4 DEF WorkOrders
<1>6. CallFor("judgeSend", version + 1, s, version + 1) \in calls'
  BY <1>3
<1>7. PICK d \in calls' : d.op = "judgeSend" /\ d.ver = version + 1
  BY <1>6 DEF CallFor
<1> QED
  BY <1>2, <1>4, <1>5, <1>7, NewJudgeSeats, SenderServes DEF Judging

LEMMA RejudgeServed ==
  ASSUME Cared, NEW c \in calls, JudgeRetries(c) \/ JudgeFailsOver(c), ~RowSame
  PROVE  SomeoneServes'
<1>1. StillCurrent(c) /\ c.op = "judgeProbe" /\ cur.phase = "checking" /\ UNCHANGED past
  BY DEF JudgeRetries, JudgeFailsOver, Safe
<1>2. cur.judge # None /\ cur.dispatch.settled
  BY <1>1 DEF Cared, RowInv, AllTimely, Timely, Stands, StillCurrent
<1>3. \E b, st : Rejudge(c, b, st)
  BY DEF JudgeRetries, JudgeFailsOver
<1>4. PICK b, st : Rejudge(c, b, st)
  BY <1>3
<1>5. /\ Put("running", [cur EXCEPT !.retried = b,
                           !.judge = NewJudge(cur, version + 1, version + 1, cur.iv)])
      /\ CallFor("rejudge", version + 1, version + 1, version + 1) \in calls'
  BY <1>1, <1>4 DEF Rejudge, WithNewJudge, RowSame, Resuspend
<1>6. cur' = [cur EXCEPT !.retried = b,
                !.judge = NewJudge(cur, version + 1, version + 1, cur.iv)]
      /\ version' = version + 1
  BY <1>5 DEF Put
<1>7. PICK d \in calls' : d.op = "rejudge" /\ d.ver = version + 1
  BY <1>5 DEF CallFor
<1> QED
  BY <1>1, <1>2, <1>6, <1>7, NewJudgeSeats, SenderServes DEF Judging

\* The turn that made the claim goes on, and its end will settle the dispatch.
LEMMA NodeClaimServed ==
  ASSUME Cared, NEW h \in host, NEW r, NodeClaim(h, r)
  PROVE  SomeoneServes'
<1>1. /\ cur \in WorkOrders /\ cur.phase = "working" /\ h.st = "busy" /\ host' = host
      /\ Matches(cur.dispatch, h.sess, h.msg)
  BY DEF NodeClaim, Working, Cared, IInv, TypeOK
<1>2. ~cur.dispatch.settled
  BY <1>1 DEF Cared, RowInv, Stands
<1>3. PICK k : cur' = [cur EXCEPT !.phase = "checking", !.claim = k]
  BY DEF NodeClaim, Put
<1>4. cur'.phase = "checking" /\ cur'.dispatch = cur.dispatch
  BY <1>1, <1>3 DEF WorkOrders
<1> QED
  BY <1>1, <1>2, <1>4 DEF SomeoneServes, Works, Expects, Closing, Matches

LEMMA JudgeRejectsServed ==
  ASSUME Cared, IInv', NEW h \in host, JudgeRejects(h)
  PROVE  SomeoneServes'
<1>1. cur.dispatch # None /\ past' = past
  BY DEF JudgeRejects, JudgeMaySubmit, Cared, IInv, Materials
<1>2. PredecessorSettled'
  BY <1>1, GateIsOpen DEF Cared, PredecessorSettled
<1>3. RowChange /\ cur \in WorkOrders
  BY JudgeRejectsChange DEF Cared, IInv, TypeOK
<1>4. cur'.phase = "ready"
  BY <1>3 DEF JudgeRejects, Put, WorkOrders
<1>5. Call("drive", version + 1) \in calls'
  BY DEF JudgeRejects
<1>6. PICK d \in calls' : d.op = "drive"
  BY <1>5 DEF Call, CallFor
<1> QED
  BY <1>2, <1>4, <1>6, StarterServes DEF Starting

\* The successor waits for the end of the turn that gave the verdict.
LEMMA AdvanceHandsOver ==
  ASSUME IInv, RowInv, JudgeSpeaks, NEW m, Advance(m), status' = "running"
  PROVE  HandingOver' /\ Predecessor'.judge = cur.judge
<1> DEFINE to == Target[cur.node][cur.claim.result]
<1>1. cur \in WorkOrders /\ past \in Seq(WorkOrders)
  BY DEF IInv, TypeOK
<1>2. PICK v, r : v = Verdict("ACCEPT") /\ r = ModeSpent(cur.resolution)
  OBVIOUS
<1>3. PICK left : left = [cur EXCEPT !.phase = "exited", !.prevClaim = None,
                           !.prevJudge = None, !.judgment = v, !.resolution = r]
  OBVIOUS
<1>4. left.judge = cur.judge
  BY <1>1, <1>3 DEF WorkOrders
<1>5. cur' = NewWorkOrder(to) /\ past' = Append(past, left)
  BY <1>2, <1>3 DEF Advance, Put
<1>6. Len(past') = Len(past) + 1 /\ past'[Len(past')] = left /\ past' # <<>>
  BY <1>1, <1>5
<1>7. ~cur.judge.settled
  BY DEF RowInv, Stands, JudgeSpeaks
<1>8. cur'.phase = "ready"
  BY <1>5 DEF NewWorkOrder
<1> QED
  BY <1>4, <1>6, <1>7, <1>8 DEF HandingOver, PredecessorSettled, Predecessor

LEMMA JudgeAcceptsServed ==
  ASSUME Cared, NEW h \in host, JudgeAccepts(h), ~RowSame, status' = "running"
  PROVE  SomeoneServes'
<1>1. Advance(actors) /\ host' = host
  BY DEF JudgeAccepts, rowVars, RowSame
<1>2. JudgeSpeaks /\ h.st = "busy" /\ Matches(cur.judge, h.sess, h.msg)
  BY DEF JudgeAccepts, JudgeMaySubmit, Working, Matches, JudgeSpeaks
<1>3. HandingOver' /\ Predecessor'.judge = cur.judge
  BY <1>1, <1>2, AdvanceHandsOver DEF Cared
<1> QED
  BY <1>1, <1>2, <1>3 DEF SomeoneServes, Works, Expects, Matches

\* The drain that precedes the transition is not of the Judge's own session.
LEMMA ReleasedServed ==
  ASSUME Cared, NEW c \in calls, ReleasedAndAccepted(c), ~RowSame, status' = "running"
  PROVE  SomeoneServes'
<1>1. c.op = "accept" /\ version = c.ver /\ status = "running"
  BY DEF ReleasedAndAccepted, RowSame, Advance
<1>2. JudgeSpeaks
  BY <1>1 DEF Cared, IInv, Held, Backed, Materials, RowInv, AllTimely, Timely, JudgeSpeaks
<1>3. PICK m : Advance(m)
  BY <1>1 DEF ReleasedAndAccepted
<1>4. HandingOver' /\ Predecessor'.judge = cur.judge
  BY <1>2, <1>3, AdvanceHandsOver DEF Cared
<1>5. RoleNow \in NodeScoped /\ RoleNow \in Roles
  BY <1>1, DefinitionAssumption DEF Cared, CareInv, Submitting
<1>6. PICK h \in host : /\ h.sess = cur.judge.sess /\ h.st = "busy" /\ cur.judge.id <= h.msg
  BY <1>1 DEF Cared, CareInv, Submitting
<1>7. cur.judge.sess \in Nat /\ cur.judge # None
  BY <1>2, FieldTypes DEF JudgeSpeaks, Cared, IInv, TypeOK, Judges, Sessions
<1>8. actors[RoleNow] # cur.judge.sess
  BY <1>5, <1>7 DEF Cared, SessionInv, Apart, OfActor, ActorInRow, OfJudge, JudgeInRow
<1>9. Quiesce({actors[RoleNow]})
  BY <1>1 DEF ReleasedAndAccepted
<1>10. h \in host'
  BY <1>6, <1>8, <1>9 DEF Quiesce
<1> QED
  BY <1>4, <1>6, <1>10 DEF SomeoneServes, Works, Expects

LEMMA TransferServed ==
  ASSUME Cared, NEW c \in calls, TransferSettles(c)
  PROVE  SomeoneServes'
<1>1. cur.phase = "ready" /\ cur' = cur /\ version' = version + 1 /\ SettlePredecessor
  BY DEF Cared, RowInv, AllTimely, Timely, TransferSettles, Safe, StillCurrent
<1>2. PredecessorSettled'
  BY <1>1, GateOpens DEF Cared
<1>3. Call("arrange", version + 1) \in calls'
  BY <1>1 DEF TransferSettles, Resuspend, DriveReads
<1>4. PICK d \in calls' : d.op = "arrange" /\ d.ver = version + 1
  BY <1>3 DEF Call, CallFor
<1> QED
  BY <1>1, <1>2, <1>4, StarterServes DEF Starting

LEMMA ActorSettlesServed ==
  ASSUME Cared, NEW c \in calls, ActorSettles(c)
  PROVE  SomeoneServes'
<1>1. /\ StillCurrent(c) /\ c.op = "actorProbe" /\ cur.phase = "checking" /\ cur \in WorkOrders
      /\ cur.claim # None /\ cur.dispatch # None /\ version' = version + 1
  BY DEF ActorSettles, Safe, Put, Cared, IInv, TypeOK, Materials
<1>2. ~cur.dispatch.settled
  BY <1>1 DEF Cared, SessionInv, AllKnow, Knows, Owes, StillCurrent
<1>3. cur.judge = None
  BY <1>2 DEF Cared, RowInv, Stands
<1>4. cur.dispatch \in Dispatches
  BY <1>1, FieldTypes
<1>5. PICK d : d = [cur.dispatch EXCEPT !.settled = TRUE]
  OBVIOUS
<1>6. d \in Dispatches /\ d.settled
  BY <1>4, <1>5 DEF Dispatches
<1>7. d # None
  BY <1>6, NoneAssumption
<1>8. PICK e : e = [cur EXCEPT !.dispatch = d]
  OBVIOUS
<1>9. cur' = e /\ DriveReads(e, version + 1) \subseteq calls'
  BY <1>1, <1>5, <1>8 DEF ActorSettles, Put, Resuspend, WorkOrders
<1>10. e.phase = "checking" /\ e.dispatch = d /\ e.claim = cur.claim /\ e.judge = None
  BY <1>1, <1>3, <1>8 DEF WorkOrders
<1>11. Call("cwd", version + 1) \in calls'
  BY <1>1, <1>6, <1>7, <1>9, <1>10 DEF DriveReads
<1>12. PICK k \in calls' : k.op = "cwd" /\ k.ver = version + 1
  BY <1>11 DEF Call, CallFor
<1>13. Seating' /\ Continuable'
  BY <1>6, <1>9, <1>10 DEF Seating, UnderJudgment, Continuable
<1> QED
  BY <1>1, <1>12, <1>13, SeaterServes

LEMMA ActorFailsOverServed ==
  ASSUME Cared, NEW c \in calls, ActorFailsOver(c)
  PROVE  SomeoneServes'
<1>1. cur.dispatch # None /\ past' = past /\ cur \in WorkOrders
  BY DEF ActorFailsOver, Cared, IInv, TypeOK, Materials
<1>2. PredecessorSettled'
  BY <1>1, GateIsOpen DEF Cared, PredecessorSettled
<1>3. cur'.phase = "ready"
  BY <1>1 DEF ActorFailsOver, Put, WorkOrders
<1>4. Call("drive", version + 1) \in calls'
  BY DEF ActorFailsOver, Resuspend
<1>5. PICK d \in calls' : d.op = "drive"
  BY <1>4 DEF Call, CallFor
<1> QED
  BY <1>2, <1>3, <1>5, StarterServes DEF Starting

LEMMA ResumesActorServed ==
  ASSUME Cared, NEW replace, NEW skip, ResumesActor(replace, skip)
  PROVE  SomeoneServes'
<1>1. PICK e : /\ e = ReturnToActor(cur, replace \/ skip)
               /\ cur' = e /\ version' = version + 1 /\ ThenDrive(e)
  BY DEF ResumesActor, Put
<1>2. cur \in WorkOrders
  BY DEF Cared, IInv, TypeOK
<1>3. e.phase = "ready"
  BY <1>1, <1>2 DEF ReturnToActor, WorkOrders
<1>4. PredecessorSettled'
  <2>1. CASE cur.phase = "ready" /\ ~PredecessorSettled
    <3>1. SettlePredecessor
      BY <2>1 DEF ResumesActor, Recovered
    <3> QED
      BY <3>1, GateOpens DEF Cared
  <2>2. CASE ~(cur.phase = "ready" /\ ~PredecessorSettled)
    <3>1. past' = past
      BY <2>2 DEF ResumesActor, Recovered
    <3>2. cur.phase # "ready" => cur.dispatch # None
      BY DEF ResumesActor, Cared, IInv, Materials
    <3> QED
      BY <2>2, <3>1, <3>2, GateIsOpen DEF Cared, PredecessorSettled
  <2> QED
    BY <2>1, <2>2
<1>5. Call("drive", version + 1) \in calls' \/ Call("arrange", version + 1) \in calls'
  BY <1>1, <1>3 DEF ThenDrive, DriveReads
<1>6. PICK d \in calls' : d.op = "drive" \/ (d.op = "arrange" /\ d.ver = version + 1)
  BY <1>5 DEF Call, CallFor
<1> QED
  BY <1>1, <1>3, <1>4, <1>6, StarterServes DEF Starting

\* A takeover reserves for its Judge the session that it wants continued.
LEMMA TakeoverServed ==
  ASSUME Cared, NEW mode, NEW s \in Maybe(Sessions), NEW ctx,
         cur.phase = "checking", cur.claim # None, cur.dispatch # None,
         cur' = Rejudged(cur, mode, s, version + 1, ctx), version' = version + 1,
         mode = "followup" => s # None,
         \/ Call("drive", version + 1) \in calls'
         \/ DriveReads(cur', version + 1) \subseteq calls'
  PROVE  SomeoneServes'
<1>1. cur \in WorkOrders /\ cur.dispatch \in Dispatches
  BY FieldTypes DEF Cared, IInv, TypeOK
<1>2. PICK d : d = [cur.dispatch EXCEPT !.settled = TRUE]
  OBVIOUS
<1>3. d \in Dispatches /\ d.settled
  BY <1>1, <1>2 DEF Dispatches
<1>4. d # None
  BY <1>3, NoneAssumption
<1>5. PICK pj, t : /\ pj = IF JudgmentIsCurrent(cur) /\ AskedBy(cur.judge, cur)
                           THEN cur.judge ELSE cur.prevJudge
                   /\ t = IF s = None THEN version + 1 ELSE s
  OBVIOUS
<1>6. PICK j : j = NewJudge(cur, version + 1, t, cur.iv + 1)
  OBVIOUS
<1>7. j.pub = FALSE /\ j.sess = t
  BY <1>6 DEF NewJudge
<1>8. PICK r : r = [target |-> "judge", iv |-> cur.iv + 1, ctx |-> ctx, mode |-> mode, sess |-> s]
  OBVIOUS
<1>9. cur' = [cur EXCEPT !.dispatch = d, !.prevJudge = pj, !.judge = j,
                !.retried = FALSE, !.restart = FALSE, !.iv = cur.iv + 1, !.resolution = r]
  BY <1>1, <1>2, <1>5, <1>6, <1>8 DEF Rejudged, WorkOrders
<1>10. /\ cur'.phase = "checking" /\ cur'.dispatch = d /\ cur'.claim = cur.claim
       /\ cur'.judge = j /\ cur'.resolution = r
  BY <1>1, <1>9 DEF WorkOrders
<1>11. r.mode = mode /\ r.sess = s
  BY <1>8
<1>12. Seating'
  BY <1>3, <1>7, <1>10 DEF Seating, UnderJudgment
<1>13. Continuable'
  BY <1>5, <1>7, <1>10, <1>11 DEF Continuable
<1>14. DriveReads(cur', version + 1) = {Call("cwd", version + 1)}
  BY <1>3, <1>4, <1>7, <1>10 DEF DriveReads
<1>15. Call("drive", version + 1) \in calls' \/ Call("cwd", version + 1) \in calls'
  BY <1>14
<1>16. PICK k \in calls' : k.op = "drive" \/ (k.op = "cwd" /\ k.ver = version + 1)
  BY <1>15 DEF Call, CallFor
<1> QED
  BY <1>12, <1>13, <1>16, SeaterServes

LEMMA ResumesJudgeServed ==
  ASSUME Cared, NEW mode \in {"fresh", "followup"}, ResumesJudge(mode)
  PROVE  SomeoneServes'
<1>1. /\ cur.phase = "checking" /\ cur.claim # None /\ cur.dispatch # None /\ cur \in WorkOrders
  BY DEF ResumesJudge, Cared, IInv, TypeOK
<1>2. PICK s : s = IF mode = "followup" THEN JudgeToContinue.sess ELSE None
  OBVIOUS
<1>3. PICK e : /\ e = Rejudged(cur, mode, s, version + 1, TRUE) /\ Put("running", e)
               /\ ThenDrive(e)
  BY <1>2 DEF ResumesJudge
<1>4. s \in Maybe(Sessions) /\ (mode = "followup" => s # None)
  <2>1. CASE mode = "followup"
    <3>1. JudgeToContinue # None
      BY <2>1 DEF ResumesJudge
    <3>2. JudgeToContinue \in {cur.judge, cur.prevJudge}
      BY <3>1 DEF JudgeToContinue
    <3>3. JudgeToContinue.sess \in Nat
      BY <1>1, <3>1, <3>2, FieldTypes DEF Judges, Sessions
    <3> QED
      BY <1>2, <2>1, <3>3, NoneAssumption DEF Maybe, Sessions
  <2>2. CASE mode # "followup"
    BY <1>2, <2>2 DEF Maybe
  <2> QED
    BY <2>1, <2>2
<1>5. cur' = Rejudged(cur, mode, s, version + 1, TRUE) /\ version' = version + 1 /\ cur' = e
  BY <1>3 DEF Put
<1>6. \/ Call("drive", version + 1) \in calls'
      \/ DriveReads(cur', version + 1) \subseteq calls'
  BY <1>3, <1>5 DEF ThenDrive
<1> QED
  BY <1>1, <1>4, <1>5, <1>6, TakeoverServed

LEMMA RespawnsJudgeServed ==
  ASSUME Cared, RespawnsJudge
  PROVE  SomeoneServes'
<1>1. /\ cur.phase = "checking" /\ cur.claim # None /\ cur.dispatch # None
  BY DEF RespawnsJudge, Cared, IInv, Materials
<1>2. PICK ctx : ctx = (cur.resolution # None /\ cur.resolution.ctx)
  OBVIOUS
<1>3. /\ cur' = Rejudged(cur, "fresh", None, version + 1, ctx) /\ version' = version + 1
      /\ DriveReads(cur', version + 1) \subseteq calls'
  BY <1>2 DEF RespawnsJudge, Put
<1>4. None \in Maybe(Sessions)
  BY DEF Maybe
<1> QED
  BY <1>1, <1>3, <1>4, TakeoverServed

\* Whatever action leaves a Run running with another row, someone serves it.
LEMMA OtherRowServed ==
  ASSUME Cared, Apt, IInv', [Next]_vars, ~RowSame, status' = "running"
  PROVE  SomeoneServes'
<1>1. ASSUME NEW c \in calls, Continues(c)
      PROVE  SomeoneServes'
  <2>1. ~\/ DriveStarts(c) \/ ProbeIdle(c) \/ Sent(c) \/ RejudgeSends(c) \/ TurnEndReads(c)
         \/ ProbeWaiting(c) \/ SettlesStale(c) \/ ActorSettlesNothing(c)
    BY DEF DriveStarts, ProbeIdle, Sent, RejudgeSends, TurnEndReads, ProbeWaiting, SettlesStale,
       ActorSettlesNothing, rowVars, RowSame
  <2>2. ~(DriveFaults(c) \/ ProbeUnsafe(c))
    BY DEF DriveFaults, ProbeUnsafe, BlockIfCurrent, BlockRow, Put, RowSame
  <2>3. ~(ActorEndsWithoutClaim(c) \/ JudgeEndsWithoutVerdict(c) \/ ActivationSettles(c))
    BY DEF ActorEndsWithoutClaim, JudgeEndsWithoutVerdict, ActivationSettles, BlockRow, Put,
       RowSame
  <2> QED
    BY <1>1, <2>1, <2>2, <2>3, ArrangeActorServed, CompactedServed, PublishActorServed,
       PublishJudgeServed, ArrangeJudgeServed, RejudgeServed, ReleasedServed, TransferServed,
       ActorSettlesServed, ActorFailsOverServed DEF Continues
<1>2. ASSUME NEW h \in host, Submits(h)
      PROVE  SomeoneServes'
  <2>1. ~\/ JudgeNeedsContext(h) \/ TurnEnds(h) \/ TurnWakes(h) \/ ActivationFails(h)
         \/ ActorBlocks(h)
    BY DEF JudgeNeedsContext, TurnEnds, TurnWakes, ActivationFails, ActorBlocks, BlockRow, Put,
       rowVars, RowSame
  <2> QED
    BY <1>2, <2>1, NodeClaimServed, JudgeRejectsServed, JudgeAcceptsServed DEF Submits
<1>3. CASE Commanded
  <2>1. ~(ManagerBlocks \/ RespawnFaults \/ Resets)
    BY DEF ManagerBlocks, RespawnFaults, Resets, BlockRow, Put
  <2>2. ~\E key \in Roles \cup {Judge} : SetsRoleModel(key)
    BY DEF Apt, SetsRoleModel, Command
  <2>3. ~Restarts
    BY DEF Restarts, BlockRow, Put, RowSame
  <2> QED
    BY <1>3, <2>1, <2>2, <2>3, ResumesActorServed, ResumesJudgeServed, RespawnsJudgeServed
       DEF Commanded
<1>4. ~UNCHANGED vars
  BY DEF vars, RowSame
<1> QED
  BY <1>1, <1>2, <1>3, <1>4 DEF Next

-----------------------------------------------------------------------------
(* The theorem.                                                            *)

LEMMA InitCareInv ==
  ASSUME Init
  PROVE  CareInv
<1>1. /\ status = "running" /\ version = 1 /\ past = <<>> /\ calls = {Call("arrange", 1)}
      /\ host = {} /\ cur = [NewWorkOrder(StartNode) EXCEPT !.prepared = TRUE]
  BY DEF Init
<1>2. NewWorkOrder(StartNode) \in WorkOrders
  BY NewWorkOrderType, DefinitionAssumption
<1>3. /\ cur.phase = "ready" /\ cur.dispatch = None /\ cur.claim = None /\ cur.judge = None
      /\ cur.judgment = None /\ cur.resolution = None /\ cur.restart = FALSE
  BY <1>1 DEF NewWorkOrder
<1>4. \A c \in calls : c = Call("arrange", 1)
  BY <1>1
<1>5. Call("arrange", 1).op = "arrange" /\ Call("arrange", 1).ver = 1
  BY DEF Call, CallFor
<1>6. \A c \in calls : c.op = "arrange" /\ c.ver = 1
  BY <1>4, <1>5
<1>7. OneTurn /\ LatestHandover
  BY <1>1 DEF OneTurn, LatestHandover
<1>8. Trailing /\ Probed /\ Accepting /\ Submitting
  BY <1>6 DEF Trailing, AtTurnEnd, Probed, Accepting, Publishing, Submitting
<1>9. LatestWork /\ Unjudged /\ Asked /\ Unrestarted
  BY <1>3 DEF LatestWork, Unjudged, JudgmentIsCurrent, Asked, Unrestarted
<1>10. Served
  <2>1. Starting
    BY <1>1, <1>3 DEF Starting, PredecessorSettled
  <2>2. Call("arrange", 1) \in calls /\ Serves(Call("arrange", 1))
    BY <1>1, <1>5, <2>1 DEF Serves, ServesNow
  <2> QED
    BY <2>2 DEF Served, SomeoneServes
<1> QED
  BY <1>7, <1>8, <1>9, <1>10 DEF CareInv

LEMMA CareInvStep ==
  ASSUME Apt, Cared, IInv', RowInv', SessionInv', OneHandoffAtATime', [Next]_vars
  PROVE  CareInv'
<1>1. RowChange /\ HostStep
  BY EveryChange, EveryHostStep DEF Cared
<1>2. OneTurn' /\ Unjudged' /\ Asked' /\ Unrestarted'
  BY <1>1, OneTurnStep, UnjudgedStep, AskedStep, UnrestartedStep DEF Cared, CareInv, SessionInv
<1>3. Trailing' /\ Probed'
  BY TrailingStep, ProbedStep DEF Cared, CareInv, SessionInv
<1>4. LatestWork' /\ LatestHandover'
  BY LatestWorkStep, LatestHandoverStep DEF Cared, CareInv, SessionInv
<1>5. Accepting' /\ Submitting'
  BY AcceptingStep, SubmittingStep DEF Cared, CareInv, SessionInv
<1>6. Served'
  <2>1. SUFFICES ASSUME status' = "running"
                 PROVE  SomeoneServes'
    BY DEF Served
  <2>2. CASE RowSame
    BY <2>1, <2>2, SameRowServed DEF RowSame
  <2>3. CASE ~RowSame
    BY <2>1, <2>3, OtherRowServed
  <2> QED
    BY <2>2, <2>3
<1> QED
  BY <1>2, <1>3, <1>4, <1>5, <1>6 DEF CareInv

\* Who serves the row carries the Run, in the terms of the property.
LEMMA ServedIsCarried ==
  ASSUME IInv, RowInv, Settlement, status = "running", SomeoneServes
  PROVE  Carried
<1>1. ASSUME NEW s, NEW m, Expects(s, m)
      PROVE  \/ cur.phase = "ready" /\ past # <<>> /\ Matches(past[Len(past)].judge, s, m)
                /\ ~past[Len(past)].judge.settled
             \/ cur.phase \in {"working", "checking"} /\ Matches(cur.dispatch, s, m)
                /\ ~cur.dispatch.settled
             \/ cur.phase = "checking" /\ Matches(cur.judge, s, m) /\ ~cur.judge.settled
  <2>1. CASE HandingOver /\ Predecessor.judge.sess = s /\ Predecessor.judge.id <= m
    BY <2>1, RowSays DEF HandingOver, Predecessor, Matches
  <2>2. CASE (Underway \/ Closing) /\ cur.dispatch.sess = s /\ cur.dispatch.id <= m
    BY <2>2, RowSays DEF Underway, Closing, Matches
  <2>3. CASE UnderJudgment /\ cur.judge.sess = s /\ cur.judge.id <= m
    BY <2>3, RowSays DEF UnderJudgment, Matches
  <2> QED
    BY <1>1, <2>1, <2>2, <2>3 DEF Expects
<1>2. CASE \E h \in host : Works(h)
  <2>1. PICK h \in host : h.st # "idle" /\ Expects(h.sess, h.msg)
    BY <1>2 DEF Works
  <2> QED
    BY <1>1, <2>1 DEF Carried, Awaited, Matches
<1>3. CASE \E c \in calls : Serves(c)
  <2>1. PICK c \in calls : Serves(c)
    BY <1>3
  <2>2. CASE c.op = "turnEnd"
    <3>1. Expects(c.sess, c.id)
      BY <2>1, <2>2, ServingAt
    <3> QED
      BY <1>1, <2>2, <3>1 DEF Carried, Awaited, Matches
  <2>3. CASE c.op = "activationEnd"
    <3>1. MayFail(c.sess, c.id)
      BY <2>1, <2>3, ServingAt
    <3> QED
      BY <2>3, <3>1, RowSays DEF MayFail, Underway, UnderJudgment, Carried, Awaited
  <2>4. CASE c.op = "drive"
    BY <2>4 DEF Carried
  <2>5. CASE c.op \notin {"turnEnd", "activationEnd", "drive"}
    BY <2>1, <2>5, ServingAt DEF Carried
  <2> QED
    BY <2>2, <2>3, <2>4, <2>5
<1> QED
  BY <1>2, <1>3 DEF SomeoneServes

\* A running Run is never abandoned: some handler, or some live turn, is always
\* responsible for it, whatever the order in which turns end, messages are
\* accepted, activations fail and the Manager interferes.  Two commands are
\* excepted, each for a reason that a run shows: workflow_set_role_model writes
\* the row under a handler that is still at work, and a node_resume of the Judge
\* that a restart of the Host interrupted leaves a recovery mode with which the
\* store refuses the retry of that Judge.
THEOREM SomeoneIsResponsible ==
  ASSUME "setRoleModel" \notin Commands,
         "restart" \notin Commands \/ "resumeJudge" \notin Commands
  PROVE  Spec => []NeverAbandoned
<1>1. Apt
  BY DEF Apt, OneRecovery
<1>2. Init => CareInv
  BY InitCareInv
<1>3. IInv /\ RowInv /\ SessionInv /\ OneHandoffAtATime /\ CareInv
      /\ IInv' /\ RowInv' /\ SessionInv' /\ OneHandoffAtATime' /\ [Next]_vars => CareInv'
  BY <1>1, CareInvStep DEF Cared
<1>4. IInv /\ RowInv /\ SessionInv /\ CareInv => NeverAbandoned
  BY ServedIsCarried DEF NeverAbandoned, CareInv, Served, SessionInv
<1>5. Spec => [](IInv /\ RowInv /\ SessionInv)
  BY SessionsHold
<1>6. Spec => []OneHandoffAtATime
  BY HandoffsAreSerial
<1> QED
  BY <1>2, <1>3, <1>4, <1>5, <1>6, PTL DEF Spec

-----------------------------------------------------------------------------
(* The failure of a Judge's turn.                                          *)

Recovering == Unjudged /\ Asked /\ Unrestarted

LEMMA JudgeFailureStep ==
  ASSUME OneRecovery, IInv, RowInv, Unstopped, Recovering, [Next]_vars,
         NEW c \in calls \ calls', c.op = "judgeProbe", StillCurrent(c),
         \A h \in host : h.sess = c.sess => h.st # "waiting"
  PROVE  version' > version
<1>1. version \in Nat /\ status = "running" /\ c.ver = version
  BY DEF IInv, TypeOK, StillCurrent
<1>2. SUFFICES version' = version + 1
  BY <1>1
<1>3. CASE Restarts
  BY <1>1, <1>3 DEF Restarts, Unstopped, BlockRow, Put
<1>4. CASE ~Restarts
  <2>1. Continues(c)
    BY <1>4, HandlerGoes
  <2>2. ~(ProbeWaiting(c) \/ SettlesStale(c))
    BY DEF ProbeWaiting, SettlesStale
  <2>3. \/ ProbeUnsafe(c) \/ JudgeEndsWithoutVerdict(c) \/ JudgeRetries(c) \/ JudgeFailsOver(c)
    BY <2>1, <2>2 DEF Continues, DriveStarts, ArrangeActor, ProbeIdle, Compacted, Sent,
       PublishActor, ArrangeJudge, PublishJudge, DriveFaults, ReleasedAndAccepted, TurnEndReads,
       TransferSettles, ActorSettles, ActorSettlesNothing, ActorFailsOver,
       ActorEndsWithoutClaim, RejudgeSends, ActivationSettles, Safe
  <2>4. CASE ProbeUnsafe(c) \/ JudgeEndsWithoutVerdict(c)
    BY <2>4 DEF ProbeUnsafe, BlockIfCurrent, JudgeEndsWithoutVerdict, BlockRow, Put
  <2>5. CASE JudgeRetries(c) \/ JudgeFailsOver(c)
    <3>1. cur.judge # None
      BY <1>1 DEF RowInv, AllTimely, Timely
    <3>2. \A b : ValidWorkOrder(WithNewJudge(b))
      BY <1>1, <3>1, RetryIsValid DEF Recovering, ContinuedAfterRestart, OneRecovery
    <3>3. \E b, st : Rejudge(c, b, st)
      BY <2>5 DEF JudgeRetries, JudgeFailsOver
    <3>4. PICK b, st : Rejudge(c, b, st)
      BY <3>3
    <3>5. ValidWorkOrder(WithNewJudge(b))
      BY <3>2
    <3> QED
      BY <3>4, <3>5 DEF Rejudge, Put
  <2> QED
    BY <2>3, <2>4, <2>5
<1> QED
  BY <1>3, <1>4

\* The recovery modes of a row, in every reachable state.
LEMMA RecoveryHolds == Spec => [](IInv /\ RowInv /\ SessionInv /\ Recovering)
<1>1. Init => Recovering
  BY InitCareInv DEF CareInv, Recovering
<1>2. IInv /\ IInv' /\ RowInv /\ SessionInv /\ Recovering /\ [Next]_vars => Recovering'
  BY EveryChange, UnjudgedStep, AskedStep, UnrestartedStep DEF Recovering, SessionInv
<1> QED
  BY <1>1, <1>2, SessionsHold, PTL DEF Spec

\* The turn of a Judge that fails without a verdict is answered with a write:
\* a retry, the next stage of its route or a BLOCK; unless a node_resume can
\* take up a Judge that a restart interrupted, in which case the store may
\* refuse the retry (the run judge_retry_after_restart).
THEOREM JudgeFailuresAreAnswered ==
  ASSUME "restart" \notin Commands \/ "resumeJudge" \notin Commands
  PROVE  Spec => JudgeFailureIsAnswered
<1>1. OneRecovery
  BY DEF OneRecovery
<1>2. IInv /\ RowInv /\ SessionInv /\ Recovering /\ [Next]_vars
        => \A c \in calls \ calls' :
             /\ c.op = "judgeProbe" /\ StillCurrent(c)
             /\ \A h \in host : h.sess = c.sess => h.st # "waiting"
             => version' > version
  BY <1>1, JudgeFailureStep DEF SessionInv
<1> QED
  BY <1>2, RecoveryHolds, PTL DEF Spec, JudgeFailureIsAnswered

\* Every stored row is valid under all commands; and the store accepts the row
\* with which a handler is about to replace a failed Judge, but for the one that
\* a node_resume after a restart continued in its own session: only there does
\* the recovery mode name the session that the new row gives up.
THEOREM NoRowIsRefused == Spec => []StoreAccepts
<1>1. RowInv => ValidRow
  BY DEF RowInv, ValidRow, Ended, Judged
<1>2. ASSUME IInv, RowInv, Recovering, NEW c \in calls, MayReplaceJudge(c),
             ~ContinuedAfterRestart, NEW retried \in BOOLEAN
      PROVE  ValidWorkOrder(WithNewJudge(retried))
  <2>1. status = "running" /\ c.ver = version /\ c.op = "judgeProbe"
    BY <1>2 DEF MayReplaceJudge, Safe, StillCurrent
  <2>2. cur.judge # None
    BY <1>2, <2>1 DEF RowInv, AllTimely, Timely
  <2> QED
    BY <1>2, <2>1, <2>2, RetryIsValid DEF Recovering
<1>3. IInv /\ RowInv /\ Recovering => StoreAccepts
  BY <1>1, <1>2 DEF StoreAccepts
<1> QED
  BY <1>3, RecoveryHolds, PTL

=============================================================================
