------------------------ MODULE RuntimeSessionProofs ------------------------
(***************************************************************************)
(* Theorems about the sessions that the engine works with.  A handler that  *)
(* awaits the Host remembers a session and a dispatch or Judge; meanwhile   *)
(* the row moves on, sessions are mapped, drained and abandoned, and late   *)
(* messages are delivered.  The invariant says what such a handler may still *)
(* count on, and that the sessions of Actors and of Judges never mix.       *)
(***************************************************************************)
EXTENDS RuntimeRowProofs

-----------------------------------------------------------------------------
(* The inductive invariant.                                                *)

Work    == {"probe", "compact", "send", "publish"}
Judging == {"rejudge", "judgeSend", "judgePublish"}

\* The session that receives the message of handler c.
Receiver(c) == IF c.sess = None THEN c.id ELSE c.sess

\* What handler c knows of its dispatch or Judge while its version is current.
KnowsWork(c) ==
  /\ cur.dispatch # None /\ cur.dispatch.id = c.id /\ ~cur.dispatch.pub
  /\ cur.dispatch.sess = SessionOf(RoleNow)
  /\ c.op # "publish" => c.sess = cur.dispatch.sess
  /\ c.op = "publish" => c.sess = IF cur.dispatch.sess = None THEN c.id ELSE cur.dispatch.sess
  /\ c.op \in {"probe", "compact"} => c.sess # None
KnowsJudge(c) == cur.judge # None /\ cur.judge.id = c.id /\ cur.judge.sess = c.sess
Owes(d, c) == Matches(d, c.sess, c.id) /\ ~d.settled
Knows(c) ==
  /\ c.op \in Work => KnowsWork(c)
  /\ c.op \in Judging => KnowsJudge(c)
  /\ c.op = "actorProbe" => Owes(cur.dispatch, c)
AllKnow == \A c \in calls : c.ver = version => Knows(c)

\* One handler at a time carries out a dispatch.
OneSender ==
  \A c, d \in calls :
    c.op \in Work /\ d.op \in Work /\ c.ver = version /\ d.ver = version => c = d

\* The sessions of Actors and those of Judges: in the row, and in the handlers
\* that may still send to them.
ActorInRow(x) ==
  \/ x = ManagerSession
  \/ \E r \in Roles : x = actors[r]
  \/ cur.dispatch # None /\ x \in {cur.dispatch.id, cur.dispatch.sess}
JudgeInRow(x) ==
  \/ cur.judge # None /\ x = cur.judge.sess
  \/ cur.prevJudge # None /\ x = cur.prevJudge.sess
  \/ cur.resolution # None /\ x = cur.resolution.sess
  \/ past # <<>> /\ x = past[Len(past)].judge.sess
OfActor(x) == ActorInRow(x) \/ \E c \in calls : c.op \in Work /\ x \in {c.id, c.sess}
OfJudge(x) == JudgeInRow(x) \/ \E c \in calls : c.op \in Judging /\ x = c.sess
Apart == \A x \in Nat : ~(OfActor(x) /\ OfJudge(x))

\* A Judge is always sent to a session that was reserved for it.
Seated == \A c \in calls : c.op \in Judging => c.sess # None

\* No session or message is of a version that has not been written.
Minted ==
  /\ version # 0
  /\ cur.judge # None => cur.judge.id <= version
  /\ \A x \in Nat : OfActor(x) \/ OfJudge(x) => x <= version
  /\ \A c \in calls : c.op \in Work \cup Judging => c.id <= version
  /\ \A h \in host : h.sess <= version /\ h.msg <= version
  /\ \A i \in DOMAIN past :
       past[i].dispatch # None /\ past[i].dispatch.sess # None
         => past[i].dispatch.sess <= version

\* What the row says of its sessions.
Settlement ==
  /\ cur.dispatch # None /\ cur.dispatch.settled => cur.dispatch.pub
  /\ cur.dispatch # None /\ cur.dispatch.pub => cur.dispatch.sess # None
  /\ cur.resolution # None /\ cur.resolution.target = "judge" => cur.judge # None

\* The session of a published dispatch is the mapped one, and when the dispatch
\* has settled, or its Role has been unmapped, no current work goes on in it.
ActorQuiet ==
  cur.dispatch # None /\ cur.dispatch.pub /\ RoleNow # Manager =>
    /\ actors[RoleNow] \in {None, cur.dispatch.sess}
    /\ cur.dispatch.settled \/ actors[RoleNow] = None => Quiet(cur.dispatch.sess)

\* The session that is about to get the next message has closed the last one.
SenderQuiet ==
  \A c \in calls :
    /\ c.ver = version /\ c.op \in {"compact", "send"}
    /\ c.sess \notin {None, ManagerSession}
    => Quiet(c.sess)

\* Nothing later than the Judge's own message is sent to its session; and in
\* one that a resume continues, nothing earlier is still being worked on.
LatestJudge ==
  cur.judge # None =>
    /\ \A h \in host : h.sess = cur.judge.sess => h.msg <= cur.judge.id
    /\ \A c \in calls : c.op \in Judging /\ c.sess = cur.judge.sess => c.id <= cur.judge.id
JudgeQuiet ==
  cur.judge # None /\ cur.resolution # None /\ cur.resolution.mode = "followup" =>
    \A h \in host :
      h.sess = cur.judge.sess /\ ~h.late /\ h.msg < cur.judge.id => h.st = "idle"

\* A mapped session is its Role's own.
OwnSessions ==
  \A r \in Roles : actors[r] # None =>
    /\ actors[r] # ManagerSession
    /\ \A q \in Roles : actors[q] = actors[r] => q = r
    /\ cur.dispatch # None /\ r # RoleNow => cur.dispatch.sess # actors[r]

\* What an earlier work order was dispatched to is not mapped to a Role with
\* reuse: node, nor reserved by its dispatch, nor is it one that a dispatch
\* with no session yet may be given.
UsedBefore(x) == \E i \in DOMAIN past : past[i].dispatch.sess = x
FreshSessions ==
  /\ \A r \in NodeScoped : actors[r] # None => ~UsedBefore(actors[r])
  /\ cur.dispatch # None /\ RoleNow \in NodeScoped /\ cur.dispatch.sess # None
       => ~UsedBefore(cur.dispatch.sess)
  /\ cur.dispatch # None /\ cur.dispatch.sess = None =>
       /\ ~UsedBefore(cur.dispatch.id) /\ cur.dispatch.id # ManagerSession
       /\ \A r \in Roles : actors[r] # cur.dispatch.id

\* A restart leaves no Run running; and, where workflow_set_role_model does not
\* interfere, the handler of what a running Run waits for is always current.
Unstopped == status = "running" => ~cur.restart
Carrying ==
  "setRoleModel" \notin Commands /\ status = "running" =>
    \A c \in calls :
      /\ c.op \in Work /\ cur.phase = "working" /\ cur.dispatch.id = c.id => c.ver = version
      /\ c.op \in Judging /\ cur.judge # None /\ cur.judge.id = c.id /\ ~cur.judge.pub
           => c.ver = version

-----------------------------------------------------------------------------
(* How a step changes the sessions mapped to the Roles.                    *)

Unmapped(r) == actors' = [actors EXCEPT ![r] = None]
MappingChange ==
  \/ actors' = actors
  \/ \E c \in calls : PublishActor(c) /\ StillCurrent(c)
  \/ /\ version' = version + 1
     /\ \E r \in Roles :
          /\ Unmapped(r)
          /\ r = RoleNow =>
               actors[r] = None \/ Idle(actors[r]) \/ ProbedIdle \/ JudgeSpeaks

LEMMA AdvanceMapping ==
  ASSUME IInv, RowInv, NEW m, Advance(m)
  PROVE  actors' = m /\ version' = version + 1
BY DEF Advance, Put

LEMMA ContinuesMapping ==
  ASSUME IInv, RowInv, NEW c \in calls, Continues(c)
  PROVE  MappingChange
<1>1. CASE \/ DriveStarts(c) \/ ArrangeActor(c) \/ ProbeIdle(c) \/ Compacted(c) \/ Sent(c)
           \/ ArrangeJudge(c) \/ PublishJudge(c) \/ DriveFaults(c)
  BY <1>1 DEF DriveStarts, ArrangeActor, ProbeIdle, Compacted, Sent, ArrangeJudge,
     PublishJudge, DriveFaults, rowVars, MappingChange
<1>2. CASE \/ TurnEndReads(c) \/ ProbeUnsafe(c) \/ ProbeWaiting(c) \/ SettlesStale(c)
           \/ TransferSettles(c) \/ ActorSettles(c) \/ ActorSettlesNothing(c)
           \/ ActorEndsWithoutClaim(c) \/ JudgeRetries(c) \/ JudgeFailsOver(c)
           \/ RejudgeSends(c) \/ JudgeEndsWithoutVerdict(c) \/ ActivationSettles(c)
  BY <1>2 DEF TurnEndReads, ProbeUnsafe, ProbeWaiting, SettlesStale, TransferSettles,
     ActorSettles, ActorSettlesNothing, ActorEndsWithoutClaim, JudgeRetries, JudgeFailsOver,
     RejudgeSends, JudgeEndsWithoutVerdict, ActivationSettles, rowVars, MappingChange
<1>3. CASE PublishActor(c)
  BY <1>3 DEF PublishActor, MappingChange
<1>4. CASE ActorFailsOver(c)
  <2>1. RoleNow \in Roles
    BY <1>4, RoleType DEF IInv, ActorFailsOver
  <2>2. version' = version + 1 /\ Unmapped(RoleNow) /\ ProbedIdle
    BY <1>4 DEF ActorFailsOver, Put, Unmapped, Safe, ProbedIdle
  <2> QED
    BY <2>1, <2>2 DEF MappingChange
<1>5. CASE ReleasedAndAccepted(c)
  <2>1. CASE version = c.ver /\ status = "running"
    <3>1. JudgeSpeaks
      BY <1>5, <2>1 DEF IInv, Held, Backed, Materials, RowInv, AllTimely, Timely,
                        ReleasedAndAccepted, JudgeSpeaks
    <3>2. Advance([actors EXCEPT ![RoleNow] = None])
      BY <1>5, <2>1 DEF ReleasedAndAccepted
    <3>3. actors' = [actors EXCEPT ![RoleNow] = None] /\ version' = version + 1
      BY <3>2, AdvanceMapping
    <3>4. RoleNow \in Roles \/ actors' = actors
      BY <3>3, RoleType, DefinitionAssumption DEF IInv, TypeOK
    <3> QED
      BY <3>1, <3>3, <3>4 DEF Unmapped, MappingChange
  <2>2. CASE ~(version = c.ver /\ status = "running")
    BY <1>5, <2>2 DEF ReleasedAndAccepted, MappingChange
  <2> QED
    BY <2>1, <2>2
<1> QED
  BY <1>1, <1>2, <1>3, <1>4, <1>5 DEF Continues

LEMMA EveryMapping ==
  ASSUME IInv, RowInv, [Next]_vars
  PROVE  MappingChange
<1>1. CASE \E c \in calls : Continues(c)
  BY <1>1, ContinuesMapping
<1>2. CASE \E h \in host : Submits(h)
  <2>1. PICK h \in host : Submits(h)
    BY <1>2
  <2>2. CASE JudgeAccepts(h)
    BY <2>2, AdvanceMapping DEF JudgeAccepts, rowVars, MappingChange
  <2>3. CASE ~JudgeAccepts(h)
    BY <2>1, <2>3 DEF Submits, NodeClaim, JudgeRejects, JudgeNeedsContext, TurnEnds, TurnWakes,
       ActivationFails, ActorBlocks, rowVars, MappingChange
  <2> QED
    BY <2>2, <2>3
<1>3. CASE \E replace, skip \in BOOLEAN : ResumesActor(replace, skip)
  <2>1. PICK replace \in BOOLEAN, skip \in BOOLEAN : ResumesActor(replace, skip)
    BY <1>3
  <2>2. CASE replace
    <3>1. RoleNow \in Roles /\ actors[RoleNow] # None
      BY <2>1, <2>2, RoleType DEF IInv, ResumesActor
    <3>2. RoleIsIdle /\ version' = version + 1 /\ Unmapped(RoleNow)
      BY <2>1, <2>2 DEF ResumesActor, Put, Unmapped
    <3>3. Idle(actors[RoleNow])
      BY <3>1, <3>2, DefinitionAssumption DEF RoleIsIdle, SessionOf
    <3> QED
      BY <3>1, <3>2, <3>3 DEF MappingChange
  <2>3. CASE ~replace
    BY <2>1, <2>3 DEF ResumesActor, MappingChange
  <2> QED
    BY <2>2, <2>3
<1>4. CASE \E key \in Roles \cup {Judge} : SetsRoleModel(key)
  <2>1. PICK key \in Roles \cup {Judge} : SetsRoleModel(key)
    BY <1>4
  <2>2. CASE key = Judge
    BY <2>1, <2>2 DEF SetsRoleModel, MappingChange
  <2>3. CASE key # Judge
    <3>1. version' = version + 1 /\ Unmapped(key) /\ (actors[key] # None => Idle(actors[key]))
      BY <2>1, <2>3 DEF SetsRoleModel, Put, Unmapped
    <3> QED
      BY <2>3, <3>1 DEF MappingChange
  <2> QED
    BY <2>2, <2>3
<1>5. CASE \/ ManagerBlocks \/ \E mode \in {"fresh", "followup"} : ResumesJudge(mode)
           \/ RespawnsJudge \/ RespawnFaults \/ Resets \/ Restarts
  BY <1>5 DEF ManagerBlocks, ResumesJudge, RespawnsJudge, RespawnFaults, Resets, Restarts,
     MappingChange
<1>6. CASE UNCHANGED vars
  BY <1>6 DEF vars, rowVars, MappingChange
<1> QED
  BY <1>1, <1>2, <1>3, <1>4, <1>5, <1>6 DEF Next, Commanded

-----------------------------------------------------------------------------
(* How a step changes the sessions of the Host.                            *)

\* h goes on from g: no message is added, and no idle session is woken.
Resembles(h, g) ==
  g.sess = h.sess /\ g.msg = h.msg /\ g.late = h.late /\ (h.st # "idle" => g.st # "idle")
Calm == \A h \in host' : \E g \in host : Resembles(h, g)
HostChange == Calm \/ \E c \in calls : Sent(c)

LEMMA CalmHost ==
  ASSUME IInv, \/ UNCHANGED host
               \/ \E S : Quiesce(S)
               \/ \E h \in host : h.st # "idle" /\ \E st : SetTurn(h, st)
  PROVE  Calm
<1>1. host \subseteq Turns
  BY DEF IInv, TypeOK
<1>2. CASE UNCHANGED host
  BY <1>2 DEF Calm, Resembles
<1>3. CASE \E S : Quiesce(S)
  <2>1. PICK S : host' = {IF h.sess \in S THEN [h EXCEPT !.st = "idle"] ELSE h : h \in host}
    BY <1>3 DEF Quiesce
  <2>2. ASSUME NEW g \in host
        PROVE  Resembles(IF g.sess \in S THEN [g EXCEPT !.st = "idle"] ELSE g, g)
    BY <1>1 DEF Resembles, Turns
  <2> QED
    BY <2>1, <2>2 DEF Calm
<1>4. CASE \E h \in host : h.st # "idle" /\ \E st : SetTurn(h, st)
  <2>1. PICK h \in host : h.st # "idle" /\ \E st : SetTurn(h, st)
    BY <1>4
  <2>2. PICK st : SetTurn(h, st)
    BY <2>1
  <2>3. Resembles([h EXCEPT !.st = st], h)
    BY <1>1, <2>1 DEF Resembles, Turns
  <2> QED
    BY <2>2, <2>3 DEF SetTurn, Calm, Resembles
<1> QED
  BY <1>2, <1>3, <1>4

LEMMA EveryHost ==
  ASSUME IInv, [Next]_vars
  PROVE  HostChange
<1>1. ASSUME NEW c \in calls, Continues(c)
      PROVE  HostChange
  <2>1. CASE Sent(c)
    BY <2>1 DEF HostChange
  <2>2. CASE ReleasedAndAccepted(c)
    BY <2>2, CalmHost DEF ReleasedAndAccepted, HostChange
  <2>3. CASE ~(Sent(c) \/ ReleasedAndAccepted(c))
    <3>1. UNCHANGED host
      BY <1>1, <2>3 DEF Continues, DriveStarts, ArrangeActor, ProbeIdle, Compacted, PublishActor,
         ArrangeJudge, PublishJudge, DriveFaults, TurnEndReads, ProbeUnsafe, ProbeWaiting,
         SettlesStale, TransferSettles, ActorSettles, ActorSettlesNothing, ActorFailsOver,
         ActorEndsWithoutClaim, JudgeRetries, JudgeFailsOver, RejudgeSends,
         JudgeEndsWithoutVerdict, ActivationSettles
    <3> QED
      BY <3>1, CalmHost DEF HostChange
  <2> QED
    BY <2>1, <2>2, <2>3
<1>2. ASSUME NEW h \in host, Submits(h)
      PROVE  HostChange
  <2>1. CASE TurnEnds(h) \/ TurnWakes(h) \/ ActivationFails(h)
    <3>1. \E st : SetTurn(h, st) /\ h.st # "idle"
      BY <2>1 DEF TurnEnds, TurnWakes, ActivationFails, Working
    <3> QED
      BY <3>1, CalmHost DEF HostChange
  <2>2. CASE ~(TurnEnds(h) \/ TurnWakes(h) \/ ActivationFails(h))
    <3>1. UNCHANGED host
      BY <1>2, <2>2 DEF Submits, NodeClaim, JudgeRejects, JudgeNeedsContext, JudgeAccepts,
         ActorBlocks
    <3> QED
      BY <3>1, CalmHost DEF HostChange
  <2> QED
    BY <2>1, <2>2
<1>3. CASE Commanded
  <2>1. CASE Restarts
    <3>1. host' = {[h EXCEPT !.st = "idle"] : h \in host}
      BY <2>1 DEF Restarts
    <3>2. \A h \in host : Resembles([h EXCEPT !.st = "idle"], h)
      BY DEF IInv, TypeOK, Turns, Resembles
    <3> QED
      BY <3>1, <3>2 DEF HostChange, Calm
  <2>2. CASE ~Restarts
    <3>1. UNCHANGED host \/ \E S : Quiesce(S)
      BY <1>3, <2>2 DEF Commanded, ManagerBlocks, ResumesActor, ResumesJudge, RespawnsJudge,
         RespawnFaults, SetsRoleModel, Resets
    <3> QED
      BY <3>1, CalmHost DEF HostChange
  <2> QED
    BY <2>1, <2>2
<1>4. CASE UNCHANGED vars
  BY <1>4, CalmHost DEF vars, HostChange
<1> QED
  BY <1>1, <1>2, <1>3, <1>4 DEF Next

\* What a delivery does to the session of its receiver.
LEMMA Delivered ==
  ASSUME IInv, NEW c \in calls, Sent(c)
  PROVE  /\ UNCHANGED rowVars
         /\ \A h \in host' :
              \/ h \in host /\ h.sess # Receiver(c)
              \/ /\ h.sess = Receiver(c) /\ h.late = ~StillCurrent(c) /\ h.st = "busy"
                 /\ \/ h.msg = c.id
                    \/ \E g \in host : g.sess = h.sess /\ g.msg = h.msg /\ c.id < g.msg
<1> DEFINE s      == Receiver(c)
           before == {h \in host : h.sess = s /\ h.msg > c.id}
           last   == IF before = {} THEN c.id ELSE (CHOOSE h \in before : TRUE).msg
           turn   == [sess |-> s, msg |-> last, st |-> "busy", late |-> ~StillCurrent(c)]
<1>1. host' = {h \in host : h.sess # s} \cup {turn}
  BY DEF Sent, Deliver, Receiver
<1>2. \/ last = c.id
      \/ \E g \in host : g.sess = s /\ g.msg = last /\ c.id < g.msg
  <2>1. CASE before = {}
    BY <2>1
  <2>2. CASE before # {}
    <3>1. (CHOOSE h \in before : TRUE) \in before
      BY <2>2
    <3>2. PICK g \in before : last = g.msg
      BY <2>2, <3>1
    <3>3. g \in host /\ g.sess = s /\ g.msg > c.id /\ g.msg \in Nat /\ c.id \in Nat
      BY <3>2, TurnFields, CallFields DEF IInv
    <3> QED
      BY <3>2, <3>3
  <2> QED
    BY <2>1, <2>2
<1>3. turn.sess = s /\ turn.msg = last /\ turn.st = "busy" /\ turn.late = ~StillCurrent(c)
  OBVIOUS
<1> HIDE DEF s, last, turn, before
<1>4. s = Receiver(c)
  BY DEF s
<1> QED
  BY <1>1, <1>2, <1>3, <1>4 DEF Sent

-----------------------------------------------------------------------------
(* How a step changes the handlers.                                        *)

\* Handlers that are neither at a dispatch nor at a Judge.
Aside == {"drive", "arrange", "cwd", "turnEnd", "activationEnd", "accept"}
Probes == {"transferProbe", "actorProbe", "judgeProbe"}

RowKept == UNCHANGED rowVars

\* The handler that goes on from c after the step, if it is at a dispatch or a
\* Judge, or is the probe of a session whose turn has ended.
ArrangeGoes(c, d) ==
  /\ StillCurrent(c) /\ Arranged /\ UNCHANGED <<actors, host>>
  /\ d.op \in {"probe", "compact", "send"}
  /\ d.ver = version + 1 /\ d.id = version + 1 /\ d.sess = SessionOf(RoleNow)
  /\ d.op \in {"probe", "compact"} => d.sess # None
  /\ d.op # "probe" /\ d.sess \notin {None, ManagerSession}
       => RoleNow # Manager /\ cur.dispatch # None /\ cur.dispatch.settled
ProbeGoes(c, d) ==
  /\ c.op = "probe" /\ StillCurrent(c) /\ Idle(c.sess)
  /\ RowKept /\ UNCHANGED host
  /\ d.op \in {"compact", "send"} /\ d.ver = c.ver /\ d.id = c.id /\ d.sess = c.sess
CompactGoes(c, d) ==
  /\ c.op = "compact" /\ StillCurrent(c) /\ version' = version + 1
  /\ cur'.phase = cur.phase /\ cur'.node = cur.node /\ cur'.dispatch = cur.dispatch
  /\ UNCHANGED <<actors, host>>
  /\ d.op = "send" /\ d.ver = version + 1 /\ d.id = c.id /\ d.sess = c.sess
SentGoes(c, d) ==
  /\ Sent(c) /\ d.op = (IF c.op = "send" THEN "publish" ELSE "judgePublish")
  /\ d.ver = c.ver /\ d.id = c.id /\ d.sess = Receiver(c)
JudgeGoes(c, d) ==
  /\ c.op \in {"cwd", "judgeProbe"} /\ d.op \in {"judgeSend", "rejudge"}
  /\ d.ver = version' /\ cur'.judge # None
  /\ d.id = cur'.judge.id /\ d.sess = cur'.judge.sess
RejudgeGoes(c, d) ==
  /\ c.op = "rejudge" /\ RowKept /\ UNCHANGED host
  /\ d.op = "judgeSend" /\ d.ver = c.ver /\ d.id = c.id /\ d.sess = c.sess
TurnEndGoes(c, d) ==
  /\ c.op = "turnEnd" /\ RowKept
  /\ d.op \in Probes /\ d.ver = version /\ d.id = c.id /\ d.sess = c.sess
  /\ d.op = "actorProbe" => Owes(cur.dispatch, d)
  /\ d.op = "judgeProbe" => Owes(cur.judge, d)
GoesOn(c, d) ==
  \/ ArrangeGoes(c, d) \/ ProbeGoes(c, d) \/ CompactGoes(c, d) \/ SentGoes(c, d)
  \/ JudgeGoes(c, d) \/ RejudgeGoes(c, d) \/ TurnEndGoes(c, d)

CallsChange ==
  \/ \A d \in calls' : d \in calls \/ d.op \in Aside
  \/ \E c \in calls : \E d \in Calls : GoesOn(c, d) /\ calls' = (calls \ {c}) \cup {d}

LEMMA ArrangeCalls ==
  ASSUME IInv, IInv', RowInv, NEW c \in calls, ArrangeActor(c)
  PROVE  CallsChange
<1>1. CASE StillCurrent(c) /\ PredecessorSettled
  <2> DEFINE s       == SessionOf(RoleNow)
             reused  == RoleNow # Manager /\ s # None
             closed  == cur.dispatch # None /\ cur.dispatch.settled
             compact == ~cur.prepared /\ RoleNow \notin CompactOff
             next    == IF reused /\ ~closed THEN "probe"
                        ELSE IF reused /\ compact THEN "compact" ELSE "send"
  <2>1. PICK d : /\ d = CallFor(next, version + 1, s, version + 1)
                 /\ calls' = (calls \ {c}) \cup {d}
    BY <1>1 DEF ArrangeActor, Resuspend
  <2>2. /\ d.op = next /\ d.ver = version + 1 /\ d.id = version + 1 /\ d.sess = s
    BY <2>1 DEF CallFor
  <2>3. d \in Calls
    BY <2>1 DEF IInv, TypeOK
  <2>4. /\ next \in {"probe", "compact", "send"}
        /\ next \in {"probe", "compact"} => s # None
        /\ next # "probe" /\ s \notin {None, ManagerSession} => RoleNow # Manager /\ closed
    BY DEF SessionOf
  <2>5. Arranged /\ UNCHANGED <<actors, host>>
    BY <1>1, ArrangeActorChange DEF ArrangeActor
  <2> HIDE DEF next, s
  <2>6. s = SessionOf(RoleNow)
    BY DEF s
  <2>7. ArrangeGoes(c, d)
    BY <1>1, <2>2, <2>4, <2>5, <2>6 DEF ArrangeGoes
  <2> QED
    BY <2>1, <2>3, <2>7 DEF CallsChange, GoesOn
<1>2. CASE ~(StillCurrent(c) /\ PredecessorSettled)
  BY <1>2 DEF ArrangeActor, Drop, CallsChange
<1> QED
  BY <1>1, <1>2

LEMMA SendCalls ==
  ASSUME IInv, IInv', NEW c \in calls, ProbeIdle(c) \/ Compacted(c) \/ Sent(c) \/ RejudgeSends(c)
  PROVE  CallsChange
<1>1. cur \in WorkOrders /\ c \in Calls /\ version \in Nat
  BY CallFields DEF IInv, TypeOK
<1>2. CASE ProbeIdle(c)
  <2>1. CASE StillCurrent(c)
    <3>1. PICK op \in {"send", "compact"} : calls' = (calls \ {c}) \cup {[c EXCEPT !.op = op]}
      BY <1>2, <2>1 DEF ProbeIdle, Resuspend
    <3>2. PICK d : d = [c EXCEPT !.op = op]
      OBVIOUS
    <3>3. d.op = op /\ d.ver = c.ver /\ d.id = c.id /\ d.sess = c.sess
      BY <1>1, <3>2 DEF Calls
    <3>4. d \in Calls
      BY <3>1, <3>2 DEF IInv, TypeOK
    <3>5. ProbeGoes(c, d)
      BY <1>2, <2>1, <3>3 DEF ProbeIdle, ProbeGoes, RowKept
    <3> QED
      BY <3>1, <3>2, <3>4, <3>5 DEF CallsChange, GoesOn
  <2>2. CASE ~StillCurrent(c)
    BY <1>2, <2>2 DEF ProbeIdle, Drop, CallsChange
  <2> QED
    BY <2>1, <2>2
<1>3. CASE Compacted(c)
  <2>1. CASE StillCurrent(c)
    <3>1. PICK d : /\ d = CallFor("send", version + 1, c.sess, c.id)
                   /\ calls' = (calls \ {c}) \cup {d}
      BY <1>3, <2>1 DEF Compacted, Resuspend
    <3>2. d.op = "send" /\ d.ver = version + 1 /\ d.id = c.id /\ d.sess = c.sess
      BY <3>1 DEF CallFor
    <3>3. cur' = [cur EXCEPT !.prepared = TRUE] /\ version' = version + 1
      BY <1>3, <2>1 DEF Compacted, Put
    <3>4. cur'.phase = cur.phase /\ cur'.node = cur.node /\ cur'.dispatch = cur.dispatch
      BY <1>1, <3>3 DEF WorkOrders
    <3>5. CompactGoes(c, d)
      BY <1>3, <2>1, <3>2, <3>3, <3>4 DEF Compacted, CompactGoes
    <3>6. d \in Calls
      BY <3>1 DEF IInv, TypeOK
    <3> QED
      BY <3>1, <3>5, <3>6 DEF CallsChange, GoesOn
  <2>2. CASE ~StillCurrent(c)
    BY <1>3, <2>2 DEF Compacted, Drop, CallsChange
  <2> QED
    BY <2>1, <2>2
<1>4. CASE Sent(c)
  <2>1. PICK op, s : /\ calls' = (calls \ {c}) \cup {[c EXCEPT !.sess = s, !.op = op]}
                     /\ op = IF c.op = "send" THEN "publish" ELSE "judgePublish"
                     /\ s = Receiver(c)
    BY <1>4 DEF Sent, Resuspend, Receiver
  <2>2. PICK d : d = [c EXCEPT !.sess = s, !.op = op]
    OBVIOUS
  <2>3. d.op = op /\ d.ver = c.ver /\ d.id = c.id /\ d.sess = s
    BY <1>1, <2>2 DEF Calls
  <2>4. d \in Calls
    BY <2>1, <2>2 DEF IInv, TypeOK
  <2>5. SentGoes(c, d)
    BY <1>4, <2>1, <2>3 DEF SentGoes
  <2> QED
    BY <2>1, <2>2, <2>4, <2>5 DEF CallsChange, GoesOn
<1>5. CASE RejudgeSends(c)
  <2>1. CASE StillCurrent(c)
    <3>1. PICK d : d = [c EXCEPT !.op = "judgeSend"] /\ calls' = (calls \ {c}) \cup {d}
      BY <1>5, <2>1 DEF RejudgeSends, Resuspend
    <3>2. d.op = "judgeSend" /\ d.ver = c.ver /\ d.id = c.id /\ d.sess = c.sess
      BY <1>1, <3>1 DEF Calls
    <3>3. d \in Calls
      BY <3>1 DEF IInv, TypeOK
    <3>4. RejudgeGoes(c, d)
      BY <1>5, <3>2 DEF RejudgeSends, RejudgeGoes, RowKept
    <3> QED
      BY <3>1, <3>3, <3>4 DEF CallsChange, GoesOn
  <2>2. CASE ~StillCurrent(c)
    BY <1>5, <2>2 DEF RejudgeSends, Resuspend, CallsChange
  <2> QED
    BY <2>1, <2>2
<1> QED
  BY <1>2, <1>3, <1>4, <1>5

LEMMA JudgeCalls ==
  ASSUME IInv, IInv', RowInv, NEW c \in calls, ArrangeJudge(c) \/ JudgeRetries(c) \/ JudgeFailsOver(c)
  PROVE  CallsChange
<1>1. cur \in WorkOrders /\ c \in Calls /\ version \in Nat
  BY CallFields DEF IInv, TypeOK
<1>2. CASE ArrangeJudge(c)
  <2>1. CASE ~StillCurrent(c)
    BY <1>2, <2>1 DEF ArrangeJudge, Drop, CallsChange
  <2>2. CASE StillCurrent(c) /\ cur.judge = None
    <3>1. PICK s : /\ calls' = (calls \ {c})
                        \cup {CallFor("judgeSend", version + 1, s, version + 1)}
                   /\ version' = version + 1
                   /\ cur' = [cur EXCEPT !.judge = NewJudge(cur, version + 1, s, cur.iv)]
      BY <1>2, <2>2 DEF ArrangeJudge, Resuspend, Put
    <3>2. PICK d : d = CallFor("judgeSend", version + 1, s, version + 1)
      OBVIOUS
    <3>3. d.op = "judgeSend" /\ d.ver = version + 1 /\ d.id = version + 1 /\ d.sess = s
      BY <3>2 DEF CallFor
    <3>4. d \in Calls
      BY <3>1, <3>2 DEF IInv, TypeOK
    <3>5. cur'.judge = NewJudge(cur, version + 1, s, cur.iv)
      BY <1>1, <3>1 DEF WorkOrders
    <3>6. cur'.judge.id = version + 1 /\ cur'.judge.sess = s
      BY <3>5 DEF NewJudge
    <3>7. cur'.judge # None
      <4>1. Backed(d)'
        BY <3>1, <3>2, <3>3 DEF IInv, Held
      <4> QED
        BY <3>3, <4>1 DEF Backed
    <3>8. JudgeGoes(c, d)
      BY <1>2, <3>1, <3>3, <3>6, <3>7 DEF JudgeGoes, ArrangeJudge
    <3> QED
      BY <3>1, <3>2, <3>4, <3>8 DEF CallsChange, GoesOn
  <2>3. CASE StillCurrent(c) /\ cur.judge # None
    <3>1. /\ \/ calls' = (calls \ {c}) \cup {}
             \/ calls' = (calls \ {c}) \cup
                  {[c EXCEPT !.op = "judgeSend", !.sess = cur.judge.sess, !.id = cur.judge.id]}
          /\ UNCHANGED <<cur, version>>
      BY <1>2, <2>3 DEF ArrangeJudge, Resuspend
    <3>2. PICK d : d = [c EXCEPT !.op = "judgeSend", !.sess = cur.judge.sess, !.id = cur.judge.id]
      OBVIOUS
    <3>3. /\ d.op = "judgeSend" /\ d.ver = c.ver
          /\ d.id = cur.judge.id /\ d.sess = cur.judge.sess
      BY <1>1, <3>2 DEF Calls
    <3>4. CASE calls' = (calls \ {c}) \cup {}
      BY <3>4 DEF CallsChange
    <3>5. CASE calls' = (calls \ {c}) \cup {d}
      <4>1. d \in Calls
        BY <3>5 DEF IInv, TypeOK
      <4>2. JudgeGoes(c, d)
        BY <1>2, <2>3, <3>1, <3>3 DEF JudgeGoes, ArrangeJudge, StillCurrent
      <4> QED
        BY <3>5, <4>1, <4>2 DEF CallsChange, GoesOn
    <3> QED
      BY <3>1, <3>2, <3>4, <3>5
  <2> QED
    BY <2>1, <2>2, <2>3
<1>3. CASE JudgeRetries(c) \/ JudgeFailsOver(c)
  <2>1. PICK b, st : Rejudge(c, b, st) /\ c.op = "judgeProbe"
    BY <1>3 DEF JudgeRetries, JudgeFailsOver, Safe
  <2>2. CASE calls' = calls \ {c}
    BY <2>2 DEF CallsChange
  <2>3. CASE calls' # calls \ {c}
    <3> DEFINE e == [cur EXCEPT !.retried = b,
                       !.judge = NewJudge(cur, version + 1, version + 1, cur.iv)]
    <3>1. /\ cur' = e /\ version' = version + 1
          /\ calls' = (calls \ {c}) \cup
               {CallFor("rejudge", version + 1, version + 1, version + 1)}
      BY <2>1, <2>3 DEF Rejudge, WithNewJudge, Put, Resuspend, Drop
    <3>2. PICK d : d = CallFor("rejudge", version + 1, version + 1, version + 1)
      OBVIOUS
    <3>3. /\ d.op = "rejudge" /\ d.ver = version + 1 /\ d.id = version + 1
          /\ d.sess = version + 1
      BY <3>2 DEF CallFor
    <3>4. d \in Calls
      BY <3>1, <3>2 DEF IInv, TypeOK
    <3>5. e.judge = NewJudge(cur, version + 1, version + 1, cur.iv)
      BY <1>1 DEF WorkOrders
    <3>6. cur'.judge.id = version + 1 /\ cur'.judge.sess = version + 1
      BY <3>1, <3>5 DEF NewJudge
    <3>7. Backed(d)'
      BY <3>1, <3>2, <3>3 DEF IInv, Held
    <3>8. JudgeGoes(c, d)
      BY <2>1, <3>1, <3>3, <3>6, <3>7 DEF JudgeGoes, Backed
    <3> QED
      BY <3>1, <3>2, <3>4, <3>8 DEF CallsChange, GoesOn
  <2> QED
    BY <2>2, <2>3
<1> QED
  BY <1>2, <1>3

LEMMA TurnEndCalls ==
  ASSUME IInv, IInv', NEW c \in calls, TurnEndReads(c)
  PROVE  CallsChange
<1>1. c \in Calls /\ c.op = "turnEnd" /\ RowKept
  BY CallFields DEF IInv, TurnEndReads, RowKept
<1>2. \/ calls' = calls \ {c}
      \/ \E op \in Probes :
           /\ calls' = (calls \ {c}) \cup {[c EXCEPT !.op = op, !.ver = version]}
           /\ op = "actorProbe" => Owes(cur.dispatch, c)
           /\ op = "judgeProbe" => Owes(cur.judge, c)
  <2>1. CASE status # "running"
    BY <2>1 DEF TurnEndReads, Resuspend
  <2>2. CASE status = "running" /\ cur.phase = "ready" /\ past # <<>>
    BY <2>2 DEF TurnEndReads, Resuspend, Probes
  <2>3. CASE status = "running" /\ ~(cur.phase = "ready" /\ past # <<>>)
    <3>1. CASE Owes(cur.dispatch, c)
      BY <2>3, <3>1 DEF TurnEndReads, Resuspend, Probes, Owes
    <3>2. CASE ~Owes(cur.dispatch, c) /\ Owes(cur.judge, c)
      BY <2>3, <3>2 DEF TurnEndReads, Resuspend, Probes, Owes
    <3>3. CASE ~Owes(cur.dispatch, c) /\ ~Owes(cur.judge, c)
      BY <2>3, <3>3 DEF TurnEndReads, Resuspend, Owes
    <3> QED
      BY <3>1, <3>2, <3>3
  <2> QED
    BY <2>1, <2>2, <2>3
<1>3. CASE calls' = calls \ {c}
  BY <1>3 DEF CallsChange
<1>4. ASSUME NEW op \in Probes,
             calls' = (calls \ {c}) \cup {[c EXCEPT !.op = op, !.ver = version]},
             op = "actorProbe" => Owes(cur.dispatch, c),
             op = "judgeProbe" => Owes(cur.judge, c)
      PROVE  CallsChange
  <2>1. PICK d : d = [c EXCEPT !.op = op, !.ver = version]
    OBVIOUS
  <2>2. d.op = op /\ d.ver = version /\ d.id = c.id /\ d.sess = c.sess
    BY <1>1, <2>1 DEF Calls
  <2>3. d \in Calls
    BY <1>4, <2>1 DEF IInv, TypeOK
  <2>4. TurnEndGoes(c, d)
    BY <1>1, <1>4, <2>2 DEF TurnEndGoes, Owes
  <2> QED
    BY <1>4, <2>1, <2>3, <2>4 DEF CallsChange, GoesOn
<1> QED
  BY <1>2, <1>3, <1>4

LEMMA ReadsAreAside ==
  ASSUME NEW e, NEW v, NEW d \in DriveReads(e, v)
  PROVE  d.op \in Aside
BY DriveReadsTimely DEF Aside

LEMMA AsideCalls ==
  ASSUME NEW X, calls' \subseteq calls \cup X, \A d \in X : d.op \in Aside
  PROVE  CallsChange
BY DEF CallsChange

LEMMA EveryCalls ==
  ASSUME IInv, IInv', RowInv, [Next]_vars
  PROVE  CallsChange
<1>1. ASSUME NEW c \in calls, Continues(c)
      PROVE  CallsChange
  <2>1. CASE ArrangeActor(c) \/ ProbeIdle(c) \/ Compacted(c) \/ Sent(c) \/ RejudgeSends(c)
    BY <2>1, ArrangeCalls, SendCalls
  <2>2. CASE ArrangeJudge(c) \/ JudgeRetries(c) \/ JudgeFailsOver(c) \/ TurnEndReads(c)
    BY <2>2, JudgeCalls, TurnEndCalls
  <2>3. CASE DriveStarts(c)
    <3>1. c \in Calls /\ version \in Nat
      BY CallFields DEF IInv, TypeOK
    <3>2. \A d \in DriveReads(cur, version) : [d EXCEPT !.from = c.ver].op \in Aside
      BY <3>1, ReadsAreAside, DriveReadsType DEF Calls
    <3> QED
      BY <2>3, <3>2 DEF DriveStarts, Resuspend, CallsChange
  <2>4. CASE TransferSettles(c) \/ ActorSettles(c)
    <3>1. \E e : calls' = (calls \ {c}) \cup DriveReads(e, version + 1)
      BY <2>4 DEF TransferSettles, ActorSettles, Resuspend
    <3> QED
      BY <3>1, ReadsAreAside DEF CallsChange
  <2>5. CASE ActorFailsOver(c)
    BY <2>5 DEF ActorFailsOver, Resuspend, CallsChange, Call, CallFor, Aside
  <2>6. CASE \/ PublishActor(c) \/ PublishJudge(c) \/ DriveFaults(c) \/ ReleasedAndAccepted(c)
             \/ ProbeUnsafe(c) \/ ProbeWaiting(c) \/ SettlesStale(c)
             \/ ActorSettlesNothing(c) \/ ActorEndsWithoutClaim(c)
             \/ JudgeEndsWithoutVerdict(c) \/ ActivationSettles(c)
    <3>1. calls' \subseteq calls
      BY <2>6 DEF PublishActor, PublishJudge, DriveFaults, ReleasedAndAccepted, ProbeUnsafe,
         ProbeWaiting, SettlesStale, ActorSettlesNothing, ActorEndsWithoutClaim,
         JudgeEndsWithoutVerdict, ActivationSettles, BlockIfCurrent, Drop
    <3> QED
      BY <3>1 DEF CallsChange
  <2> QED
    BY <1>1, <2>1, <2>2, <2>3, <2>4, <2>5, <2>6 DEF Continues
<1>2. ASSUME NEW h \in host, Submits(h)
      PROVE  CallsChange
  <2>1. \/ calls' \subseteq calls
        \/ \E op \in Aside : \E v, s, i : calls' = calls \cup {CallFor(op, v, s, i)}
    BY <1>2 DEF Submits, NodeClaim, JudgeRejects, JudgeNeedsContext, JudgeAccepts, TurnEnds,
       TurnWakes, ActivationFails, ActorBlocks, Call, Aside
  <2> QED
    BY <2>1 DEF CallsChange, CallFor
<1>3. CASE Commanded
  <2>1. CASE ManagerBlocks \/ RespawnFaults \/ Resets \/ Restarts
             \/ \E key \in Roles \cup {Judge} : SetsRoleModel(key)
    BY <2>1 DEF ManagerBlocks, RespawnFaults, Resets, Restarts, SetsRoleModel, CallsChange
  <2>2. CASE \/ \E replace, skip \in BOOLEAN : ResumesActor(replace, skip)
             \/ \E mode \in {"fresh", "followup"} : ResumesJudge(mode)
             \/ RespawnsJudge
    <3>1. \E e : calls' \subseteq
            calls \cup ({Call("drive", version + 1)} \cup DriveReads(e, version + 1))
      <4>1. CASE \E replace, skip \in BOOLEAN : ResumesActor(replace, skip)
        BY <4>1 DEF ResumesActor, ThenDrive
      <4>2. CASE \E mode \in {"fresh", "followup"} : ResumesJudge(mode)
        BY <4>2 DEF ResumesJudge, ThenDrive
      <4>3. CASE RespawnsJudge
        BY <4>3 DEF RespawnsJudge
      <4> QED
        BY <2>2, <4>1, <4>2, <4>3
    <3>2. Call("drive", version + 1).op \in Aside
      BY DEF Call, CallFor, Aside
    <3> QED
      BY <3>1, <3>2, ReadsAreAside, AsideCalls
  <2> QED
    BY <1>3, <2>1, <2>2 DEF Commanded
<1>4. CASE UNCHANGED vars
  BY <1>4 DEF vars, CallsChange
<1> QED
  BY <1>1, <1>2, <1>3, <1>4 DEF Next

-----------------------------------------------------------------------------
(* What a handler knows stays true as long as its version is current.      *)

SeenRow == <<status, version, cur, past, actors>>

LEMMA VersionStep ==
  ASSUME IInv, IInv', RowInv, [Next]_vars
  PROVE  version' = version + 1 \/ (UNCHANGED SeenRow /\ version' = version)
<1>1. RowChange /\ MappingChange
  BY EveryChange, EveryMapping
<1>2. RowSame \/ version' = version + 1
  BY <1>1 DEF RowChange, Noted, Arranged, Published, Claimed, DispatchSettles, JudgeArranged,
     JudgePublished, Rejected, ContextAsked, RunCompletes, MovesOn, FailedOver, Returned,
     TakenOver, PredecessorSettles, RunsOn, Wrote
<1>3. actors' = actors \/ version' = version + 1
  BY <1>1 DEF MappingChange, PublishActor, Put
<1> QED
  BY <1>2, <1>3 DEF RowSame, SeenRow

LEMMA VersionOfCall ==
  ASSUME IInv, NEW d \in calls
  PROVE  d.ver <= version /\ d.ver \in Nat /\ version \in Nat
BY CallFields DEF IInv, TypeOK, Remembered

LEMMA KnowsSame ==
  ASSUME UNCHANGED SeenRow, NEW d, Knows(d)
  PROVE  Knows(d)'
<1>1. SessionOf(RoleNow)' = SessionOf(RoleNow)
  BY DEF SeenRow, SessionOf, RoleNow
<1> QED
  BY <1>1 DEF SeenRow, Knows, KnowsWork, KnowsJudge, Owes, Matches

LEMMA KnowsStep ==
  ASSUME IInv, IInv', RowInv, AllKnow, [Next]_vars
  PROVE  AllKnow'
<1>1. CallsChange /\ (version' = version + 1 \/ (UNCHANGED SeenRow /\ version' = version))
  BY EveryCalls, VersionStep
<1>2. ASSUME NEW d \in calls, d.ver = version'
      PROVE  Knows(d)'
  <2>1. UNCHANGED SeenRow /\ d.ver = version
    BY <1>1, <1>2, VersionOfCall
  <2> QED
    BY <2>1, KnowsSame DEF AllKnow
<1>3. ASSUME NEW d, d.op \in Aside
      PROVE  Knows(d)'
  BY <1>3 DEF Aside, Knows, Work, Judging
<1>4. ASSUME NEW c \in calls, NEW d \in Calls, GoesOn(c, d), d.ver = version'
      PROVE  Knows(d)'
  <2>1. CASE ArrangeGoes(c, d)
    <3>1. cur'.node = cur.node /\ actors' = actors
      BY <2>1 DEF ArrangeGoes, Arranged, Keeps
    <3>2. SessionOf(RoleNow)' = SessionOf(RoleNow)
      BY <3>1 DEF SessionOf, RoleNow
    <3> QED
      BY <2>1, <3>2 DEF ArrangeGoes, Arranged, DispatchIs, Knows, KnowsWork, Work, Judging
  <2>2. CASE ProbeGoes(c, d)
    <3>1. UNCHANGED SeenRow /\ Knows(c)
      BY <2>2 DEF ProbeGoes, RowKept, rowVars, SeenRow, StillCurrent, AllKnow
    <3>2. Knows(d)
      BY <2>2, <3>1 DEF ProbeGoes, Knows, KnowsWork, Work, Judging
    <3> QED
      BY <3>1, <3>2, KnowsSame
  <2>3. CASE CompactGoes(c, d)
    <3>1. SessionOf(RoleNow)' = SessionOf(RoleNow) /\ cur'.dispatch = cur.dispatch
      BY <2>3 DEF CompactGoes, SessionOf, RoleNow
    <3>2. KnowsWork(c)
      BY <2>3 DEF CompactGoes, StillCurrent, AllKnow, Knows, Work
    <3> QED
      BY <2>3, <3>1, <3>2 DEF CompactGoes, Knows, KnowsWork, Work, Judging
  <2>4. CASE SentGoes(c, d)
    <3>1. UNCHANGED SeenRow /\ c.op \in {"send", "judgeSend"}
      BY <2>4 DEF SentGoes, Sent, rowVars, SeenRow
    <3>2. Knows(c)
      BY <1>4, <2>4, <3>1 DEF SentGoes, SeenRow, AllKnow
    <3>3. CASE c.op = "send"
      <4>1. Knows(d)
        BY <2>4, <3>2, <3>3 DEF SentGoes, Receiver, Knows, KnowsWork, Work, Judging
      <4> QED
        BY <3>1, <4>1, KnowsSame
    <3>4. CASE c.op = "judgeSend"
      <4>1. KnowsJudge(c) /\ cur.judge \in Judges
        BY <3>2, <3>4, FieldTypes DEF IInv, TypeOK, Knows, KnowsJudge, Judging
      <4>2. c.sess # None
        BY <4>1, NoneAssumption DEF KnowsJudge, Judges
      <4>3. Knows(d)
        BY <2>4, <3>4, <4>1, <4>2 DEF SentGoes, Receiver, Knows, KnowsJudge, Work, Judging
      <4> QED
        BY <3>1, <4>3, KnowsSame
    <3> QED
      BY <3>1, <3>3, <3>4
  <2>5. CASE JudgeGoes(c, d)
    BY <2>5 DEF JudgeGoes, Knows, KnowsJudge, Work, Judging
  <2>6. CASE RejudgeGoes(c, d)
    <3>1. UNCHANGED SeenRow
      BY <2>6 DEF RejudgeGoes, RowKept, rowVars, SeenRow
    <3>2. Knows(c)
      BY <1>4, <2>6, <3>1 DEF RejudgeGoes, SeenRow, AllKnow
    <3>3. Knows(d)
      BY <2>6, <3>2 DEF RejudgeGoes, Knows, KnowsJudge, Work, Judging
    <3> QED
      BY <3>1, <3>3, KnowsSame
  <2>7. CASE TurnEndGoes(c, d)
    <3>1. UNCHANGED SeenRow
      BY <2>7 DEF TurnEndGoes, RowKept, rowVars, SeenRow
    <3>2. Knows(d)
      BY <2>7 DEF TurnEndGoes, Probes, Knows, Work, Judging
    <3> QED
      BY <3>1, <3>2, KnowsSame
  <2> QED
    BY <1>4, <2>1, <2>2, <2>3, <2>4, <2>5, <2>6, <2>7 DEF GoesOn
<1>5. CASE \A d \in calls' : d \in calls \/ d.op \in Aside
  BY <1>2, <1>3, <1>5 DEF AllKnow
<1>6. CASE \E c \in calls : \E d \in Calls : GoesOn(c, d) /\ calls' = (calls \ {c}) \cup {d}
  <2>1. PICK c \in calls : \E d \in Calls : GoesOn(c, d) /\ calls' = (calls \ {c}) \cup {d}
    BY <1>6
  <2>2. PICK d \in Calls : GoesOn(c, d) /\ calls' = (calls \ {c}) \cup {d}
    BY <2>1
  <2>3. ASSUME NEW e \in calls', e.ver = version'
        PROVE  Knows(e)'
    BY <1>2, <1>4, <2>2, <2>3
  <2> QED
    BY <2>3 DEF AllKnow
<1> QED
  BY <1>1, <1>5, <1>6 DEF CallsChange

LEMMA OneSenderStep ==
  ASSUME IInv, IInv', RowInv, OneSender, [Next]_vars
  PROVE  OneSender'
<1>1. CallsChange /\ (version' = version + 1 \/ (UNCHANGED SeenRow /\ version' = version))
  BY EveryCalls, VersionStep
<1>2. ASSUME NEW d \in calls, d.ver = version'
      PROVE  version' = version
  BY <1>1, <1>2, VersionOfCall
<1>3. CASE \A d \in calls' : d \in calls \/ d.op \in Aside
  <2>1. \A d \in calls' : d.op \in Work => d \in calls
    BY <1>3 DEF Aside, Work
  <2> QED
    BY <1>2, <2>1 DEF OneSender
<1>4. CASE \E c \in calls : \E d \in Calls : GoesOn(c, d) /\ calls' = (calls \ {c}) \cup {d}
  <2>1. PICK c \in calls : \E d \in Calls : GoesOn(c, d) /\ calls' = (calls \ {c}) \cup {d}
    BY <1>4
  <2>2. PICK d \in Calls : GoesOn(c, d) /\ calls' = (calls \ {c}) \cup {d}
    BY <2>1
  <2>3. d.op \in Work /\ d.ver = version =>
          (c.op \in Work /\ c.ver = version) \/ version' = version + 1
    BY <2>2 DEF GoesOn, ArrangeGoes, ProbeGoes, CompactGoes, SentGoes, Sent, JudgeGoes, RejudgeGoes,
       TurnEndGoes, Arranged, RunsOn, Wrote, Probes, Work
  <2>4. ASSUME NEW e \in calls, e # c, e.op \in Work, e.ver = version',
               d.op \in Work, d.ver = version'
        PROVE  FALSE
    <3>1. version' = version /\ version \in Nat
      BY <1>2, <2>4, VersionOfCall
    <3>2. c.op \in Work /\ c.ver = version
      BY <2>3, <2>4, <3>1
    <3> QED
      BY <2>4, <3>1, <3>2 DEF OneSender
  <2>5. ASSUME NEW e \in calls', NEW f \in calls',
               e.op \in Work, f.op \in Work, e.ver = version', f.ver = version'
        PROVE  e = f
    <3>1. CASE e = d \/ f = d
      BY <2>2, <2>4, <2>5, <3>1
    <3>2. CASE e # d /\ f # d
      BY <1>2, <2>2, <2>5, <3>2 DEF OneSender
    <3> QED
      BY <3>1, <3>2
  <2> QED
    BY <2>5 DEF OneSender
<1> QED
  BY <1>1, <1>3, <1>4 DEF CallsChange

-----------------------------------------------------------------------------
(* Which sessions are the Actors' and which are the Judges'.               *)

DispatchSame == cur'.dispatch = cur.dispatch /\ cur'.node = cur.node
SettledNow ==
  /\ cur.dispatch # None /\ DispatchSettled /\ cur'.node = cur.node
  /\ DispatchSettles \/ FailedOver \/ TakenOver

LEMMA DispatchChanges ==
  ASSUME RowChange
  PROVE  DispatchSame \/ (MovesOn /\ cur'.dispatch = None) \/ Arranged \/ Published \/ SettledNow
<1>1. CASE RowSame \/ Noted \/ Claimed \/ JudgeArranged \/ JudgePublished \/ PredecessorSettles
  BY <1>1 DEF RowSame, Noted, Claimed, JudgeArranged, JudgePublished, PredecessorSettles, Keeps,
     KeepsWork, DispatchSame
<1>2. CASE Rejected \/ ContextAsked \/ RunCompletes \/ Returned
  BY <1>2 DEF Rejected, ContextAsked, RunCompletes, Exited, Returned, Keeps, KeepsWork,
     DispatchSame
<1>3. CASE MovesOn
  BY <1>3 DEF MovesOn, NewWorkOrder
<1>4. CASE DispatchSettles \/ FailedOver \/ TakenOver
  BY <1>4 DEF DispatchSettles, FailedOver, TakenOver, Keeps, SettledNow
<1> QED
  BY <1>1, <1>2, <1>3, <1>4 DEF RowChange

JudgeSame ==
  /\ cur.judge # None /\ cur'.judge # None
  /\ cur'.judge.id = cur.judge.id /\ cur'.judge.sess = cur.judge.sess
JudgeFresh ==
  /\ JudgeArranged \/ TakenOver
  /\ cur'.judge # None /\ version' = version + 1 /\ cur'.judge.id = version + 1
  /\ cur'.judge.sess = version + 1 \/ (TakenOver /\ Continued(cur'.judge.sess))

LEMMA JudgeChanges ==
  ASSUME RowInv, Settlement, RowChange
  PROVE  cur'.judge = None \/ JudgeSame \/ JudgeFresh
<1>1. CASE RowSame \/ Noted \/ Claimed \/ DispatchSettles \/ PredecessorSettles \/ ContextAsked
  BY <1>1 DEF RowSame, Noted, Claimed, DispatchSettles, PredecessorSettles, ContextAsked,
     KeepsWork, JudgeSame
<1>2. CASE Arranged \/ Published \/ FailedOver
  BY <1>2 DEF Arranged, Published, FailedOver, JudgeSame
<1>3. CASE Rejected \/ Returned
  BY <1>3 DEF Rejected, Returned
<1>4. CASE MovesOn
  BY <1>4 DEF MovesOn, NewWorkOrder
<1>5. CASE RunCompletes \/ JudgePublished
  BY <1>5 DEF RunCompletes, Exited, JudgePublished, JudgeSpeaks, JudgeSame
<1>6. CASE JudgeArranged
  BY <1>6 DEF JudgeArranged, JudgeIs, RunsOn, Wrote, Settlement, JudgeFresh
<1>7. CASE TakenOver
  BY <1>7 DEF TakenOver, JudgeIs, Wrote, JudgeFresh
<1> QED
  BY <1>1, <1>2, <1>3, <1>4, <1>5, <1>6, <1>7 DEF RowChange

PastSettled == past # <<>> /\ SettlePredecessor

LEMMA PastChanges ==
  ASSUME RowChange
  PROVE  past' = past \/ PastSettled \/ MovesOn
<1>1. CASE RowSame \/ Noted \/ Arranged \/ Published \/ Claimed \/ DispatchSettles
           \/ JudgeArranged \/ JudgePublished \/ FailedOver \/ Rejected \/ ContextAsked
           \/ RunCompletes \/ TakenOver
  BY <1>1 DEF RowSame, Noted, Arranged, Published, Claimed, DispatchSettles, JudgeArranged,
     JudgePublished, FailedOver, Rejected, ContextAsked, RunCompletes, TakenOver, Keeps
<1>2. CASE Returned \/ PredecessorSettles
  BY <1>2 DEF Returned, PredecessorSettles, PastSettled
<1> QED
  BY <1>1, <1>2 DEF RowChange

\* Of the history, only the last Judge's settlement is ever written.
LEMMA SettledPast ==
  ASSUME IInv, PastSettled
  PROVE  /\ Len(past') = Len(past) /\ DOMAIN past' = DOMAIN past
         /\ past'[Len(past)].judge.sess = past[Len(past)].judge.sess
         /\ \A i \in DOMAIN past : past'[i].dispatch = past[i].dispatch
<1> DEFINE n == Len(past)
<1>1. /\ n \in DOMAIN past /\ past \in Seq(WorkOrders) /\ past[n] \in WorkOrders
      /\ past[n].judge # None
  BY DEF IInv, TypeOK, Materials, PastSettled
<1>2. past[n].judge \in Judges
  BY <1>1, FieldTypes
<1>3. past'[n] = [past[n] EXCEPT !.judge.settled = TRUE]
  BY <1>1 DEF PastSettled, SettlePredecessor
<1>4. past'[n].judge.sess = past[n].judge.sess /\ past'[n].dispatch = past[n].dispatch
  BY <1>1, <1>2, <1>3 DEF WorkOrders, Judges
<1>5. Len(past') = n /\ past' \in Seq(WorkOrders)
  BY SettlePredecessorType DEF IInv, PastSettled
<1>6. \A i \in DOMAIN past : i # n => past'[i] = past[i]
  BY <1>1 DEF PastSettled, SettlePredecessor
<1>7. DOMAIN past' = DOMAIN past
  BY <1>1, <1>5
<1> QED
  BY <1>4, <1>5, <1>6, <1>7

LEMMA ActorSessions ==
  ASSUME IInv, IInv', RowInv, [Next]_vars, NEW x \in Nat, OfActor(x)'
  PROVE  OfActor(x) \/ (x = version + 1 /\ Arranged)
<1>1. RowChange /\ MappingChange /\ CallsChange
  BY EveryChange, EveryMapping, EveryCalls
<1>2. x # None
  BY NoneAssumption DEF Sessions
<1>3. actors \in [Roles -> Maybe(Sessions)]
  BY DEF IInv, TypeOK
<1>4. CASE x = ManagerSession
  BY <1>4 DEF OfActor, ActorInRow
<1>5. CASE \E r \in Roles : x = actors'[r]
  <2>1. PICK r \in Roles : x = actors'[r]
    BY <1>5
  <2>2. CASE \E c \in calls : PublishActor(c) /\ StillCurrent(c)
    <3>1. PICK c \in calls : PublishActor(c) /\ StillCurrent(c)
      BY <2>2
    <3>2. x = actors[r] \/ x = c.sess
      BY <1>3, <2>1, <3>1 DEF PublishActor
    <3>3. c.op \in Work
      BY <3>1 DEF PublishActor, Work
    <3> QED
      BY <3>2, <3>3 DEF OfActor, ActorInRow
  <2>3. CASE actors' = actors
    BY <2>1, <2>3 DEF OfActor, ActorInRow
  <2>4. CASE \E q \in Roles : Unmapped(q)
    <3>1. x = actors[r]
      BY <1>2, <1>3, <2>1, <2>4 DEF Unmapped
    <3> QED
      BY <3>1 DEF OfActor, ActorInRow
  <2> QED
    BY <1>1, <2>2, <2>3, <2>4 DEF MappingChange
<1>6. CASE cur'.dispatch # None /\ x \in {cur'.dispatch.id, cur'.dispatch.sess}
  <2>1. CASE DispatchSame
    BY <1>6, <2>1 DEF DispatchSame, OfActor, ActorInRow
  <2>2. CASE MovesOn /\ cur'.dispatch = None
    BY <1>6, <2>2
  <2>3. CASE Arranged
    <3>1. cur'.dispatch.id = version + 1 /\ cur'.dispatch.sess = SessionOf(RoleNow)
      BY <2>3 DEF Arranged, DispatchIs
    <3>2. RoleNow \in Roles \/ RoleNow = Manager
      BY RoleType DEF IInv
    <3>3. x = version + 1 \/ x = ManagerSession \/ (RoleNow \in Roles /\ x = actors[RoleNow])
      BY <1>6, <3>1, <3>2 DEF SessionOf
    <3> QED
      BY <2>3, <3>3 DEF OfActor, ActorInRow
  <2>4. CASE Published
    <3>1. PICK c \in calls : PublishActor(c) /\ cur'.dispatch.sess = c.sess
      BY <2>4 DEF Published
    <3>2. c.op \in Work
      BY <3>1 DEF PublishActor, Work
    <3>3. cur.dispatch # None /\ cur'.dispatch.id = cur.dispatch.id
      BY <2>4 DEF Published, DispatchIs
    <3> QED
      BY <1>6, <3>1, <3>2, <3>3 DEF OfActor, ActorInRow
  <2>5. CASE SettledNow
    BY <1>6, <2>5 DEF SettledNow, DispatchSettled, DispatchIs, OfActor, ActorInRow
  <2> QED
    BY <1>1, DispatchChanges, <2>1, <2>2, <2>3, <2>4, <2>5
<1>7. CASE \E d \in calls' : d.op \in Work /\ x \in {d.id, d.sess}
  <2>1. PICK d \in calls' : d.op \in Work /\ x \in {d.id, d.sess}
    BY <1>7
  <2>2. CASE d \in calls
    BY <2>1, <2>2 DEF OfActor
  <2>3. CASE d \notin calls
    <3>1. d.op \notin Aside
      BY <2>1 DEF Work, Aside
    <3>2. PICK c \in calls : GoesOn(c, d)
      BY <1>1, <2>3, <3>1 DEF CallsChange
    <3>3. CASE ArrangeGoes(c, d)
      <4>1. RoleNow \in Roles \/ RoleNow = Manager
        BY RoleType DEF IInv
      <4>2. x = version + 1 \/ x = ManagerSession \/ (RoleNow \in Roles /\ x = actors[RoleNow])
        BY <2>1, <3>3, <4>1 DEF ArrangeGoes, SessionOf
      <4> QED
        BY <3>3, <4>2 DEF ArrangeGoes, OfActor, ActorInRow
    <3>4. CASE ProbeGoes(c, d) \/ CompactGoes(c, d)
      BY <2>1, <3>4 DEF ProbeGoes, CompactGoes, OfActor, Work
    <3>5. CASE SentGoes(c, d)
      BY <2>1, <3>5 DEF SentGoes, Sent, Receiver, OfActor, Work
    <3>6. CASE JudgeGoes(c, d) \/ RejudgeGoes(c, d) \/ TurnEndGoes(c, d)
      BY <2>1, <3>6 DEF JudgeGoes, RejudgeGoes, TurnEndGoes, Probes, Work
    <3> QED
      BY <3>2, <3>3, <3>4, <3>5, <3>6 DEF GoesOn
  <2> QED
    BY <2>2, <2>3
<1> QED
  BY <1>4, <1>5, <1>6, <1>7 DEF OfActor, ActorInRow, ManagerSession

LEMMA ContinuedIsJudge ==
  ASSUME NEW x, Continued(x)
  PROVE  OfJudge(x)
<1>1. CASE AskedBy(cur.judge, cur) /\ x = cur.judge.sess
  BY <1>1 DEF AskedBy, OfJudge, JudgeInRow
<1>2. CASE \E j \in {cur.judge, cur.prevJudge} : j # None /\ x = j.sess
  BY <1>2 DEF OfJudge, JudgeInRow
<1> QED
  BY <1>1, <1>2 DEF Continued

LEMMA JudgeSessions ==
  ASSUME IInv, IInv', RowInv, Settlement, Seated, [Next]_vars, NEW x \in Nat, OfJudge(x)'
  PROVE  OfJudge(x) \/ (x = version + 1 /\ (JudgeArranged \/ TakenOver))
<1>1. RowChange /\ CallsChange
  BY EveryChange, EveryCalls
<1>2. x # None
  BY NoneAssumption DEF Sessions
<1>3. CASE cur'.judge # None /\ x = cur'.judge.sess
  <2>1. CASE JudgeSame
    BY <1>3, <2>1 DEF JudgeSame, OfJudge, JudgeInRow
  <2>2. CASE JudgeFresh
    BY <1>3, <2>2, ContinuedIsJudge DEF JudgeFresh
  <2> QED
    BY <1>1, <1>3, <2>1, <2>2, JudgeChanges
<1>4. CASE cur'.prevJudge # None /\ x = cur'.prevJudge.sess
  <2>1. \/ cur'.prevJudge = cur.prevJudge
        \/ cur.judge # None /\ cur'.prevJudge = cur.judge
        \/ cur'.prevJudge = None
    <3>1. CASE RowSame \/ Noted \/ Arranged \/ Published \/ Claimed \/ DispatchSettles
               \/ JudgeArranged \/ JudgePublished \/ PredecessorSettles \/ FailedOver
      BY <3>1 DEF RowSame, Noted, Arranged, Published, Claimed, DispatchSettles, JudgeArranged,
         JudgePublished, PredecessorSettles, FailedOver, KeepsVerdict
    <3>2. CASE Rejected \/ ContextAsked \/ RunCompletes
      BY <3>2 DEF Rejected, ContextAsked, RunCompletes, Exited, JudgeSpeaks
    <3>3. CASE MovesOn
      BY <3>3 DEF MovesOn, NewWorkOrder
    <3>4. CASE Returned
      BY <3>4 DEF Returned, AskedBy
    <3>5. CASE TakenOver
      BY <3>5 DEF TakenOver, AskedBy
    <3> QED
      BY <1>1, <3>1, <3>2, <3>3, <3>4, <3>5 DEF RowChange
  <2> QED
    BY <1>4, <2>1 DEF OfJudge, JudgeInRow
<1>5. CASE cur'.resolution # None /\ x = cur'.resolution.sess
  <2>1. CASE RowSame \/ Noted \/ Arranged \/ Published \/ Claimed \/ DispatchSettles
             \/ JudgeArranged \/ JudgePublished \/ PredecessorSettles
    <3>1. cur'.resolution = cur.resolution
      BY <2>1 DEF RowSame, Noted, Arranged, Published, Claimed, DispatchSettles, JudgeArranged,
         JudgePublished, PredecessorSettles, KeepsVerdict
    <3> QED
      BY <1>5, <3>1 DEF OfJudge, JudgeInRow
  <2>2. CASE Rejected \/ FailedOver \/ Returned
    BY <1>2, <1>5, <2>2 DEF Rejected, FailedOver, Returned
  <2>3. CASE MovesOn
    BY <1>5, <2>3 DEF MovesOn, NewWorkOrder
  <2>4. CASE ContextAsked \/ RunCompletes
    <3>1. cur'.resolution = ModeSpent(cur.resolution)
      BY <2>4 DEF ContextAsked, RunCompletes, Exited
    <3>2. cur.resolution \in Maybe(Resolutions)
      BY DEF IInv, TypeOK, WorkOrders
    <3>3. cur.resolution # None /\ x = cur.resolution.sess
      BY <1>2, <1>5, <3>1, <3>2 DEF ModeSpent, Maybe, Resolutions
    <3> QED
      BY <3>3 DEF OfJudge, JudgeInRow
  <2>5. CASE TakenOver
    <3>1. Continued(x)
      BY <1>2, <1>5, <2>5 DEF TakenOver
    <3> QED
      BY <3>1, ContinuedIsJudge
  <2> QED
    BY <1>1, <2>1, <2>2, <2>3, <2>4, <2>5 DEF RowChange
<1>6. CASE past' # <<>> /\ x = past'[Len(past')].judge.sess
  <2>0. past \in Seq(WorkOrders)
    BY DEF IInv, TypeOK
  <2>1. CASE past' = past
    BY <1>6, <2>1 DEF OfJudge, JudgeInRow
  <2>2. CASE past # <<>> /\ SettlePredecessor
    <3>1. /\ Len(past') = Len(past)
          /\ past'[Len(past)].judge.sess = past[Len(past)].judge.sess
      BY <2>2, SettledPast DEF PastSettled
    <3> QED
      BY <1>6, <2>2, <3>1 DEF OfJudge, JudgeInRow
  <2>3. CASE MovesOn
    <3>1. PICK left \in WorkOrders : Exited(left) /\ past' = Append(past, left)
      BY <2>3 DEF MovesOn
    <3>2. past'[Len(past')] = left
      BY <2>0, <3>1
    <3> QED
      BY <1>6, <2>3, <3>1, <3>2 DEF Exited, MovesOn, JudgeSpeaks, OfJudge, JudgeInRow
  <2> QED
    BY <1>1, <2>1, <2>2, <2>3, PastChanges DEF PastSettled
<1>7. CASE \E d \in calls' : d.op \in Judging /\ x = d.sess
  <2>1. PICK d \in calls' : d.op \in Judging /\ x = d.sess
    BY <1>7
  <2>2. CASE d \in calls
    BY <2>1, <2>2 DEF OfJudge
  <2>3. CASE d \notin calls
    <3>1. d.op \notin Aside
      BY <2>1 DEF Judging, Aside
    <3>2. PICK c \in calls : GoesOn(c, d)
      BY <1>1, <2>3, <3>1 DEF CallsChange
    <3>3. CASE SentGoes(c, d)
      BY <2>1, <3>3 DEF SentGoes, Sent, Receiver, Seated, OfJudge, Judging
    <3>4. CASE RejudgeGoes(c, d)
      BY <2>1, <3>4 DEF RejudgeGoes, OfJudge, Judging
    <3>5. CASE JudgeGoes(c, d)
      BY <1>3, <2>1, <3>5 DEF JudgeGoes
    <3>6. CASE ArrangeGoes(c, d) \/ ProbeGoes(c, d) \/ CompactGoes(c, d) \/ TurnEndGoes(c, d)
      BY <2>1, <3>6 DEF ArrangeGoes, ProbeGoes, CompactGoes, TurnEndGoes, Probes, Judging
    <3> QED
      BY <3>2, <3>3, <3>4, <3>5, <3>6 DEF GoesOn
  <2> QED
    BY <2>2, <2>3
<1> QED
  BY <1>3, <1>4, <1>5, <1>6, <1>7 DEF OfJudge, JudgeInRow

-----------------------------------------------------------------------------
(* The sessions of Actors and of Judges stay apart.                        *)

LEMMA SettlementStep ==
  ASSUME IInv, IInv', RowInv, AllKnow, Settlement, [Next]_vars
  PROVE  Settlement'
<1>1. RowChange /\ IInv
  BY EveryChange
<1>2. (cur.dispatch # None => cur.dispatch \in Dispatches) /\ cur \in WorkOrders
  BY FieldTypes DEF IInv, TypeOK
<1>3. cur'.dispatch # None /\ cur'.dispatch.settled => cur'.dispatch.pub
  <2>1. CASE DispatchSame
    BY <2>1 DEF DispatchSame, Settlement
  <2>2. CASE Arranged
    BY <2>2 DEF Arranged, DispatchIs
  <2>3. CASE Published
    BY <2>3 DEF Published, DispatchIs
  <2>4. CASE SettledNow
    <3>1. cur.dispatch.pub
      <4>1. CASE DispatchSettles \/ TakenOver
        <5>1. cur.claim # None
          BY <4>1 DEF DispatchSettles, TakenOver, IInv, Materials
        <5> QED
          BY <5>1 DEF RowInv, Stands
      <4>2. CASE FailedOver
        <5>1. PICK c \in calls : c.op = "actorProbe" /\ StillCurrent(c)
          BY <4>2 DEF FailedOver, ProbedIdle
        <5> QED
          BY <5>1 DEF AllKnow, Knows, StillCurrent, Owes, Matches
      <4> QED
        BY <2>4, <4>1, <4>2 DEF SettledNow
    <3> QED
      BY <2>4, <3>1 DEF SettledNow, DispatchSettled, DispatchIs
  <2> QED
    BY <1>1, <2>1, <2>2, <2>3, <2>4, DispatchChanges
<1>4. cur'.dispatch # None /\ cur'.dispatch.pub => cur'.dispatch.sess # None
  <2>1. CASE DispatchSame
    BY <2>1 DEF DispatchSame, Settlement
  <2>2. CASE Arranged
    BY <2>2 DEF Arranged, DispatchIs
  <2>3. CASE Published
    <3>1. PICK c \in calls : PublishActor(c) /\ StillCurrent(c) /\ cur'.dispatch.sess = c.sess
      BY <2>3 DEF Published
    <3>2. KnowsWork(c) /\ c.op = "publish"
      BY <3>1 DEF AllKnow, Knows, StillCurrent, PublishActor, Work
    <3>3. c.sess = cur.dispatch.sess \/ (c.sess = c.id /\ cur.dispatch.sess = None)
      BY <3>2 DEF KnowsWork
    <3>4. c.sess # None
      BY <3>2, <3>3, CallFields, NoneAssumption DEF IInv, KnowsWork, Sessions
    <3> QED
      BY <3>1, <3>4
  <2>4. CASE SettledNow
    BY <2>4 DEF SettledNow, DispatchSettled, DispatchIs, Settlement
  <2> QED
    BY <1>1, <2>1, <2>2, <2>3, <2>4, DispatchChanges
<1>5. cur'.resolution # None /\ cur'.resolution.target = "judge" => cur'.judge # None
  <2>1. CASE RowSame \/ Noted \/ Arranged \/ Published \/ Claimed \/ DispatchSettles
             \/ PredecessorSettles
    BY <2>1 DEF RowSame, Noted, Arranged, Published, Claimed, DispatchSettles,
       PredecessorSettles, KeepsVerdict, KeepsWork, Settlement
  <2>2. CASE JudgeArranged \/ JudgePublished \/ TakenOver
    BY <2>2 DEF JudgeArranged, JudgePublished, TakenOver, JudgeIs
  <2>3. CASE Rejected \/ FailedOver \/ Returned
    BY <2>3 DEF Rejected, FailedOver, Returned
  <2>4. CASE MovesOn
    BY <2>4 DEF MovesOn, NewWorkOrder
  <2>5. CASE ContextAsked \/ RunCompletes
    BY <2>5 DEF ContextAsked, RunCompletes, Exited, JudgeSpeaks, KeepsWork
  <2> QED
    BY <1>1, <2>1, <2>2, <2>3, <2>4, <2>5 DEF RowChange
<1> QED
  BY <1>3, <1>4, <1>5 DEF Settlement

LEMMA SeatedStep ==
  ASSUME IInv, IInv', RowInv, Seated, [Next]_vars
  PROVE  Seated'
<1>1. CallsChange
  BY EveryCalls
<1>2. ASSUME NEW d \in calls', d \notin calls, d.op \in Judging
      PROVE  d.sess # None
  <2>1. PICK c \in calls : GoesOn(c, d)
    BY <1>1, <1>2 DEF CallsChange, Aside, Judging
  <2>2. CASE SentGoes(c, d)
    BY <1>2, <2>2 DEF SentGoes, Sent, Receiver, Seated, Judging
  <2>3. CASE RejudgeGoes(c, d)
    BY <2>3 DEF RejudgeGoes, Seated, Judging
  <2>4. CASE JudgeGoes(c, d)
    <3>1. cur'.judge \in Judges
      BY <2>4, FieldTypes DEF IInv, TypeOK, JudgeGoes, WorkOrders, Maybe
    <3> QED
      BY <2>4, <3>1, NoneAssumption DEF JudgeGoes, Judges
  <2>5. CASE ArrangeGoes(c, d) \/ ProbeGoes(c, d) \/ CompactGoes(c, d) \/ TurnEndGoes(c, d)
    BY <1>2, <2>5 DEF ArrangeGoes, ProbeGoes, CompactGoes, TurnEndGoes, Probes, Judging
  <2> QED
    BY <2>1, <2>2, <2>3, <2>4, <2>5 DEF GoesOn
<1> QED
  BY <1>2 DEF Seated

LEMMA ApartStep ==
  ASSUME IInv, IInv', RowInv, Settlement, Seated, Minted, Apart, [Next]_vars
  PROVE  Apart'
<1>1. SUFFICES ASSUME NEW x \in Nat, OfActor(x)', OfJudge(x)'
               PROVE  FALSE
  BY DEF Apart
<1>2. OfActor(x) \/ (x = version + 1 /\ Arranged)
  BY <1>1, ActorSessions
<1>3. OfJudge(x) \/ (x = version + 1 /\ (JudgeArranged \/ TakenOver))
  BY <1>1, JudgeSessions
<1>4. version \in Nat /\ (OfActor(x) \/ OfJudge(x) => x <= version)
  BY DEF IInv, TypeOK, Minted
<1>5. ~(OfActor(x) /\ OfJudge(x))
  BY DEF Apart
<1>6. ~(Arranged /\ (JudgeArranged \/ TakenOver))
  BY DEF Arranged, JudgeArranged, TakenOver
<1> QED
  BY <1>2, <1>3, <1>4, <1>5, <1>6

LEMMA MintedStep ==
  ASSUME IInv, IInv', RowInv, AllKnow, Settlement, Seated, Minted, [Next]_vars
  PROVE  Minted'
<1>1. /\ RowChange /\ CallsChange /\ HostChange
      /\ version' = version + 1 \/ (UNCHANGED SeenRow /\ version' = version)
  BY EveryChange, EveryCalls, EveryHost, VersionStep
<1>2. version \in Nat /\ version <= version' /\ version' # 0 /\ version' \in Nat
  BY <1>1 DEF IInv, TypeOK, Minted
<1>3. ASSUME NEW x \in Nat, (OfActor(x) \/ OfJudge(x))'
      PROVE  x <= version'
  <2>1. OfActor(x) \/ OfJudge(x) \/ (x = version + 1 /\ (Arranged \/ JudgeArranged \/ TakenOver))
    BY <1>3, ActorSessions, JudgeSessions
  <2>2. CASE OfActor(x) \/ OfJudge(x)
    BY <1>2, <2>2 DEF Minted
  <2>3. CASE x = version + 1 /\ (Arranged \/ JudgeArranged \/ TakenOver)
    <3>1. version' = version + 1
      BY <2>3 DEF Arranged, JudgeArranged, TakenOver, RunsOn, Wrote
    <3> QED
      BY <1>2, <2>3, <3>1
  <2> QED
    BY <2>1, <2>2, <2>3
<1>4. cur'.judge # None => cur'.judge.id <= version'
  <2>1. cur.judge # None => cur.judge.id \in Nat
    BY FieldTypes DEF IInv, TypeOK, Judges
  <2>2. CASE JudgeSame
    BY <1>2, <2>1, <2>2 DEF JudgeSame, Minted
  <2>3. CASE JudgeFresh
    BY <1>2, <2>3 DEF JudgeFresh
  <2> QED
    BY <1>1, <2>2, <2>3, JudgeChanges
<1>5. \A c \in calls' : c.op \in Work \cup Judging => c.id <= version'
  <2>1. TAKE d \in calls'
  <2>2. HAVE d.op \in Work \cup Judging
  <2>3. CASE d \in calls
    BY <1>2, <2>2, <2>3, CallFields DEF IInv, Minted
  <2>4. CASE d \notin calls
    <3>1. PICK c \in calls : GoesOn(c, d)
      BY <1>1, <2>2, <2>4 DEF CallsChange, Aside, Judging, Work
    <3>2. c.id \in Nat /\ (c.op \in Work \cup Judging => c.id <= version)
      BY CallFields DEF IInv, Minted
    <3>3. CASE ArrangeGoes(c, d)
      BY <1>2, <3>3 DEF ArrangeGoes, Arranged, RunsOn, Wrote
    <3>4. CASE ProbeGoes(c, d) \/ CompactGoes(c, d) \/ RejudgeGoes(c, d)
      BY <1>2, <3>2, <3>4 DEF ProbeGoes, CompactGoes, RejudgeGoes, Work, Judging
    <3>5. CASE SentGoes(c, d)
      BY <1>2, <3>2, <3>5 DEF SentGoes, Sent, Work, Judging
    <3>6. CASE JudgeGoes(c, d)
      BY <1>4, <3>6 DEF JudgeGoes
    <3>7. CASE TurnEndGoes(c, d)
      BY <2>2, <3>7 DEF TurnEndGoes, Probes, Work, Judging
    <3> QED
      BY <3>1, <3>3, <3>4, <3>5, <3>6, <3>7 DEF GoesOn
  <2> QED
    BY <2>3, <2>4
<1>6. \A h \in host' : h.sess <= version' /\ h.msg <= version'
  <2>1. \A h \in host : h.sess \in Nat /\ h.msg \in Nat /\ h.sess <= version /\ h.msg <= version
    BY TurnFields DEF IInv, Minted, Sessions
  <2>2. CASE Calm
    BY <1>2, <2>1, <2>2 DEF Calm, Resembles
  <2>3. CASE \E c \in calls : Sent(c)
    <3>1. PICK c \in calls : Sent(c)
      BY <2>3
    <3>2. c.op \in {"send", "judgeSend"} /\ c.id \in Nat /\ c.id <= version
      BY <3>1, CallFields DEF IInv, Sent, Minted, Work, Judging
    <3>3. Receiver(c) <= version /\ Receiver(c) \in Nat
      <4>1. CASE c.sess = None
        BY <3>2, <4>1 DEF Receiver
      <4>2. CASE c.sess # None
        <5>1. c.sess \in Nat
          BY <4>2, CallFields DEF IInv, Maybe, Sessions
        <5>2. OfActor(c.sess) \/ OfJudge(c.sess)
          BY <3>2 DEF OfActor, OfJudge, Work, Judging
        <5> QED
          BY <4>2, <5>1, <5>2 DEF Minted, Receiver
      <4> QED
        BY <4>1, <4>2
    <3>4. \A h \in host' : \/ h \in host
                           \/ /\ h.sess = Receiver(c)
                              /\ h.msg = c.id \/ \E g \in host : g.msg = h.msg
      BY <3>1, Delivered
    <3> QED
      BY <1>2, <2>1, <3>2, <3>3, <3>4
  <2> QED
    BY <1>1, <2>2, <2>3 DEF HostChange
<1>7. \A i \in DOMAIN past' :
        past'[i].dispatch # None /\ past'[i].dispatch.sess # None
          => past'[i].dispatch.sess <= version'
  <2>0. past \in Seq(WorkOrders)
    BY DEF IInv, TypeOK
  <2>1. \A i \in DOMAIN past :
          past[i].dispatch # None /\ past[i].dispatch.sess # None
            => past[i].dispatch.sess <= version /\ past[i].dispatch.sess \in Nat
    <3>1. TAKE i \in DOMAIN past
    <3>2. past[i] \in WorkOrders
      BY <2>0, <3>1
    <3> QED
      BY <3>2, FieldTypes DEF Minted, Dispatches, Maybe, Sessions
  <2>2. CASE past' = past
    BY <1>2, <2>1, <2>2
  <2>3. CASE PastSettled
    BY <1>2, <2>1, <2>3, SettledPast
  <2>4. CASE MovesOn
    <3>1. PICK left \in WorkOrders : Exited(left) /\ past' = Append(past, left)
      BY <2>4 DEF MovesOn
    <3>2. left.dispatch # None /\ left.dispatch.sess # None
            => left.dispatch.sess <= version /\ left.dispatch.sess \in Nat
      <4>1. HAVE left.dispatch # None /\ left.dispatch.sess # None
      <4>2. left.dispatch = cur.dispatch /\ cur.dispatch \in Dispatches
        BY <3>1, <4>1, FieldTypes DEF Exited, IInv, TypeOK
      <4>3. cur.dispatch.sess \in Nat /\ OfActor(cur.dispatch.sess)
        BY <4>1, <4>2 DEF Dispatches, Maybe, Sessions, OfActor, ActorInRow
      <4> QED
        BY <4>2, <4>3 DEF Minted
    <3>3. \A i \in DOMAIN past' : (i \in DOMAIN past /\ past'[i] = past[i]) \/ past'[i] = left
      BY <2>0, <3>1
    <3> QED
      BY <1>2, <2>1, <3>2, <3>3
  <2> QED
    BY <1>1, <2>2, <2>3, <2>4, PastChanges
<1> QED
  BY <1>2, <1>3, <1>4, <1>5, <1>6, <1>7 DEF Minted

-----------------------------------------------------------------------------
(* Which sessions stay quiet.                                              *)

QuietNext(s) == \A h \in host' : h.sess = s /\ ~h.late => h.st = "idle"

LEMMA IdleIsQuiet ==
  ASSUME NEW s, Idle(s)
  PROVE  Quiet(s)
BY DEF Idle, Quiet

LEMMA QuietStep ==
  ASSUME IInv, NEW s, Quiet(s),
         Calm \/ \E c \in calls : Sent(c) /\ ~(StillCurrent(c) /\ Receiver(c) = s)
  PROVE  QuietNext(s)
<1>1. CASE Calm
  BY <1>1 DEF Calm, Resembles, Quiet, QuietNext
<1>2. CASE \E c \in calls : Sent(c) /\ ~(StillCurrent(c) /\ Receiver(c) = s)
  <2>1. PICK c \in calls : Sent(c) /\ ~(StillCurrent(c) /\ Receiver(c) = s)
    BY <1>2
  <2>2. \A h \in host' : \/ h \in host
                         \/ h.sess = Receiver(c) /\ h.late = ~StillCurrent(c)
    BY <2>1, Delivered
  <2> QED
    BY <2>1, <2>2 DEF Quiet, QuietNext
<1> QED
  BY <1>1, <1>2

\* The receiver of a message to an Actor is never a Judge's session, nor the
\* other way round.
LEMMA ReceiverIsApart ==
  ASSUME IInv, Seated, Apart, NEW c \in calls, c.op \in {"send", "judgeSend"}
  PROVE  /\ Receiver(c) \in Nat
         /\ c.op = "send" => OfActor(Receiver(c)) /\ ~OfJudge(Receiver(c))
         /\ c.op = "judgeSend" => /\ Receiver(c) = c.sess
                                 /\ OfJudge(c.sess) /\ ~OfActor(c.sess)
<1>1. c.id \in Nat /\ c.sess \in Nat \cup {None}
  BY CallFields DEF IInv, Maybe, Sessions
<1>2. Receiver(c) \in Nat
  BY <1>1 DEF Receiver
<1>3. c.op = "send" => OfActor(Receiver(c))
  BY DEF Receiver, OfActor, Work
<1>4. c.op = "judgeSend" => Receiver(c) = c.sess /\ OfJudge(c.sess)
  BY DEF Seated, Receiver, OfJudge, Judging
<1> QED
  BY <1>2, <1>3, <1>4 DEF Apart

LEMMA PublishedQuiet ==
  ASSUME IInv, Settlement, AllKnow, Seated, Apart, Quiet(cur.dispatch.sess), HostChange,
         cur.dispatch # None, cur.dispatch.pub
  PROVE  QuietNext(cur.dispatch.sess)
<1>1. CASE Calm
  BY <1>1, QuietStep
<1>2. CASE \E c \in calls : Sent(c)
  <2>1. PICK c \in calls : Sent(c)
    BY <1>2
  <2>2. cur.dispatch.sess \in Nat
    BY FieldTypes DEF Settlement, IInv, TypeOK, Dispatches, Maybe, Sessions
  <2>3. OfActor(cur.dispatch.sess)
    BY DEF OfActor, ActorInRow
  <2>4. CASE StillCurrent(c) /\ Receiver(c) = cur.dispatch.sess
    <3>1. c.op # "send"
      BY <2>4 DEF StillCurrent, AllKnow, Knows, KnowsWork, Work
    <3>2. c.op = "judgeSend"
      BY <2>1, <3>1 DEF Sent
    <3> QED
      BY <2>3, <2>4, <3>2, ReceiverIsApart
  <2>5. CASE ~(StillCurrent(c) /\ Receiver(c) = cur.dispatch.sess)
    BY <2>1, <2>5, QuietStep
  <2> QED
    BY <2>4, <2>5
<1> QED
  BY <1>1, <1>2 DEF HostChange

LEMMA ActorQuietStep ==
  ASSUME IInv, IInv', RowInv, AllKnow, Settlement, Seated, Apart, ActorQuiet, [Next]_vars
  PROVE  ActorQuiet'
<1>1. RowChange /\ MappingChange /\ HostChange
  BY EveryChange, EveryMapping, EveryHost
<1>2. SUFFICES ASSUME (cur.dispatch # None /\ cur.dispatch.pub /\ RoleNow # Manager)'
               PROVE  /\ actors'[RoleNow'] \in {None, cur'.dispatch.sess}
                      /\ cur'.dispatch.settled \/ actors'[RoleNow'] = None
                           => QuietNext(cur'.dispatch.sess)
  BY DEF ActorQuiet, Quiet, QuietNext
<1>3. actors \in [Roles -> Maybe(Sessions)] /\ RoleNow \in Roles \cup {Manager}
  BY RoleType DEF IInv, TypeOK
\* When the dispatch was published before, no publication can be under way.
<1>4. ASSUME cur.dispatch # None, cur.dispatch.pub, NEW c \in calls, PublishActor(c), StillCurrent(c)
      PROVE  FALSE
  BY <1>4 DEF PublishActor, StillCurrent, AllKnow, Knows, KnowsWork, Work
<1>5. ASSUME cur.dispatch # None, cur.dispatch.pub, RoleNow # Manager, Unmapped(RoleNow),
             actors[RoleNow] = None \/ Idle(actors[RoleNow]) \/ ProbedIdle \/ JudgeSpeaks
      PROVE  Quiet(cur.dispatch.sess)
  <2>1. CASE actors[RoleNow] = None
    BY <1>5, <2>1 DEF ActorQuiet
  <2>2. CASE actors[RoleNow] # None /\ Idle(actors[RoleNow])
    BY <1>5, <2>2, IdleIsQuiet DEF ActorQuiet
  <2>3. CASE ProbedIdle
    <3>1. PICK c \in calls : c.op = "actorProbe" /\ StillCurrent(c) /\ Idle(c.sess)
      BY <2>3 DEF ProbedIdle
    <3>2. c.sess = cur.dispatch.sess
      BY <3>1 DEF StillCurrent, AllKnow, Knows, Owes, Matches
    <3> QED
      BY <3>1, <3>2, IdleIsQuiet
  <2>4. CASE JudgeSpeaks
    BY <1>5, <2>4 DEF JudgeSpeaks, RowInv, Stands, ActorQuiet
  <2> QED
    BY <1>5, <2>1, <2>2, <2>3, <2>4
\* What the mapping becomes while the dispatch stays published.
<1>6. ASSUME cur.dispatch # None, cur.dispatch.pub, RoleNow # Manager
      PROVE  \/ actors'[RoleNow] = actors[RoleNow]
             \/ actors'[RoleNow] = None /\ Quiet(cur.dispatch.sess)
  <2>1. CASE actors' = actors
    BY <2>1
  <2>2. CASE \E r \in Roles : /\ Unmapped(r)
                              /\ r = RoleNow =>
                                   \/ actors[r] = None \/ Idle(actors[r])
                                   \/ ProbedIdle \/ JudgeSpeaks
    <3>1. PICK r \in Roles : /\ Unmapped(r)
                             /\ r = RoleNow =>
                                  \/ actors[r] = None \/ Idle(actors[r])
                                  \/ ProbedIdle \/ JudgeSpeaks
      BY <2>2
    <3>2. RoleNow \in Roles /\ RoleNow \in DOMAIN actors
      BY <1>3, <1>6
    <3>3. CASE r = RoleNow
      <4>1. Unmapped(RoleNow)
        BY <3>1, <3>3
      <4>2. \/ actors[RoleNow] = None \/ Idle(actors[RoleNow])
            \/ ProbedIdle \/ JudgeSpeaks
        BY <3>1, <3>3
      <4>3. Quiet(cur.dispatch.sess)
        BY <1>5, <1>6, <4>1, <4>2
      <4>4. actors'[RoleNow] = None
        BY <3>2, <4>1 DEF Unmapped
      <4> QED
        BY <4>3, <4>4
    <3>4. CASE r # RoleNow
      <4>1. actors' = [actors EXCEPT ![r] = None]
        BY <3>1 DEF Unmapped
      <4>2. actors'[RoleNow] = actors[RoleNow]
        BY <3>2, <3>4, <4>1
      <4> QED
        BY <4>2
    <3> QED
      BY <3>3, <3>4
  <2> QED
    BY <1>1, <1>4, <1>6, <2>1, <2>2 DEF MappingChange
<1>7. CASE DispatchSame
  <2>1. cur'.dispatch = cur.dispatch /\ RoleNow' = RoleNow
    BY <1>7 DEF DispatchSame, RoleNow
  <2>2. cur.dispatch # None /\ cur.dispatch.pub /\ RoleNow # Manager
    BY <1>2, <2>1
  <2>3. Quiet(cur.dispatch.sess) => QuietNext(cur.dispatch.sess)
    BY <1>1, <2>2, PublishedQuiet
  <2> QED
    BY <1>6, <2>1, <2>2, <2>3 DEF ActorQuiet
<1>8. CASE Arranged \/ (MovesOn /\ cur'.dispatch = None)
  BY <1>2, <1>8 DEF Arranged, DispatchIs
<1>9. CASE Published
  <2>1. PICK c \in calls : PublishActor(c) /\ StillCurrent(c) /\ cur'.dispatch.sess = c.sess
    BY <1>9 DEF Published
  <2>2. RoleNow' = RoleNow
    BY <1>9 DEF Published, Keeps, RoleNow
  <2>3. actors'[RoleNow] = c.sess
    BY <1>2, <1>3, <2>1, <2>2 DEF PublishActor
  <2>4. ~cur'.dispatch.settled
    BY <1>9 DEF Published, DispatchIs, RowInv, Stands
  <2>5. c.sess # None
    <3>1. c.op = "publish" /\ KnowsWork(c)
      BY <2>1 DEF PublishActor, StillCurrent, AllKnow, Knows, Work
    <3> QED
      BY <3>1, CallFields, NoneAssumption DEF IInv, KnowsWork, Sessions
  <2> QED
    BY <2>1, <2>2, <2>3, <2>4, <2>5
<1>10. CASE SettledNow
  <2>1. /\ RoleNow' = RoleNow /\ cur.dispatch # None
        /\ cur'.dispatch.pub = cur.dispatch.pub /\ cur'.dispatch.sess = cur.dispatch.sess
    BY <1>10 DEF SettledNow, DispatchSettled, DispatchIs, RoleNow
  <2>2. cur.dispatch.pub /\ RoleNow # Manager
    BY <1>2, <2>1
  <2>3. Quiet(cur.dispatch.sess)
    <3>1. CASE ProbedIdle
      <4>1. PICK c \in calls : c.op = "actorProbe" /\ StillCurrent(c) /\ Idle(c.sess)
        BY <3>1 DEF ProbedIdle
      <4>2. c.sess = cur.dispatch.sess
        BY <4>1 DEF StillCurrent, AllKnow, Knows, Owes, Matches
      <4> QED
        BY <4>1, <4>2, IdleIsQuiet
    <3>2. CASE cur.dispatch.settled
      BY <2>1, <2>2, <3>2 DEF ActorQuiet
    <3>3. CASE RoleIsIdle
      <4>1. actors[RoleNow] = None \/ Idle(actors[RoleNow])
        BY <2>2, <3>3 DEF RoleIsIdle, SessionOf
      <4>2. CASE actors[RoleNow] = None
        BY <2>1, <2>2, <4>2 DEF ActorQuiet
      <4>3. CASE actors[RoleNow] # None /\ Idle(actors[RoleNow])
        BY <2>1, <2>2, <4>3, IdleIsQuiet DEF ActorQuiet
      <4> QED
        BY <4>1, <4>2, <4>3
    <3> QED
      BY <1>10, <3>1, <3>2, <3>3 DEF SettledNow, DispatchSettles, FailedOver, TakenOver
  <2>4. QuietNext(cur.dispatch.sess)
    BY <1>1, <2>1, <2>2, <2>3, PublishedQuiet
  <2> QED
    BY <1>6, <2>1, <2>2, <2>4 DEF ActorQuiet
<1> QED
  BY <1>1, <1>7, <1>8, <1>9, <1>10, DispatchChanges

LEMMA SenderQuietStep ==
  ASSUME IInv, IInv', RowInv, AllKnow, OneSender, Settlement, Seated, Apart, ActorQuiet,
         SenderQuiet, [Next]_vars
  PROVE  SenderQuiet'
<1>1. /\ CallsChange /\ HostChange
      /\ version' = version + 1 \/ (UNCHANGED SeenRow /\ version' = version)
  BY EveryCalls, EveryHost, VersionStep
<1>2. SUFFICES ASSUME NEW d \in calls', d.ver = version', d.op \in {"compact", "send"},
                      d.sess \notin {None, ManagerSession}
               PROVE  QuietNext(d.sess)
  BY DEF SenderQuiet, Quiet, QuietNext
<1>3. CASE d \in calls
  <2>1. d.ver = version /\ UNCHANGED SeenRow
    BY <1>1, <1>2, <1>3, VersionOfCall
  <2>2. Quiet(d.sess)
    BY <1>2, <1>3, <2>1 DEF SenderQuiet
  <2>3. CASE Calm
    BY <2>2, <2>3, QuietStep
  <2>4. CASE \E c \in calls : Sent(c)
    <3>1. PICK c \in calls : Sent(c)
      BY <2>4
    <3>2. CASE StillCurrent(c) /\ Receiver(c) = d.sess
      <4>1. c.op \in {"send", "judgeSend"} /\ c.ver = version
        BY <3>1, <3>2 DEF Sent, StillCurrent
      <4>2. OfActor(d.sess)
        BY <1>2, <1>3 DEF OfActor, Work
      <4>3. c.op = "send"
        BY <3>2, <4>1, <4>2, ReceiverIsApart
      <4>4. c = d
        BY <1>2, <1>3, <2>1, <4>1, <4>3 DEF OneSender, Work
      <4>5. calls' = (calls \ {c}) \cup {[c EXCEPT !.sess = Receiver(c), !.op = "publish"]}
        BY <3>1, <4>3 DEF Sent, Resuspend, Receiver
      <4>6. [c EXCEPT !.sess = Receiver(c), !.op = "publish"].op = "publish"
        BY CallFields DEF IInv, Calls
      <4>7. d = [c EXCEPT !.sess = Receiver(c), !.op = "publish"]
        BY <1>2, <4>4, <4>5
      <4> QED
        BY <1>2, <4>6, <4>7
    <3>3. CASE ~(StillCurrent(c) /\ Receiver(c) = d.sess)
      BY <2>2, <3>1, <3>3, QuietStep
    <3> QED
      BY <3>2, <3>3
  <2> QED
    BY <1>1, <2>3, <2>4 DEF HostChange
<1>4. CASE d \notin calls
  <2>1. PICK c \in calls : GoesOn(c, d)
    BY <1>1, <1>2, <1>4 DEF CallsChange, Aside
  <2>2. CASE ArrangeGoes(c, d)
    <3>1. RoleNow # Manager /\ cur.dispatch # None /\ cur.dispatch.settled
      BY <1>2, <2>2 DEF ArrangeGoes
    <3>2. d.sess = actors[RoleNow] /\ host' = host
      BY <2>2, <3>1 DEF ArrangeGoes, SessionOf
    <3>3. d.sess = cur.dispatch.sess /\ Quiet(cur.dispatch.sess)
      BY <1>2, <3>1, <3>2 DEF Settlement, ActorQuiet
    <3> QED
      BY <3>2, <3>3 DEF Quiet, QuietNext
  <2>3. CASE ProbeGoes(c, d)
    BY <2>3 DEF ProbeGoes, Idle, QuietNext
  <2>4. CASE CompactGoes(c, d)
    <3>1. Quiet(c.sess)
      BY <1>2, <2>4 DEF CompactGoes, StillCurrent, SenderQuiet
    <3> QED
      BY <2>4, <3>1 DEF CompactGoes, Quiet, QuietNext
  <2>5. CASE SentGoes(c, d) \/ JudgeGoes(c, d) \/ RejudgeGoes(c, d) \/ TurnEndGoes(c, d)
    BY <1>2, <2>5 DEF SentGoes, JudgeGoes, RejudgeGoes, TurnEndGoes, Probes
  <2> QED
    BY <2>1, <2>2, <2>3, <2>4, <2>5 DEF GoesOn
<1> QED
  BY <1>3, <1>4

\* What is sent to the session of the Judge.
LEMMA JudgeDelivered ==
  ASSUME IInv, AllKnow, Seated, Apart, cur.judge # None, NEW c \in calls, Sent(c),
         Receiver(c) = cur.judge.sess
  PROVE  /\ c.op = "judgeSend" /\ c.sess = cur.judge.sess
         /\ StillCurrent(c) => c.id = cur.judge.id
<1>1. c.op \in {"send", "judgeSend"}
  BY DEF Sent
<1>2. OfJudge(cur.judge.sess)
  BY DEF OfJudge, JudgeInRow
<1>3. c.op = "judgeSend" /\ c.sess = cur.judge.sess
  BY <1>1, <1>2, ReceiverIsApart
<1>4. StillCurrent(c) => c.id = cur.judge.id
  BY <1>3 DEF StillCurrent, AllKnow, Knows, KnowsJudge, Judging
<1> QED
  BY <1>3, <1>4

LEMMA FreshJudgeHost ==
  ASSUME IInv, RowInv, [Next]_vars, JudgeFresh
  PROVE  Calm
<1>1. HostChange
  BY EveryHost
<1>2. version \in Nat
  BY DEF IInv, TypeOK
<1>3. CASE \E c \in calls : Sent(c)
  BY <1>2, <1>3 DEF Sent, rowVars, JudgeFresh
<1> QED
  BY <1>1, <1>3 DEF HostChange

LEMMA LatestJudgeStep ==
  ASSUME IInv, IInv', RowInv, AllKnow, Settlement, Seated, Minted, Minted', Apart, LatestJudge,
         [Next]_vars
  PROVE  LatestJudge'
<1>1. RowChange /\ HostChange /\ CallsChange
  BY EveryChange, EveryHost, EveryCalls
<1>2. CASE JudgeSame
  <2>1. /\ cur.judge # None /\ cur'.judge.id = cur.judge.id /\ cur'.judge.sess = cur.judge.sess
        /\ cur.judge.id \in Nat
    BY <1>2, FieldTypes DEF JudgeSame, IInv, TypeOK, Judges
  <2>2. ASSUME NEW h \in host', h.sess = cur.judge.sess
        PROVE  h.msg <= cur.judge.id
    <3>1. CASE Calm
      BY <2>1, <2>2, <3>1 DEF Calm, Resembles, LatestJudge
    <3>2. CASE \E c \in calls : Sent(c)
      <4>1. PICK c \in calls : Sent(c)
        BY <3>2
      <4>2. CASE h \in host
        BY <2>1, <2>2, <4>2 DEF LatestJudge
      <4>3. CASE h \notin host
        <5>1. /\ h.sess = Receiver(c)
              /\ \/ h.msg = c.id
                 \/ \E g \in host : g.sess = h.sess /\ g.msg = h.msg
          BY <4>1, <4>3, Delivered
        <5>2. c.op = "judgeSend" /\ c.sess = cur.judge.sess
          BY <2>1, <2>2, <4>1, <5>1, JudgeDelivered
        <5>3. c.id <= cur.judge.id
          BY <2>1, <5>2 DEF LatestJudge, Judging
        <5> QED
          BY <2>1, <2>2, <5>1, <5>3 DEF LatestJudge
      <4> QED
        BY <4>2, <4>3
    <3> QED
      BY <1>1, <3>1, <3>2 DEF HostChange
  <2>3. ASSUME NEW d \in calls', d.op \in Judging, d.sess = cur.judge.sess
        PROVE  d.id <= cur.judge.id
    <3>1. CASE d \in calls
      BY <2>1, <2>3, <3>1 DEF LatestJudge
    <3>2. CASE d \notin calls
      <4>1. PICK c \in calls : GoesOn(c, d)
        BY <1>1, <2>3, <3>2 DEF CallsChange, Aside, Judging
      <4>2. CASE SentGoes(c, d)
        <5>1. c.op = "judgeSend" /\ d.id = c.id /\ d.sess = c.sess
          BY <2>3, <4>2 DEF SentGoes, Sent, Judging, Receiver, Seated
        <5> QED
          BY <2>1, <2>3, <5>1 DEF LatestJudge, Judging
      <4>3. CASE RejudgeGoes(c, d)
        BY <2>1, <2>3, <4>3 DEF RejudgeGoes, LatestJudge, Judging
      <4>4. CASE JudgeGoes(c, d)
        BY <2>1, <4>4 DEF JudgeGoes
      <4>5. CASE ArrangeGoes(c, d) \/ ProbeGoes(c, d) \/ CompactGoes(c, d) \/ TurnEndGoes(c, d)
        BY <2>3, <4>5 DEF ArrangeGoes, ProbeGoes, CompactGoes, TurnEndGoes, Probes, Judging
      <4> QED
        BY <4>1, <4>2, <4>3, <4>4, <4>5 DEF GoesOn
    <3> QED
      BY <3>1, <3>2
  <2> QED
    BY <2>1, <2>2, <2>3 DEF LatestJudge
<1>3. CASE JudgeFresh
  <2>1. cur'.judge.id = version'
    BY <1>3 DEF JudgeFresh
  <2> QED
    BY <2>1 DEF LatestJudge, Minted
<1> QED
  BY <1>1, <1>2, <1>3, JudgeChanges DEF LatestJudge

\* The engine goes on with a recovery mode; only a takeover starts one.
LEMMA FollowUpGoesOn ==
  ASSUME RowChange, cur'.resolution # None, cur'.resolution.mode = "followup", cur'.judge # None
  PROVE  (cur.resolution # None /\ cur.resolution.mode = "followup") \/ TakenOver
<1>1. CASE RowSame \/ Noted \/ Arranged \/ Published \/ Claimed \/ DispatchSettles
           \/ JudgeArranged \/ JudgePublished \/ PredecessorSettles
  BY <1>1 DEF RowSame, Noted, Arranged, Published, Claimed, DispatchSettles, JudgeArranged,
     JudgePublished, PredecessorSettles, KeepsVerdict
<1>2. CASE Rejected \/ FailedOver \/ Returned
  BY <1>2 DEF Rejected, FailedOver, Returned
<1>3. CASE MovesOn
  BY <1>3 DEF MovesOn, NewWorkOrder
<1>4. CASE ContextAsked \/ RunCompletes
  <2>1. cur'.resolution = ModeSpent(cur.resolution)
    BY <1>4 DEF ContextAsked, RunCompletes, Exited
  <2>2. CASE cur.resolution # None /\ cur.resolution.target = "judge"
    <3>1. cur'.resolution = [cur.resolution EXCEPT !.mode = "none", !.sess = None]
      BY <2>1, <2>2 DEF ModeSpent
    <3>2. cur'.resolution.mode # "followup" \/ cur.resolution.mode = "followup"
      BY <3>1
    <3> QED
      BY <2>2, <3>2
  <2>3. CASE ~(cur.resolution # None /\ cur.resolution.target = "judge")
    BY <2>1, <2>3 DEF ModeSpent
  <2> QED
    BY <2>2, <2>3
<1> QED
  BY <1>1, <1>2, <1>3, <1>4 DEF RowChange

LEMMA JudgeQuietStep ==
  ASSUME IInv, IInv', RowInv, AllKnow, Settlement, Seated, Minted, Apart, JudgeQuiet,
         [Next]_vars
  PROVE  JudgeQuiet'
<1>1. RowChange /\ HostChange
  BY EveryChange, EveryHost
<1>2. SUFFICES ASSUME cur'.judge # None, cur'.resolution # None,
                      cur'.resolution.mode = "followup",
                      NEW h \in host', h.sess = cur'.judge.sess, ~h.late,
                      h.msg < cur'.judge.id
               PROVE  h.st = "idle"
  BY DEF JudgeQuiet
<1>3. CASE JudgeFresh
  <2>1. PICK g \in host : Resembles(h, g)
    BY <1>3, FreshJudgeHost DEF Calm
  <2>2. CASE cur'.judge.sess = version + 1
    <3>1. g.sess <= version /\ g.sess \in Nat /\ version \in Nat
      BY TurnFields DEF IInv, TypeOK, Minted, Sessions
    <3> QED
      BY <1>2, <2>1, <2>2, <3>1 DEF Resembles
  <2>3. CASE Continued(cur'.judge.sess)
    <3>1. g.st = "idle"
      BY <1>2, <2>1, <2>3 DEF Continued, Idle, Resembles
    <3> QED
      BY <2>1, <3>1 DEF Resembles
  <2> QED
    BY <1>3, <2>2, <2>3 DEF JudgeFresh
<1>4. CASE JudgeSame
  <2>1. /\ cur.judge # None /\ cur'.judge.id = cur.judge.id /\ cur'.judge.sess = cur.judge.sess
        /\ cur.judge.id \in Nat /\ cur.judge.id <= version /\ version \in Nat
    BY <1>4, FieldTypes DEF JudgeSame, IInv, TypeOK, Judges, Minted
  <2>2. ~TakenOver
    BY <2>1 DEF TakenOver, JudgeIs
  <2>3. cur.resolution # None /\ cur.resolution.mode = "followup"
    BY <1>1, <1>2, <2>2, FollowUpGoesOn
  <2>4. CASE Calm
    <3>1. PICK g \in host : Resembles(h, g)
      BY <2>4 DEF Calm
    <3> QED
      BY <1>2, <2>1, <2>3, <3>1 DEF Resembles, JudgeQuiet
  <2>5. CASE \E c \in calls : Sent(c)
    <3>1. PICK c \in calls : Sent(c)
      BY <2>5
    <3>2. CASE h \in host
      BY <1>2, <2>1, <2>3, <3>2 DEF JudgeQuiet
    <3>3. CASE h \notin host
      <4>1. /\ h.sess = Receiver(c) /\ h.late = ~StillCurrent(c)
            /\ \/ h.msg = c.id
               \/ \E g \in host : g.msg = h.msg /\ c.id < g.msg
        BY <3>1, <3>3, Delivered
      <4>2. c.id = cur.judge.id
        BY <1>2, <2>1, <3>1, <4>1, JudgeDelivered
      <4> QED
        BY <1>2, <2>1, <4>1, <4>2, TurnFields DEF IInv
    <3> QED
      BY <3>2, <3>3
  <2> QED
    BY <1>1, <2>4, <2>5 DEF HostChange
<1> QED
  BY <1>1, <1>2, <1>3, <1>4, JudgeChanges

-----------------------------------------------------------------------------
(* Whose session a session is.                                             *)

UsedNext(x) == \E i \in DOMAIN past' : past'[i].dispatch.sess = x
Fewer == \A r \in Roles : actors'[r] \in {None, actors[r]}

LEMMA UsedSame ==
  ASSUME IInv, RowChange, ~MovesOn, NEW x, UsedNext(x)
  PROVE  UsedBefore(x)
<1>1. CASE past' = past
  BY <1>1 DEF UsedNext, UsedBefore
<1>2. CASE PastSettled
  BY <1>2, SettledPast DEF UsedNext, UsedBefore
<1> QED
  BY <1>1, <1>2, PastChanges

LEMMA MappingGrows ==
  ASSUME IInv, MappingChange
  PROVE  Fewer \/ \E c \in calls : PublishActor(c) /\ StillCurrent(c)
<1>1. actors \in [Roles -> Maybe(Sessions)]
  BY DEF IInv, TypeOK
<1>2. CASE actors' = actors
  BY <1>2 DEF Fewer
<1>3. CASE \E r \in Roles : Unmapped(r)
  BY <1>1, <1>3 DEF Unmapped, Fewer
<1> QED
  BY <1>2, <1>3 DEF MappingChange

LEMMA NeverUsed ==
  ASSUME IInv, RowInv, Minted
  PROVE  ~UsedBefore(version + 1)
<1>1. past \in Seq(WorkOrders) /\ version \in Nat
  BY DEF IInv, TypeOK
<1>2. ASSUME NEW i \in DOMAIN past, past[i].dispatch.sess = version + 1
      PROVE  FALSE
  <2>1. past[i] \in WorkOrders /\ Judged(past[i])
    BY <1>1, <1>2 DEF RowInv
  <2>2. past[i].dispatch # None
    BY <2>1 DEF Judged, JudgedExit, JudgmentIsCurrent, ValidWorkOrder
  <2>3. past[i].dispatch.sess <= version
    BY <1>1, <1>2, <2>2, NoneAssumption DEF Minted, Sessions
  <2> QED
    BY <1>1, <1>2, <2>3
<1> QED
  BY <1>2 DEF UsedBefore

\* What a publication writes.
LEMMA PublishedNow ==
  ASSUME IInv, RowInv, AllKnow, NEW c \in calls, PublishActor(c), StillCurrent(c)
  PROVE  /\ KnowsWork(c) /\ c.op = "publish" /\ c.sess \in Nat
         /\ cur'.node = cur.node /\ cur'.dispatch # None
         /\ cur'.dispatch.id = c.id /\ cur'.dispatch.sess = c.sess
         /\ past' = past /\ cur.phase = "working" /\ version' = version + 1
         /\ actors' = IF RoleNow = Manager THEN actors ELSE [actors EXCEPT ![RoleNow] = c.sess]
<1>1. KnowsWork(c) /\ c.op = "publish" /\ cur.phase = "working"
  BY DEF PublishActor, StillCurrent, AllKnow, Knows, Work, RowInv, AllTimely, Timely
<1>2. cur \in WorkOrders /\ cur.dispatch \in Dispatches
  BY <1>1, FieldTypes DEF IInv, TypeOK, KnowsWork
<1>3. cur' = [cur EXCEPT !.dispatch.sess = c.sess, !.dispatch.pub = TRUE] /\ version' = version + 1
  BY DEF PublishActor, Put
<1>4. cur'.dispatch = [cur.dispatch EXCEPT !.sess = c.sess, !.pub = TRUE] /\ cur'.node = cur.node
  BY <1>2, <1>3 DEF WorkOrders
<1>5. c.sess \in Nat
  <2>1. cur.dispatch.sess \in Nat \cup {None} /\ c.id \in Nat
    BY <1>2, CallFields DEF IInv, Dispatches, Maybe, Sessions
  <2> QED
    BY <1>1, <2>1 DEF KnowsWork
<1>6. cur'.dispatch \in Dispatches
  BY <1>2, <1>4, <1>5 DEF Dispatches, Maybe, Sessions
<1>7. cur'.dispatch.id = cur.dispatch.id /\ cur'.dispatch.sess = c.sess /\ cur'.dispatch # None
  BY <1>2, <1>4, <1>6, NoneAssumption DEF Dispatches
<1> QED
  BY <1>1, <1>3, <1>4, <1>5, <1>7 DEF PublishActor, KnowsWork

LEMMA PublishedSessions ==
  ASSUME IInv, RowInv, AllKnow, OwnSessions, FreshSessions,
         NEW c \in calls, PublishActor(c), StillCurrent(c)
  PROVE  OwnSessions' /\ FreshSessions'
<1>1. /\ KnowsWork(c) /\ c.op = "publish" /\ c.sess \in Nat
      /\ cur'.node = cur.node /\ cur'.dispatch # None
      /\ cur'.dispatch.id = c.id /\ cur'.dispatch.sess = c.sess
      /\ past' = past
      /\ actors' = IF RoleNow = Manager THEN actors ELSE [actors EXCEPT ![RoleNow] = c.sess]
  BY PublishedNow
<1>2. /\ RoleNow' = RoleNow /\ RoleNow \in Roles \cup {Manager}
      /\ actors \in [Roles -> Maybe(Sessions)] /\ Manager \notin Roles /\ c.sess # None
  BY <1>1, RoleType, DefinitionAssumption, NoneAssumption DEF IInv, TypeOK, RoleNow, Sessions
<1>3. cur.dispatch # None /\ cur.dispatch.id = c.id /\ cur.dispatch.sess = SessionOf(RoleNow)
      /\ c.sess = IF cur.dispatch.sess = None THEN c.id ELSE cur.dispatch.sess
  BY <1>1 DEF KnowsWork
<1>4. CASE RoleNow = Manager
  <2>1. actors' = actors /\ c.sess = ManagerSession /\ cur.dispatch.sess = ManagerSession
    BY <1>1, <1>2, <1>3, <1>4, NoneAssumption DEF SessionOf, Sessions, ManagerSession
  <2>2. OwnSessions'
    BY <1>1, <1>2, <2>1 DEF OwnSessions
  <2>3. RoleNow \notin NodeScoped
    BY <1>2, <1>4, DefinitionAssumption
  <2>4. FreshSessions'
    BY <1>1, <1>2, <2>1, <2>3 DEF FreshSessions, UsedBefore
  <2> QED
    BY <2>2, <2>4
<1>5. CASE RoleNow # Manager /\ actors[RoleNow] # None
  <2>1. cur.dispatch.sess = actors[RoleNow] /\ c.sess = actors[RoleNow] /\ RoleNow \in Roles
    BY <1>2, <1>3, <1>5 DEF SessionOf
  <2>2. actors' = actors
    BY <1>1, <1>2, <1>5, <2>1
  <2>3. OwnSessions'
    BY <1>1, <1>2, <2>1, <2>2 DEF OwnSessions
  <2>4. FreshSessions'
    BY <1>1, <1>2, <2>1, <2>2 DEF FreshSessions, UsedBefore
  <2> QED
    BY <2>3, <2>4
<1>6. CASE RoleNow # Manager /\ actors[RoleNow] = None
  <2>1. cur.dispatch.sess = None /\ c.sess = cur.dispatch.id /\ RoleNow \in Roles
    BY <1>2, <1>3, <1>6 DEF SessionOf
  <2>2. /\ ~UsedBefore(c.sess) /\ c.sess # ManagerSession
        /\ \A r \in Roles : actors[r] # c.sess
    BY <1>3, <2>1 DEF FreshSessions
  <2>3. \A r \in Roles : actors'[r] = IF r = RoleNow THEN c.sess ELSE actors[r]
    BY <1>1, <1>2, <1>6
  <2>4. OwnSessions'
    BY <1>1, <1>2, <2>2, <2>3 DEF OwnSessions
  <2>5. NodeScoped \subseteq Roles
    BY DefinitionAssumption
  <2>6. FreshSessions'
    BY <1>1, <1>2, <2>2, <2>3, <2>5 DEF FreshSessions, UsedBefore
  <2> QED
    BY <2>4, <2>6
<1> QED
  BY <1>4, <1>5, <1>6

LEMMA OwnFewer ==
  ASSUME IInv, OwnSessions, Fewer,
         cur'.dispatch # None => /\ RoleNow' = RoleNow
                                 /\ \/ cur.dispatch # None /\ cur'.dispatch.sess = cur.dispatch.sess
                                    \/ cur'.dispatch.sess = SessionOf(RoleNow)
  PROVE  OwnSessions'
<1>1. SUFFICES ASSUME NEW r \in Roles, actors'[r] # None
               PROVE  /\ actors'[r] # ManagerSession
                      /\ \A q \in Roles : actors'[q] = actors'[r] => q = r
                      /\ cur'.dispatch # None /\ r # RoleNow' => cur'.dispatch.sess # actors'[r]
  BY DEF OwnSessions, ManagerSession
<1>2. actors'[r] = actors[r] /\ actors[r] # ManagerSession
  BY <1>1 DEF Fewer, OwnSessions
<1>3. \A q \in Roles : actors'[q] = actors'[r] => q = r
  BY <1>1, <1>2 DEF Fewer, OwnSessions
<1>4. ASSUME cur'.dispatch # None, r # RoleNow'
      PROVE  cur'.dispatch.sess # actors'[r]
  <2>1. RoleNow' = RoleNow /\ (RoleNow \in Roles \/ RoleNow = Manager)
    BY <1>4, RoleType DEF IInv
  <2>2. CASE cur.dispatch # None /\ cur'.dispatch.sess = cur.dispatch.sess
    BY <1>1, <1>2, <1>4, <2>1, <2>2 DEF OwnSessions
  <2>3. CASE cur'.dispatch.sess = SessionOf(RoleNow)
    <3>1. CASE RoleNow = Manager
      BY <1>2, <2>3, <3>1 DEF SessionOf
    <3>2. CASE RoleNow \in Roles /\ RoleNow # Manager
      <4>1. cur'.dispatch.sess = actors[RoleNow]
        BY <2>3, <3>2 DEF SessionOf
      <4> QED
        BY <1>1, <1>2, <1>4, <2>1, <3>2, <4>1 DEF OwnSessions
    <3> QED
      BY <2>1, <3>1, <3>2
  <2> QED
    BY <1>4, <2>2, <2>3
<1> QED
  BY <1>2, <1>3, <1>4

LEMMA SessionsStep ==
  ASSUME IInv, IInv', RowInv, AllKnow, Minted, OwnSessions, FreshSessions, [Next]_vars
  PROVE  OwnSessions' /\ FreshSessions'
<1>1. RowChange /\ MappingChange
  BY EveryChange, EveryMapping
<1>2. NodeScoped \subseteq Roles /\ actors \in [Roles -> Maybe(Sessions)]
  BY DefinitionAssumption DEF IInv, TypeOK
<1>3. CASE \E c \in calls : PublishActor(c) /\ StillCurrent(c)
  BY <1>3, PublishedSessions
<1>4. CASE ~\E c \in calls : PublishActor(c) /\ StillCurrent(c)
  <2>1. Fewer
    BY <1>1, <1>4, MappingGrows
  <2>2. CASE MovesOn
    <3>1. cur'.dispatch = None
      BY <2>2 DEF MovesOn, NewWorkOrder
    <3>2. OwnSessions'
      BY <2>1, <3>1, OwnFewer
    <3>3. ASSUME NEW r \in NodeScoped, actors'[r] # None
          PROVE  ~UsedNext(actors'[r])
      <4>1. actors'[r] = actors[r] /\ ~UsedBefore(actors[r]) /\ r # RoleNow
        BY <1>2, <2>1, <2>2, <3>3 DEF Fewer, FreshSessions, MovesOn
      <4>2. cur.dispatch # None
        BY <2>2 DEF MovesOn, JudgeSpeaks, IInv, Materials
      <4>3. cur.dispatch.sess # actors[r]
        BY <1>2, <3>3, <4>1, <4>2 DEF OwnSessions
      <4>4. PICK left \in WorkOrders : Exited(left) /\ past' = Append(past, left)
        BY <2>2 DEF MovesOn
      <4>5. past \in Seq(WorkOrders) /\ left.dispatch = cur.dispatch
        BY <4>4 DEF Exited, IInv, TypeOK
      <4>6. \A i \in DOMAIN past' : (i \in DOMAIN past /\ past'[i] = past[i]) \/ past'[i] = left
        BY <4>4, <4>5
      <4> QED
        BY <4>1, <4>3, <4>5, <4>6 DEF UsedNext, UsedBefore
    <3> QED
      BY <3>1, <3>2, <3>3 DEF FreshSessions, UsedNext, UsedBefore
  <2>3. CASE ~MovesOn
    <3>1. \A x : UsedNext(x) => UsedBefore(x)
      BY <1>1, <2>3, UsedSame
    <3>2. \A r \in NodeScoped : actors'[r] # None => ~UsedNext(actors'[r])
      <4>1. TAKE r \in NodeScoped
      <4>2. HAVE actors'[r] # None
      <4>3. actors'[r] = actors[r]
        BY <1>2, <2>1, <4>2 DEF Fewer
      <4>4. ~UsedBefore(actors[r])
        BY <4>2, <4>3 DEF FreshSessions
      <4> QED
        BY <3>1, <4>3, <4>4
    <3>3. CASE \/ DispatchSame
               \/ SettledNow
      <4>1. /\ RoleNow' = RoleNow
            /\ cur'.dispatch # None =>
                 /\ cur.dispatch # None
                 /\ cur'.dispatch.id = cur.dispatch.id /\ cur'.dispatch.sess = cur.dispatch.sess
        BY <3>3 DEF DispatchSame, SettledNow, DispatchSettled, DispatchIs, RoleNow
      <4>2. OwnSessions'
        BY <2>1, <4>1, OwnFewer
      <4>3. cur'.dispatch # None /\ RoleNow' \in NodeScoped /\ cur'.dispatch.sess # None
              => ~UsedNext(cur'.dispatch.sess)
        BY <3>1, <4>1 DEF FreshSessions
      <4>4. ASSUME cur'.dispatch # None, cur'.dispatch.sess = None
            PROVE  /\ ~UsedNext(cur'.dispatch.id) /\ cur'.dispatch.id # ManagerSession
                   /\ \A r \in Roles : actors'[r] # cur'.dispatch.id
        <5>1. /\ ~UsedBefore(cur.dispatch.id) /\ cur.dispatch.id # ManagerSession
              /\ \A r \in Roles : actors[r] # cur.dispatch.id
          BY <4>1, <4>4 DEF FreshSessions
        <5>2. cur.dispatch.id # None
          BY <4>1, <4>4, FieldTypes, NoneAssumption DEF IInv, TypeOK, Dispatches, Sessions
        <5> QED
          BY <2>1, <3>1, <4>1, <4>4, <5>1, <5>2 DEF Fewer
      <4> QED
        BY <3>2, <4>2, <4>3, <4>4 DEF FreshSessions, UsedNext, UsedBefore, ManagerSession
    <3>4. CASE Arranged
      <4>1. /\ RoleNow' = RoleNow /\ cur'.dispatch # None
            /\ cur'.dispatch.id = version + 1 /\ cur'.dispatch.sess = SessionOf(RoleNow)
        BY <3>4 DEF Arranged, DispatchIs, Keeps, RoleNow
      <4>2. OwnSessions'
        BY <2>1, <4>1, OwnFewer
      <4>3. RoleNow' \in NodeScoped /\ cur'.dispatch.sess # None => ~UsedNext(cur'.dispatch.sess)
        <5>1. HAVE RoleNow' \in NodeScoped /\ cur'.dispatch.sess # None
        <5>2. RoleNow \in NodeScoped /\ RoleNow # Manager
          BY <4>1, <5>1, DefinitionAssumption
        <5>3. cur'.dispatch.sess = actors[RoleNow]
          BY <4>1, <5>2 DEF SessionOf
        <5> QED
          BY <3>1, <5>1, <5>2, <5>3 DEF FreshSessions
      <4>4. ~UsedNext(cur'.dispatch.id)
        BY <3>1, <4>1, NeverUsed
      <4>5. cur'.dispatch.id # ManagerSession
        BY <4>1 DEF ManagerSession, IInv, TypeOK
      <4>6. \A r \in Roles : actors'[r] # cur'.dispatch.id
        <5>1. TAKE r \in Roles
        <5>2. version \in Nat /\ actors[r] \in Nat \cup {None} /\ version + 1 # None
          BY <1>2, NoneAssumption DEF Maybe, Sessions, IInv, TypeOK
        <5>3. actors[r] \in Nat => actors[r] <= version
          BY DEF Minted, OfActor, ActorInRow
        <5> QED
          BY <2>1, <4>1, <5>2, <5>3 DEF Fewer
      <4> QED
        BY <3>2, <4>2, <4>3, <4>4, <4>5, <4>6 DEF FreshSessions, UsedNext, UsedBefore, ManagerSession
    <3>5. ~Published
      BY <1>4 DEF Published
    <3> QED
      BY <1>1, <2>3, <3>3, <3>4, <3>5, DispatchChanges
  <2> QED
    BY <2>2, <2>3
<1> QED
  BY <1>3, <1>4

-----------------------------------------------------------------------------
(* The handler of what the Run waits for is current.                       *)

LEMMA UnstoppedStep ==
  ASSUME Unstopped, RowChange
  PROVE  Unstopped'
<1>1. CASE RowSame \/ PredecessorSettles
  BY <1>1 DEF RowSame, PredecessorSettles, RunsOn, Wrote, Unstopped
<1>2. CASE Noted \/ Arranged \/ Published \/ Claimed \/ DispatchSettles \/ JudgeArranged
           \/ JudgePublished \/ Rejected \/ FailedOver \/ ContextAsked
  <2>1. Unmarked /\ (status' = "running" => status = "running")
    BY <1>2 DEF Noted, Arranged, Published, Claimed, DispatchSettles, JudgeArranged,
       JudgePublished, Rejected, FailedOver, ContextAsked, Keeps, RunsOn, Wrote
  <2> QED
    BY <2>1 DEF Unmarked, Unstopped
<1>3. CASE RunCompletes
  BY <1>3 DEF RunCompletes, Wrote, Unstopped
<1>4. CASE MovesOn
  BY <1>4 DEF MovesOn, NewWorkOrder, Unstopped
<1>5. CASE Returned \/ TakenOver
  BY <1>5 DEF Returned, TakenOver, Unstopped
<1> QED
  BY <1>1, <1>2, <1>3, <1>4, <1>5 DEF RowChange

\* A handler that goes on with the same dispatch or Judge keeps its version.
LEMMA WorkGoes ==
  ASSUME IInv, IInv', RowInv, [Next]_vars, NEW d \in calls', d \notin calls,
         d.op \in Work \cup Judging
  PROVE  \/ d.ver = version'
         \/ \E c \in calls : /\ c.id = d.id /\ c.ver = d.ver
                             /\ c.op \in Work <=> d.op \in Work
                             /\ c.op \in Judging <=> d.op \in Judging
<1>1. CallsChange
  BY EveryCalls
<1>2. PICK c \in calls : GoesOn(c, d)
  BY <1>1 DEF CallsChange, Aside, Judging, Work
<1>3. CASE ArrangeGoes(c, d)
  BY <1>3 DEF ArrangeGoes, Arranged, RunsOn, Wrote
<1>4. CASE CompactGoes(c, d) \/ JudgeGoes(c, d)
  BY <1>4 DEF CompactGoes, JudgeGoes
<1>5. CASE ProbeGoes(c, d)
  BY <1>5 DEF ProbeGoes, Work, Judging
<1>6. CASE SentGoes(c, d)
  BY <1>6 DEF SentGoes, Sent, Work, Judging
<1>7. CASE RejudgeGoes(c, d)
  BY <1>7 DEF RejudgeGoes, Work, Judging
<1>8. CASE TurnEndGoes(c, d)
  BY <1>8 DEF TurnEndGoes, Probes, Work, Judging
<1> QED
  BY <1>2, <1>3, <1>4, <1>5, <1>6, <1>7, <1>8 DEF GoesOn

\* The ways in which a Run can come to be working, or to wait for a Judge.
LEMMA WorkingNow ==
  ASSUME RowInv, RowChange, "setRoleModel" \notin Commands,
         status' = "running", cur'.phase = "working"
  PROVE  \/ RowSame
         \/ Arranged
         \/ /\ status = "running" /\ cur.phase = "working" /\ cur'.dispatch.id = cur.dispatch.id
            /\ \E c \in calls : (Compacted(c) \/ PublishActor(c)) /\ StillCurrent(c)
<1>1. CASE Noted
  BY <1>1 DEF Noted, Wrote, KeepsWork
<1>2. CASE Published
  BY <1>2 DEF Published, DispatchIs, RunsOn, Wrote
<1>3. CASE Claimed \/ DispatchSettles \/ JudgeArranged \/ Rejected \/ FailedOver \/ Returned
           \/ TakenOver
  BY <1>3 DEF Claimed, DispatchSettles, JudgeArranged, Rejected, FailedOver, Returned, TakenOver
<1>4. CASE JudgePublished
  BY <1>4 DEF JudgePublished, RowInv, Stands
<1>5. CASE ContextAsked \/ RunCompletes
  BY <1>5 DEF ContextAsked, RunCompletes, Wrote
<1>6. CASE MovesOn
  BY <1>6 DEF MovesOn, NewWorkOrder
<1>7. CASE PredecessorSettles
  BY <1>7 DEF PredecessorSettles
<1> QED
  BY <1>1, <1>2, <1>3, <1>4, <1>5, <1>6, <1>7 DEF RowChange

LEMMA JudgingNow ==
  ASSUME RowInv, AllKnow, Settlement, RowChange, "setRoleModel" \notin Commands,
         status' = "running", cur'.judge # None, ~cur'.judge.pub
  PROVE  RowSame \/ JudgeFresh
<1>1. CASE Noted
  <2>1. PICK c \in calls : Compacted(c) /\ StillCurrent(c)
    BY <1>1 DEF Noted, Wrote
  <2>2. cur.phase = "working"
    BY <2>1 DEF RowInv, AllTimely, Timely, StillCurrent, Compacted
  <2> QED
    BY <1>1, <2>2 DEF Noted, KeepsWork, RowInv, Stands
<1>2. CASE Arranged \/ Published \/ Claimed \/ FailedOver \/ PredecessorSettles
  BY <1>2 DEF Arranged, Published, Claimed, FailedOver, PredecessorSettles, RowInv, Stands
<1>3. CASE DispatchSettles
  <2>1. PICK c \in calls : c.op = "actorProbe" /\ StillCurrent(c)
    BY <1>3 DEF DispatchSettles, ProbedIdle
  <2>2. ~cur.dispatch.settled
    BY <2>1 DEF StillCurrent, AllKnow, Knows, Owes
  <2> QED
    BY <1>3, <2>2 DEF DispatchSettles, RowInv, Stands
<1>4. CASE JudgeArranged \/ TakenOver
  BY <1>4 DEF JudgeArranged, TakenOver, JudgeIs, RunsOn, Wrote, Settlement, JudgeFresh
<1>5. CASE JudgePublished \/ ContextAsked \/ RunCompletes
  BY <1>5 DEF JudgePublished, ContextAsked, RunCompletes, Wrote
<1>6. CASE Rejected \/ Returned
  BY <1>6 DEF Rejected, Returned
<1>7. CASE MovesOn
  BY <1>7 DEF MovesOn, NewWorkOrder
<1> QED
  BY <1>1, <1>2, <1>3, <1>4, <1>5, <1>6, <1>7 DEF RowChange

LEMMA CarryingStep ==
  ASSUME IInv, IInv', RowInv, AllKnow, OneSender, Settlement, Minted, Carrying, [Next]_vars
  PROVE  Carrying'
<1>1. RowChange /\ version \in Nat
  BY EveryChange DEF IInv, TypeOK
<1>2. SUFFICES ASSUME "setRoleModel" \notin Commands, status' = "running", NEW d \in calls'
               PROVE  /\ d.op \in Work /\ cur'.phase = "working" /\ cur'.dispatch.id = d.id
                           => d.ver = version'
                      /\ d.op \in Judging /\ cur'.judge # None /\ cur'.judge.id = d.id
                         /\ ~cur'.judge.pub => d.ver = version'
  BY DEF Carrying
<1>3. ASSUME RowSame
      PROVE  /\ d.op \in Work /\ cur'.phase = "working" /\ cur'.dispatch.id = d.id
                  => d.ver = version'
             /\ d.op \in Judging /\ cur'.judge # None /\ cur'.judge.id = d.id
                /\ ~cur'.judge.pub => d.ver = version'
  <2>1. CASE d \in calls
    BY <1>2, <1>3, <2>1 DEF RowSame, Carrying
  <2>2. CASE d \notin calls /\ d.op \in Work \cup Judging
    <3>1. \/ d.ver = version'
          \/ \E c \in calls : /\ c.id = d.id /\ c.ver = d.ver
                              /\ c.op \in Work <=> d.op \in Work
                              /\ c.op \in Judging <=> d.op \in Judging
      BY <2>2, WorkGoes
    <3> QED
      BY <1>2, <1>3, <3>1 DEF RowSame, Carrying
  <2> QED
    BY <2>1, <2>2
\* No handler that is suspended knows of an id that is minted only now.
<1>4. ASSUME version' = version + 1, d.id = version + 1, d.op \in Work \cup Judging
      PROVE  d.ver = version'
  <2>1. d \notin calls
    BY <1>1, <1>4 DEF Minted
  <2>2. \A c \in calls : c.op \in Work \cup Judging => c.id # d.id
    BY <1>1, <1>4 DEF Minted
  <2> QED
    BY <1>4, <2>1, <2>2, WorkGoes
<1>5. ASSUME d.op \in Work, cur'.phase = "working", cur'.dispatch.id = d.id
      PROVE  d.ver = version'
  <2>1. CASE RowSame
    BY <1>3, <1>5, <2>1
  <2>2. CASE Arranged
    BY <1>4, <1>5, <2>2 DEF Arranged, DispatchIs, RunsOn, Wrote
  <2>3. CASE /\ status = "running" /\ cur.phase = "working" /\ cur'.dispatch.id = cur.dispatch.id
             /\ \E c \in calls : (Compacted(c) \/ PublishActor(c)) /\ StillCurrent(c)
    <3>1. PICK c \in calls : (Compacted(c) \/ PublishActor(c)) /\ StillCurrent(c)
      BY <2>3
    <3>2. c.op \in Work /\ c.ver = version
      BY <3>1 DEF Compacted, PublishActor, StillCurrent, Work
    <3>3. \/ calls' = calls \ {c}
          \/ calls' = (calls \ {c}) \cup {CallFor("send", version + 1, c.sess, c.id)}
      BY <3>1 DEF Compacted, PublishActor, Drop, Resuspend
    <3>4. version' = version + 1
      BY <3>1 DEF Compacted, PublishActor, Put
    <3>5. CASE d \in calls
      <4>1. d.ver = version
        BY <1>2, <1>5, <2>3, <3>5 DEF Carrying
      <4>2. d = c
        BY <1>5, <3>2, <3>5, <4>1 DEF OneSender
      <4>3. d = CallFor("send", version + 1, c.sess, c.id)
        BY <3>3, <4>2
      <4> QED
        BY <3>4, <4>3 DEF CallFor
    <3>6. CASE d \notin calls
      BY <3>3, <3>4, <3>6 DEF CallFor
    <3> QED
      BY <3>5, <3>6
  <2> QED
    BY <1>1, <1>2, <1>5, <2>1, <2>2, <2>3, WorkingNow
<1>6. ASSUME d.op \in Judging, cur'.judge # None, cur'.judge.id = d.id, ~cur'.judge.pub
      PROVE  d.ver = version'
  <2>1. CASE RowSame
    BY <1>3, <1>6, <2>1
  <2>2. CASE JudgeFresh
    BY <1>4, <1>6, <2>2 DEF JudgeFresh
  <2> QED
    BY <1>1, <1>2, <1>6, <2>1, <2>2, JudgingNow
<1> QED
  BY <1>5, <1>6

-----------------------------------------------------------------------------
(* The theorems.                                                           *)

SessionInv ==
  /\ AllKnow /\ OneSender /\ Settlement /\ Seated /\ Minted /\ Apart
  /\ ActorQuiet /\ SenderQuiet /\ LatestJudge /\ JudgeQuiet
  /\ OwnSessions /\ FreshSessions /\ Unstopped /\ Carrying

LEMMA InitSessionInv ==
  ASSUME Init
  PROVE  SessionInv
<1>1. /\ cur.phase = "ready" /\ cur.dispatch = None /\ cur.judge = None
      /\ cur.prevJudge = None /\ cur.resolution = None /\ cur.restart = FALSE
  BY DEF Init, NewWorkOrder
<1>2. \A c \in calls : c.op = "arrange"
  BY DEF Init, Call, CallFor
<1>3. /\ version = 1 /\ past = <<>> /\ host = {} /\ status = "running"
      /\ \A r \in Roles : actors[r] = None
  BY DEF Init
<1>4. AllKnow /\ OneSender /\ Seated /\ SenderQuiet /\ Carrying
  BY <1>2 DEF AllKnow, Knows, OneSender, Seated, SenderQuiet, Carrying, Work, Judging
<1>5. Settlement /\ ActorQuiet /\ LatestJudge /\ JudgeQuiet /\ OwnSessions /\ Unstopped
  BY <1>1, <1>3 DEF Settlement, ActorQuiet, LatestJudge, JudgeQuiet, OwnSessions, Unstopped
<1>6. FreshSessions
  BY <1>1, <1>3, DefinitionAssumption DEF FreshSessions
<1>7. \A x \in Nat : ~OfJudge(x) /\ (OfActor(x) => x = 0)
  BY <1>1, <1>2, <1>3, NoneAssumption
     DEF OfJudge, JudgeInRow, OfActor, ActorInRow, ManagerSession, Work, Judging, Sessions
<1>8. Apart
  BY <1>7 DEF Apart
<1>9. Minted
  <2>1. \A x \in Nat : OfActor(x) \/ OfJudge(x) => x <= version
    BY <1>3, <1>7
  <2> QED
    BY <1>1, <1>2, <1>3, <2>1 DEF Minted, Work, Judging
<1> QED
  BY <1>4, <1>5, <1>6, <1>8, <1>9 DEF SessionInv

LEMMA SessionInvStep ==
  ASSUME IInv, IInv', RowInv, SessionInv, [Next]_vars
  PROVE  SessionInv'
<1>1. RowChange
  BY EveryChange
<1>2. /\ AllKnow /\ OneSender /\ Settlement /\ Seated /\ Minted /\ Apart
      /\ ActorQuiet /\ SenderQuiet /\ LatestJudge /\ JudgeQuiet
      /\ OwnSessions /\ FreshSessions /\ Unstopped /\ Carrying
  BY DEF SessionInv
<1>3. AllKnow' /\ OneSender' /\ Settlement' /\ Seated'
  BY <1>2, KnowsStep, OneSenderStep, SettlementStep, SeatedStep
<1>4. Minted' /\ Apart'
  BY <1>2, MintedStep, ApartStep
<1>5. ActorQuiet' /\ SenderQuiet'
  BY <1>2, ActorQuietStep, SenderQuietStep
<1>6. LatestJudge' /\ JudgeQuiet'
  BY <1>2, <1>4, LatestJudgeStep, JudgeQuietStep
<1>7. OwnSessions' /\ FreshSessions'
  BY <1>2, SessionsStep
<1>8. Unstopped' /\ Carrying'
  BY <1>1, <1>2, UnstoppedStep, CarryingStep
<1> QED
  BY <1>3, <1>4, <1>5, <1>6, <1>7, <1>8 DEF SessionInv

\* The sessions of Actors and of Judges never mix, one handler at a time
\* carries out a dispatch, and what a handler remembers of a session over an
\* await is still so when the row has the version it remembers.
THEOREM SessionsHold == Spec => [](IInv /\ RowInv /\ SessionInv)
<1>1. Init => SessionInv
  BY InitSessionInv
<1>2. IInv /\ IInv' /\ RowInv /\ SessionInv /\ [Next]_vars => SessionInv'
  BY SessionInvStep
<1> QED
  BY <1>1, <1>2, RowsHold, PTL DEF Spec

\* A Judge that has been told of a Role's claim reads what no turn of that Role
\* still changes, whatever drains, takeovers and stale drives came before.
THEOREM JudgesReadClosedWork == Spec => []JudgeReadsClosedWork
<1>1. IInv /\ RowInv /\ SessionInv => JudgeReadsClosedWork
  <2>1. SUFFICES ASSUME IInv, RowInv, SessionInv, status = "running",
                        cur.phase = "checking", cur.judge # None, cur.judge.pub
                 PROVE  /\ cur.dispatch.settled
                        /\ RoleNow # Manager => Quiet(cur.dispatch.sess)
    BY DEF JudgeReadsClosedWork
  <2>2. cur.dispatch # None /\ cur.dispatch.settled
    BY <2>1 DEF IInv, Materials, RowInv, Stands
  <2>3. cur.dispatch.pub
    BY <2>1, <2>2 DEF SessionInv, Settlement
  <2> QED
    BY <2>1, <2>2, <2>3 DEF SessionInv, ActorQuiet
<1> QED
  BY <1>1, SessionsHold, PTL

\* A current handler that is about to send finds the session it sends to
\* idle, however long ago that session was probed.
THEOREM SendersFindIdleSessions == Spec => []SendsToIdleSessions
<1>1. IInv /\ RowInv /\ SessionInv => SendsToIdleSessions
  <2>1. SUFFICES ASSUME IInv, RowInv, SessionInv, NEW c \in calls, StillCurrent(c),
                        c.sess \notin {None, ManagerSession}
                 PROVE  /\ c.op = "send" => Quiet(c.sess)
                        /\ c.op = "judgeSend" /\ cur.resolution # None
                           /\ cur.resolution.mode = "followup"
                             => \A h \in host :
                                  h.sess = c.sess /\ ~h.late /\ h.msg # c.id => h.st = "idle"
    BY DEF SendsToIdleSessions
  <2>2. c.op = "send" => Quiet(c.sess)
    BY <2>1 DEF SessionInv, SenderQuiet, StillCurrent
  <2>3. ASSUME c.op = "judgeSend", cur.resolution # None, cur.resolution.mode = "followup",
               NEW h \in host, h.sess = c.sess, ~h.late, h.msg # c.id
        PROVE  h.st = "idle"
    <3>1. cur.judge # None /\ cur.judge.id = c.id /\ cur.judge.sess = c.sess
      BY <2>1, <2>3 DEF SessionInv, AllKnow, Knows, KnowsJudge, StillCurrent, Judging
    <3>2. h.msg <= cur.judge.id /\ h.msg \in Nat /\ c.id \in Nat
      BY <2>1, <2>3, <3>1, TurnFields, CallFields DEF SessionInv, LatestJudge, IInv
    <3>3. h.msg < cur.judge.id
      BY <2>3, <3>1, <3>2
    <3> QED
      BY <2>1, <2>3, <3>1, <3>3 DEF SessionInv, JudgeQuiet
  <2> QED
    BY <2>2, <2>3
<1> QED
  BY <1>1, SessionsHold, PTL

\* A Role with reuse: node never gets a second work order in one session,
\* though its mapping is deleted only after the drain of an ACCEPT was awaited.
THEOREM SessionsOfNodesAreFresh == Spec => []NodeScopedSessionsAreFresh
<1>1. IInv /\ SessionInv => NodeScopedSessionsAreFresh
  <2>1. SUFFICES ASSUME IInv, SessionInv, RoleNow \in NodeScoped, cur.dispatch # None,
                        cur.dispatch.pub
                 PROVE  ~UsedBefore(cur.dispatch.sess)
    BY DEF NodeScopedSessionsAreFresh, UsedBefore
  <2>2. cur.dispatch.sess # None
    BY <2>1 DEF SessionInv, Settlement
  <2> QED
    BY <2>1, <2>2 DEF SessionInv, FreshSessions
<1> QED
  BY <1>1, SessionsHold, PTL

\* Without workflow_set_role_model, which moves the version under a dispatch
\* that is on its way, the message that a running Run waits for is published
\* by the handler that sent it: no BLOCK, retry or restart can leave it behind.
THEOREM AcceptedIsPublished ==
  ASSUME "setRoleModel" \notin Commands
  PROVE  Spec => AcceptedDispatchIsPublished
<1>1. IInv /\ IInv' /\ RowInv /\ SessionInv /\ [Next]_vars =>
        [ \A c \in calls \ calls' :
            /\ status = "running"
            /\ \/ c.op = "publish" /\ cur.phase = "working" /\ cur.dispatch.id = c.id
               \/ /\ c.op = "judgePublish" /\ cur.judge # None /\ cur.judge.id = c.id
                  /\ ~cur.judge.pub
            => version' > version ]_vars
  <2>1. SUFFICES ASSUME IInv, RowInv, SessionInv, [Next]_vars, NEW c \in calls, c \notin calls',
                        status = "running",
                        \/ c.op = "publish" /\ cur.phase = "working" /\ cur.dispatch.id = c.id
                        \/ /\ c.op = "judgePublish" /\ cur.judge # None /\ cur.judge.id = c.id
                           /\ ~cur.judge.pub
                 PROVE  version' > version
    OBVIOUS
  <2>2. StillCurrent(c) /\ version + 1 > version /\ ~cur.restart
    BY <2>1 DEF SessionInv, Carrying, Unstopped, Work, Judging, StillCurrent, IInv, TypeOK
  <2>3. ASSUME NEW e \in calls, Continues(e)
        PROVE  version' > version
    <3>1. CASE PublishActor(c) \/ PublishJudge(c)
      BY <2>2, <3>1 DEF PublishActor, PublishJudge, Put
    <3>2. CASE ~(PublishActor(c) \/ PublishJudge(c))
      <4>1. e # c
        BY <2>1, <2>3, <3>2 DEF Continues, DriveStarts, ArrangeActor, ProbeIdle, Compacted, Sent,
           ArrangeJudge, DriveFaults, ReleasedAndAccepted, TurnEndReads, ProbeUnsafe, ProbeWaiting,
           SettlesStale, TransferSettles, ActorSettles, ActorSettlesNothing, ActorFailsOver,
           ActorEndsWithoutClaim, JudgeRetries, JudgeFailsOver, RejudgeSends,
           JudgeEndsWithoutVerdict, ActivationSettles, Probing, Safe
      <4>2. calls \ {e} \subseteq calls'
        BY <2>3 DEF Continues, DriveStarts, ArrangeActor, ProbeIdle, Compacted, Sent, PublishActor,
           ArrangeJudge, PublishJudge, DriveFaults, ReleasedAndAccepted, TurnEndReads, ProbeUnsafe,
           ProbeWaiting, SettlesStale, TransferSettles, ActorSettles, ActorSettlesNothing,
           ActorFailsOver, ActorEndsWithoutClaim, JudgeRetries, JudgeFailsOver, Rejudge,
           RejudgeSends, JudgeEndsWithoutVerdict, ActivationSettles, BlockIfCurrent, Resuspend, Drop
      <4> QED
        BY <2>1, <4>1, <4>2
    <3> QED
      BY <3>1, <3>2
  <2>4. ASSUME NEW h \in host, Submits(h)
        PROVE  FALSE
    BY <2>1, <2>4 DEF Submits, NodeClaim, JudgeRejects, JudgeNeedsContext, JudgeAccepts, TurnEnds,
       TurnWakes, ActivationFails, ActorBlocks
  <2>5. CASE Commanded
    <3>1. CASE Restarts
      BY <2>2, <3>1 DEF Restarts, BlockRow, Put
    <3>2. CASE ~Restarts
      BY <2>1, <2>5, <3>2 DEF Commanded, ManagerBlocks, ResumesActor, ResumesJudge, RespawnsJudge,
         RespawnFaults, SetsRoleModel, Resets, ThenDrive
    <3> QED
      BY <3>1, <3>2
  <2>6. CASE UNCHANGED vars
    BY <2>1, <2>6 DEF vars
  <2> QED
    BY <2>1, <2>3, <2>4, <2>5, <2>6 DEF Next
<1> QED
  BY <1>1, SessionsHold, PTL DEF AcceptedDispatchIsPublished, Spec

=============================================================================
