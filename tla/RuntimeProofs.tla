--------------------------- MODULE RuntimeProofs ---------------------------
(***************************************************************************)
(* Theorems about Runtime, for every definition, every bound and every set *)
(* of commands.                                                            *)
(*                                                                         *)
(* TypeOK is not inductive: a handler updates a field of the dispatch, the *)
(* claim or the Judge it knows to be there, and what it knows it read       *)
(* before an await.  IInv adds what a work order holds in each phase        *)
(* (Materials), and what a suspended handler may rely on as long as the row *)
(* has the version it remembers (Held); that no handler remembers a version *)
(* of the future (Remembered) makes every write invalidate all the others.  *)
(***************************************************************************)
EXTENDS Runtime, SequenceTheorems, TLAPS

-----------------------------------------------------------------------------
(* The inductive invariant.                                                *)

Materials ==
  /\ cur.claim # None => cur.dispatch # None
  /\ cur.judge # None => cur.claim # None
  /\ cur.phase = "working" => cur.dispatch # None
  /\ cur.phase = "checking" => cur.claim # None
  /\ \A i \in DOMAIN past : past[i].judge # None

\* What handler c counts on when its version is still current.
Backed(c) ==
  /\ c.op \in {"probe", "compact", "send", "publish"} => cur.dispatch # None
  /\ c.op = "cwd" => cur.claim # None
  /\ c.op \in {"rejudge", "judgeSend", "judgePublish", "accept"} => cur.judge # None
  /\ c.op = "transferProbe" => past # <<>>

Remembered == \A c \in calls : c.ver <= version
Held == \A c \in calls : c.ver = version => Backed(c)

IInv == TypeOK /\ Materials /\ Remembered /\ Held

-----------------------------------------------------------------------------
(* The shapes: what the operators of Runtime return.                       *)

LEMMA RoleType ==
  ASSUME TypeOK
  PROVE  RoleNow \in Roles \cup {Manager}
BY DefinitionAssumption DEF TypeOK, RoleNow, WorkOrders

LEMMA SessionType ==
  ASSUME TypeOK, NEW r \in Roles \cup {Manager}
  PROVE  SessionOf(r) \in Maybe(Sessions)
BY DEF TypeOK, SessionOf, ManagerSession, Maybe, Sessions

LEMMA NewWorkOrderType ==
  ASSUME NEW n \in Nodes
  PROVE  /\ NewWorkOrder(n) \in WorkOrders
         /\ NewWorkOrder(n).phase = "ready"
         /\ NewWorkOrder(n).dispatch = None
         /\ NewWorkOrder(n).claim = None
         /\ NewWorkOrder(n).judge = None
BY DEF NewWorkOrder, WorkOrders, Maybe

LEMMA CallType ==
  ASSUME NEW op \in Steps, NEW v \in Nat, NEW s \in Maybe(Sessions), NEW i \in Nat
  PROVE  CallFor(op, v, s, i) \in Calls
BY DEF CallFor, Calls

LEMMA PlainCallType ==
  ASSUME NEW op \in Steps, NEW v \in Nat
  PROVE  Call(op, v) \in Calls
BY CallType DEF Call, Maybe

LEMMA FieldTypes ==
  ASSUME NEW e \in WorkOrders
  PROVE  /\ e.node \in Nodes /\ e.iv \in Nat
         /\ e.dispatch # None => e.dispatch \in Dispatches
         /\ e.claim # None => e.claim \in Claims
         /\ e.judge # None => e.judge \in Judges
         /\ e.judgment # None => e.judgment \in Judgments
         /\ e.resolution # None => e.resolution \in Resolutions
         /\ e.prevJudge # None => e.prevJudge \in Judges
BY DEF WorkOrders, Maybe

LEMMA NewJudgeType ==
  ASSUME NEW e \in WorkOrders, e.claim # None, NEW i \in Nat, NEW s \in Sessions, NEW v \in Nat
  PROVE  NewJudge(e, i, s, v) \in Judges /\ NewJudge(e, i, s, v) # None
<1>1. e.claim.id \in Nat
  BY FieldTypes DEF Claims
<1>2. NewJudge(e, i, s, v) \in Judges
  BY <1>1 DEF NewJudge, Judges
<1> QED
  BY <1>2, NoneAssumption

\* The drive that follows a write reads a row it can work with.
LEMMA DriveReadsType ==
  ASSUME NEW e, NEW v \in Nat
  PROVE  /\ DriveReads(e, v) \in SUBSET Calls
         /\ \A c \in DriveReads(e, v) :
              c.ver = v /\ c.op \in {"arrange", "cwd"} /\ (c.op = "cwd" => e.claim # None)
<1>1. Call("arrange", v) \in Calls /\ Call("cwd", v) \in Calls
  BY PlainCallType DEF Steps
<1>2. /\ Call("arrange", v).ver = v /\ Call("arrange", v).op = "arrange"
      /\ Call("cwd", v).ver = v /\ Call("cwd", v).op = "cwd"
  BY DEF Call, CallFor
<1> QED BY <1>1, <1>2 DEF DriveReads

LEMMA CallFields ==
  ASSUME TypeOK, NEW c \in calls
  PROVE  /\ c \in Calls /\ c.op \in Steps /\ c.ver \in Nat
         /\ c.sess \in Maybe(Sessions) /\ c.id \in Nat /\ c.from \in Nat
BY DEF TypeOK, Calls

LEMMA TurnFields ==
  ASSUME TypeOK, NEW h \in host
  PROVE  h \in Turns /\ h.sess \in Sessions /\ h.msg \in Nat
BY DEF TypeOK, Turns

\* Another step of the same handler.
LEMMA NextStepType ==
  ASSUME TypeOK, NEW c \in calls, NEW op \in Steps
  PROVE  /\ [c EXCEPT !.op = op] \in Calls
         /\ [c EXCEPT !.op = op].op = op /\ [c EXCEPT !.op = op].ver = c.ver
BY CallFields DEF Calls

\* What the Host's side of a step does to its sessions.
LEMMA SetTurnType ==
  ASSUME TypeOK, NEW h \in host, NEW st \in {"busy", "waiting", "idle"}, SetTurn(h, st)
  PROVE  host' \in SUBSET Turns
BY DEF TypeOK, SetTurn, Turns

LEMMA QuiesceType ==
  ASSUME TypeOK, NEW S, Quiesce(S)
  PROVE  host' \in SUBSET Turns
BY DEF TypeOK, Quiesce, Turns

LEMMA DeliverType ==
  ASSUME TypeOK, NEW s \in Sessions, NEW m \in Nat, NEW late \in BOOLEAN,
         Deliver(s, m, late)
  PROVE  host' \in SUBSET Turns
BY DEF TypeOK, Deliver, Turns

-----------------------------------------------------------------------------
(* The two kinds of step: one that leaves the row alone, one that writes it. *)

LEMMA ReadStep ==
  ASSUME IInv, UNCHANGED rowVars, calls' \subseteq Calls,
         \A d \in calls' : d \in calls
           \/ (d.ver <= version /\ (d.ver = version => Backed(d))),
         host' \subseteq Turns, used' \in Nat
  PROVE  IInv'
<1>1. TypeOK'
  BY DEF IInv, TypeOK, rowVars
<1>2. Materials'
  BY DEF IInv, Materials, rowVars
<1>3. Remembered' /\ Held'
  BY DEF IInv, Remembered, Held, Backed, rowVars
<1> QED
  BY <1>1, <1>2, <1>3 DEF IInv

\* After a write every other handler's version is a thing of the past.
LEMMA WriteStep ==
  ASSUME IInv, version' = version + 1, status' \in Statuses, cur' \in WorkOrders,
         past' \in Seq(WorkOrders), actors' \in [Roles -> Maybe(Sessions)],
         stage' \in [Roles \cup {Judge} -> Stages], Materials',
         calls' \subseteq Calls,
         \A d \in calls' : d \in calls \/ (d.ver <= version' /\ Backed(d)'),
         host' \subseteq Turns, used' \in Nat
  PROVE  IInv'
<1>1. TypeOK'
  BY DEF IInv, TypeOK
<1>2. version \in Nat /\ \A d \in calls : d.ver \in Nat /\ d.ver <= version
  BY DEF IInv, TypeOK, Remembered, Calls
<1>3. Remembered'
  BY <1>2 DEF Remembered
<1>4. Held'
  BY <1>2 DEF Held
<1> QED
  BY <1>1, <1>3, <1>4 DEF IInv

LEMMA DropStep ==
  ASSUME IInv, UNCHANGED rowVars, calls' \subseteq calls,
         host' \subseteq Turns, used' \in Nat
  PROVE  IInv'
<1>1. calls \subseteq Calls
  BY DEF IInv, TypeOK
<1> QED
  BY <1>1, ReadStep

\* A handler that ends, and may BLOCK or mark the work order it leaves as it is.
LEMMA BlockStep ==
  ASSUME IInv, version' = version + 1, status' \in Statuses, cur' = cur,
         UNCHANGED <<past, actors, stage>>, calls' \subseteq calls,
         host' \subseteq Turns, used' \in Nat
  PROVE  IInv'
<1>1. TypeOK /\ Materials
  BY DEF IInv
<1>2. Materials'
  BY <1>1 DEF Materials
<1> QED
  BY <1>1, <1>2, WriteStep DEF TypeOK

LEMMA BlockIfCurrentIInv ==
  ASSUME IInv, NEW c \in calls, BlockIfCurrent(c), UNCHANGED <<past, actors, stage, host, used>>
  PROVE  IInv'
<1>1. host' \subseteq Turns /\ used' \in Nat /\ calls' \subseteq calls
  BY DEF IInv, TypeOK, BlockIfCurrent, Drop
<1>2. CASE StillCurrent(c)
  BY <1>1, <1>2, BlockStep DEF BlockIfCurrent, BlockRow, Put, Statuses
<1>3. CASE ~StillCurrent(c)
  BY <1>1, <1>3, DropStep DEF BlockIfCurrent, rowVars
<1> QED
  BY <1>2, <1>3

\* A write whose drive is awaited directly, and reads the row it has written.
LEMMA WriteAndDrive ==
  ASSUME IInv, version' = version + 1, status' \in Statuses, cur' \in WorkOrders,
         past' \in Seq(WorkOrders), actors' \in [Roles -> Maybe(Sessions)],
         stage' \in [Roles \cup {Judge} -> Stages], Materials',
         NEW e, e = cur', calls' \subseteq calls \cup DriveReads(e, version + 1),
         host' \subseteq Turns, used' \in Nat
  PROVE  IInv'
<1>1. version + 1 \in Nat /\ version' \in Nat /\ calls \subseteq Calls
  BY DEF IInv, TypeOK
<1>2. \A d \in DriveReads(e, version + 1) :
        d \in Calls /\ d.ver = version' /\ Backed(d)'
  <2>1. TAKE d \in DriveReads(e, version + 1)
  <2>2. /\ d \in Calls /\ d.ver = version + 1 /\ d.op \in {"arrange", "cwd"}
        /\ d.op = "cwd" => e.claim # None
    BY <1>1, DriveReadsType
  <2> QED
    BY <2>2 DEF Backed
<1>3. calls' \subseteq Calls
      /\ \A d \in calls' : d \in calls \/ (d.ver <= version' /\ Backed(d)')
  BY <1>1, <1>2
<1> QED
  BY <1>3, WriteStep

-----------------------------------------------------------------------------
(* Initially.                                                              *)

LEMMA InitIInv ==
  ASSUME Init
  PROVE  IInv
<1> DEFINE first == [NewWorkOrder(StartNode) EXCEPT !.prepared = TRUE]
<1>1. /\ first \in WorkOrders /\ first.phase = "ready" /\ first.dispatch = None
      /\ first.claim = None /\ first.judge = None
  <2>1. StartNode \in Nodes
    BY DefinitionAssumption
  <2> DEFINE e == NewWorkOrder(StartNode)
  <2>2. /\ e \in WorkOrders /\ e.phase = "ready" /\ e.dispatch = None
        /\ e.claim = None /\ e.judge = None
    BY <2>1, NewWorkOrderType
  <2>3. first = [e EXCEPT !.prepared = TRUE]
    OBVIOUS
  <2> HIDE DEF e, first
  <2> QED
    BY <2>2, <2>3 DEF WorkOrders
<1>2. Call("arrange", 1) \in Calls /\ Call("arrange", 1).ver = 1
      /\ Call("arrange", 1).op = "arrange"
  BY PlainCallType DEF Steps, Call, CallFor
<1>3. TypeOK
  BY <1>1, <1>2 DEF Init, TypeOK, Statuses, Stages, Maybe
<1>4. Materials
  BY <1>1 DEF Init, Materials
<1>5. Remembered /\ Held
  BY <1>2 DEF Init, Remembered, Held, Backed
<1> QED
  BY <1>3, <1>4, <1>5 DEF IInv

-----------------------------------------------------------------------------
(* The steps of drive().                                                   *)

LEMMA DriveStartsIInv ==
  ASSUME IInv, NEW c \in calls, DriveStarts(c)
  PROVE  IInv'
<1> DEFINE D == {[d EXCEPT !.from = c.ver] : d \in DriveReads(cur, version)}
<1>1. version \in Nat /\ c.ver \in Nat /\ TypeOK
  BY CallFields DEF IInv, TypeOK
<1>2. \A d \in D : d \in Calls /\ d.ver = version /\ Backed(d)
  BY <1>1, DriveReadsType DEF Calls, Backed
<1>3. calls' \subseteq calls \cup D
  BY DEF DriveStarts, Resuspend
<1>4. UNCHANGED rowVars /\ host' \subseteq Turns /\ used' \in Nat /\ calls \subseteq Calls
  BY <1>1 DEF DriveStarts, TypeOK
<1> HIDE DEF D
<1>5. calls' \subseteq Calls
      /\ \A d \in calls' : d \in calls \/ (d.ver <= version /\ Backed(d))
  BY <1>1, <1>2, <1>3, <1>4
<1> QED
  BY <1>4, <1>5, ReadStep

LEMMA ArrangeActorIInv ==
  ASSUME IInv, NEW c \in calls, ArrangeActor(c)
  PROVE  IInv'
<1>1. TypeOK /\ version \in Nat /\ SessionOf(RoleNow) \in Maybe(Sessions)
  BY RoleType, SessionType DEF IInv, TypeOK
<1>2. UNCHANGED <<past, actors, stage, host, used>>
  BY DEF ArrangeActor
<1>3. CASE StillCurrent(c) /\ PredecessorSettled
  <2>1. PICK d \in Dispatches :
          cur' = [cur EXCEPT !.phase = "working", !.dispatch = d]
    <3>1. NewDispatch(version + 1, SessionOf(RoleNow)) \in Dispatches
      BY <1>1 DEF NewDispatch, Dispatches
    <3> QED
      BY <1>3, <3>1 DEF ArrangeActor, Put
  <2>2. PICK next \in Calls : /\ next.op \in {"probe", "compact", "send"}
                              /\ next.ver = version + 1
                              /\ calls' = (calls \ {c}) \cup {next}
    <3>1. PICK op \in {"probe", "compact", "send"} :
            calls' = (calls \ {c})
                       \cup {CallFor(op, version + 1, SessionOf(RoleNow), version + 1)}
      BY <1>3 DEF ArrangeActor, Resuspend
    <3>2. CallFor(op, version + 1, SessionOf(RoleNow), version + 1) \in Calls
      BY <1>1, CallType DEF Steps
    <3> QED
      BY <3>1, <3>2 DEF CallFor
  <2>3. version' = version + 1 /\ status' = "running"
    BY <1>3 DEF ArrangeActor, Put
  <2>4. cur' \in WorkOrders /\ cur'.dispatch = d /\ cur'.phase = "working"
        /\ cur'.claim = cur.claim /\ cur'.judge = cur.judge
    BY <2>1, <1>1 DEF TypeOK, WorkOrders, Maybe
  <2>5. d # None
    BY NoneAssumption
  <2>6. Materials'
    BY <1>2, <2>4, <2>5 DEF IInv, Materials
  <2>7. calls' \subseteq Calls
        /\ \A x \in calls' : x \in calls \/ (x.ver <= version' /\ Backed(x)')
    BY <1>1, <2>2, <2>3, <2>4, <2>5 DEF TypeOK, Backed
  <2> QED
    BY <1>1, <1>2, <2>3, <2>4, <2>6, <2>7, WriteStep DEF TypeOK, Statuses
<1>4. CASE ~(StillCurrent(c) /\ PredecessorSettled)
  <2>1. UNCHANGED rowVars /\ calls' \subseteq calls
    BY <1>2, <1>4 DEF ArrangeActor, Drop, rowVars
  <2> QED
    BY <1>1, <1>2, <2>1, ReadStep DEF TypeOK
<1> QED
  BY <1>3, <1>4

LEMMA ProbeIdleIInv ==
  ASSUME IInv, NEW c \in calls, ProbeIdle(c)
  PROVE  IInv'
<1>1. TypeOK /\ UNCHANGED rowVars /\ host' \subseteq Turns /\ used' \in Nat
  BY DEF IInv, TypeOK, ProbeIdle
<1>2. CASE ~StillCurrent(c)
  BY <1>1, <1>2, DropStep DEF ProbeIdle, Drop
<1>3. CASE StillCurrent(c)
  <2>1. PICK x \in Calls : x.op \in {"send", "compact"} /\ x.ver = version
                           /\ calls' = (calls \ {c}) \cup {x}
    <3>1. PICK op \in {"send", "compact"} :
            calls' = (calls \ {c}) \cup {[c EXCEPT !.op = op]}
      BY <1>3 DEF ProbeIdle, Resuspend
    <3>2. c \in Calls /\ op \in Steps /\ c.ver = version
      BY <1>1, <1>3 DEF TypeOK, Steps, StillCurrent
    <3> QED
      BY <3>1, <3>2 DEF Calls
  <2>2. cur.dispatch # None
    BY <1>3 DEF IInv, Held, Backed, StillCurrent, ProbeIdle
  <2>3. Backed(x)
    BY <2>1, <2>2 DEF Backed
  <2> QED
    BY <1>1, <2>1, <2>3, ReadStep DEF TypeOK
<1> QED
  BY <1>2, <1>3

LEMMA CompactedIInv ==
  ASSUME IInv, NEW c \in calls, Compacted(c)
  PROVE  IInv'
<1>1. TypeOK /\ Materials /\ UNCHANGED <<past, actors, stage, host, used>>
  BY DEF IInv, Compacted
<1>2. CASE ~StillCurrent(c)
  BY <1>1, <1>2, DropStep DEF Compacted, Drop, rowVars, TypeOK
<1>3. CASE StillCurrent(c)
  <2> DEFINE next == CallFor("send", version + 1, c.sess, c.id)
  <2>1. PICK x \in Calls : x.op = "send" /\ x.ver = version + 1
                           /\ calls' = (calls \ {c}) \cup {x}
    <3>1. c.sess \in Maybe(Sessions) /\ c.id \in Nat /\ version + 1 \in Nat /\ "send" \in Steps
      BY <1>1, CallFields DEF TypeOK, Steps
    <3>2. next \in Calls /\ next.op = "send" /\ next.ver = version + 1
      BY <3>1, CallType DEF CallFor
    <3> QED
      BY <1>3, <3>2 DEF Compacted, Resuspend
  <2>2. version' = version + 1 /\ status' = "running" /\ cur' = [cur EXCEPT !.prepared = TRUE]
    BY <1>3 DEF Compacted, Put
  <2>3. cur' \in WorkOrders /\ cur'.phase = cur.phase /\ cur'.dispatch = cur.dispatch
        /\ cur'.claim = cur.claim /\ cur'.judge = cur.judge
    BY <1>1, <2>2 DEF TypeOK, WorkOrders
  <2>4. cur.dispatch # None
    BY <1>3 DEF IInv, Held, Backed, StillCurrent, Compacted
  <2>5. Materials'
    BY <1>1, <2>3 DEF Materials
  <2>6. calls' \subseteq Calls
        /\ \A d \in calls' : d \in calls \/ (d.ver <= version' /\ Backed(d)')
    BY <1>1, <2>1, <2>2, <2>3, <2>4 DEF TypeOK, Backed
  <2> QED
    BY <1>1, <2>2, <2>3, <2>5, <2>6, WriteStep DEF TypeOK, Statuses
<1> QED
  BY <1>2, <1>3

LEMMA SentIInv ==
  ASSUME IInv, NEW c \in calls, Sent(c)
  PROVE  IInv'
<1> DEFINE s == IF c.sess = None THEN c.id ELSE c.sess
<1>1. TypeOK /\ UNCHANGED rowVars /\ used' \in Nat /\ s \in Sessions /\ c \in Calls
      /\ calls \subseteq Calls /\ version \in Nat
  BY CallFields DEF IInv, TypeOK, Sent, Maybe, Sessions
<1>2. host' \subseteq Turns
  <2>1. CASE StillCurrent(c)
    <3>1. Deliver(s, c.id, FALSE)
      BY <2>1 DEF Sent
    <3> QED
      BY <1>1, <3>1, CallFields, DeliverType
  <2>2. CASE ~StillCurrent(c)
    <3>1. Deliver(s, c.id, TRUE)
      BY <2>2 DEF Sent
    <3> QED
      BY <1>1, <3>1, CallFields, DeliverType
  <2> QED
    BY <2>1, <2>2
<1>3. PICK op \in {"publish", "judgePublish"} :
        /\ calls' = (calls \ {c}) \cup {[c EXCEPT !.sess = s, !.op = op]}
        /\ op = "publish" => c.op = "send"
        /\ op = "judgePublish" => c.op = "judgeSend"
  BY DEF Sent, Resuspend
<1>4. PICK x \in Calls : x.op = op /\ x.ver = c.ver /\ calls' = (calls \ {c}) \cup {x}
  BY <1>1, <1>3 DEF Calls, Steps, Maybe
<1>5. x.ver <= version /\ (x.ver = version => Backed(x))
  BY <1>3, <1>4 DEF IInv, Remembered, Held, Backed
<1> QED
  BY <1>1, <1>2, <1>4, <1>5, ReadStep

LEMMA PublishActorIInv ==
  ASSUME IInv, NEW c \in calls, PublishActor(c)
  PROVE  IInv'
<1>1. TypeOK /\ Materials /\ UNCHANGED <<past, stage, host, used>> /\ calls' \subseteq calls
  BY DEF IInv, PublishActor, Drop
<1>2. CASE ~StillCurrent(c)
  BY <1>1, <1>2, DropStep DEF PublishActor, rowVars, TypeOK
<1>3. CASE StillCurrent(c)
  <2>1. cur.dispatch # None /\ cur \in WorkOrders
    BY <1>1, <1>3 DEF IInv, TypeOK, Held, Backed, StillCurrent, PublishActor
  <2>2. cur.dispatch \in Dispatches /\ c.sess \in Maybe(Sessions)
    BY <1>1, <2>1, FieldTypes, CallFields
  <2>3. PICK d \in Dispatches : cur' = [cur EXCEPT !.dispatch = d]
    <3>1. [[cur.dispatch EXCEPT !.sess = c.sess] EXCEPT !.pub = TRUE] \in Dispatches
      BY <2>2 DEF Dispatches
    <3>2. cur' = [cur EXCEPT !.dispatch =
                    [[cur.dispatch EXCEPT !.sess = c.sess] EXCEPT !.pub = TRUE]]
      BY <1>3, <2>1 DEF PublishActor, Put, WorkOrders
    <3> QED
      BY <3>1, <3>2
  <2>4. d # None
    BY NoneAssumption
  <2>5. cur' \in WorkOrders /\ cur'.phase = cur.phase /\ cur'.dispatch = d
        /\ cur'.claim = cur.claim /\ cur'.judge = cur.judge
    BY <2>1, <2>3 DEF WorkOrders, Maybe
  <2>6. Materials'
    BY <1>1, <2>4, <2>5 DEF Materials
  <2>7. version' = version + 1 /\ status' = "running"
    BY <1>3 DEF PublishActor, Put
  <2>8. actors' \in [Roles -> Maybe(Sessions)]
    BY <1>1, <1>3, <2>2 DEF PublishActor, TypeOK
  <2> QED
    BY <1>1, <2>5, <2>6, <2>7, <2>8, WriteStep DEF TypeOK, Statuses
<1> QED
  BY <1>2, <1>3

LEMMA ArrangeJudgeIInv ==
  ASSUME IInv, NEW c \in calls, ArrangeJudge(c)
  PROVE  IInv'
<1>1. TypeOK /\ Materials /\ UNCHANGED <<past, actors, stage, host, used>>
      /\ version \in Nat /\ cur \in WorkOrders
  BY DEF IInv, ArrangeJudge, TypeOK
<1>2. CASE ~StillCurrent(c)
  BY <1>1, <1>2, DropStep DEF ArrangeJudge, Drop, rowVars, TypeOK
<1>3. CASE StillCurrent(c) /\ cur.judge = None
  <2>1. cur.claim # None /\ cur.iv \in Nat
    BY <1>1, <1>3, FieldTypes DEF IInv, Held, Backed, StillCurrent, ArrangeJudge
  <2>2. cur.resolution # None => cur.resolution.sess \in Maybe(Sessions)
    BY <1>1, FieldTypes DEF Resolutions
  <2>3. PICK s \in Sessions :
          /\ Put("running", [cur EXCEPT !.judge = NewJudge(cur, version + 1, s, cur.iv)])
          /\ Resuspend(c, {CallFor("judgeSend", version + 1, s, version + 1)})
    <3> DEFINE r    == cur.resolution
               cont == IF r # None /\ r.target = "judge" /\ r.mode = "followup"
                       THEN r.sess ELSE None
               t    == IF cont = None THEN version + 1 ELSE cont
    <3>1. t \in Sessions
      BY <1>1, <2>2 DEF Maybe, Sessions
    <3>2. /\ Put("running", [cur EXCEPT !.judge = NewJudge(cur, version + 1, t, cur.iv)])
          /\ Resuspend(c, {CallFor("judgeSend", version + 1, t, version + 1)})
      BY <1>3 DEF ArrangeJudge
    <3> HIDE DEF t
    <3> QED
      BY <3>1, <3>2
  <2>4. PICK j \in Judges : j # None /\ cur' = [cur EXCEPT !.judge = j]
    BY <1>1, <2>1, <2>3, NewJudgeType DEF Put
  <2>5. PICK x \in Calls : /\ x.op = "judgeSend" /\ x.ver = version + 1
                           /\ calls' = (calls \ {c}) \cup {x}
    <3>1. CallFor("judgeSend", version + 1, s, version + 1) \in Calls
      BY <1>1, CallType DEF Steps, Maybe
    <3> QED
      BY <2>3, <3>1 DEF CallFor, Resuspend
  <2>6. cur' \in WorkOrders /\ cur'.phase = cur.phase /\ cur'.dispatch = cur.dispatch
        /\ cur'.claim = cur.claim /\ cur'.judge # None
    BY <1>1, <2>4 DEF WorkOrders, Maybe
  <2>7. Materials'
    BY <1>1, <2>1, <2>6 DEF Materials
  <2>8. version' = version + 1 /\ status' = "running"
    BY <2>3 DEF Put
  <2>9. calls' \subseteq Calls
        /\ \A d \in calls' : d \in calls \/ (d.ver <= version' /\ Backed(d)')
    BY <1>1, <2>5, <2>6, <2>8 DEF TypeOK, Backed
  <2> QED
    BY <1>1, <2>6, <2>7, <2>8, <2>9, WriteStep DEF TypeOK, Statuses
<1>4. CASE StillCurrent(c) /\ cur.judge # None
  <2>1. cur.judge \in Judges /\ c \in Calls /\ UNCHANGED rowVars
    BY <1>1, <1>4, FieldTypes DEF ArrangeJudge, rowVars, TypeOK
  <2> DEFINE x == [c EXCEPT !.op = "judgeSend", !.sess = cur.judge.sess, !.id = cur.judge.id]
  <2>2. calls' \subseteq calls \cup {x}
    BY <1>4 DEF ArrangeJudge, Resuspend
  <2>3. x \in Calls /\ x.op = "judgeSend" /\ x.ver = c.ver
    BY <2>1 DEF Calls, Judges, Steps, Maybe
  <2>4. x.ver <= version /\ Backed(x)
    BY <1>1, <1>4, <2>3 DEF StillCurrent, Backed
  <2> HIDE DEF x
  <2> QED
    BY <1>1, <2>1, <2>2, <2>3, <2>4, ReadStep DEF TypeOK
<1> QED
  BY <1>2, <1>3, <1>4

LEMMA PublishJudgeIInv ==
  ASSUME IInv, NEW c \in calls, PublishJudge(c)
  PROVE  IInv'
<1>1. TypeOK /\ Materials /\ UNCHANGED <<past, actors, stage, host, used>>
      /\ calls' \subseteq calls
  BY DEF IInv, PublishJudge, Drop
<1>2. CASE ~StillCurrent(c)
  BY <1>1, <1>2, DropStep DEF PublishJudge, rowVars, TypeOK
<1>3. CASE StillCurrent(c)
  <2>1. cur.judge # None /\ cur \in WorkOrders
    BY <1>1, <1>3 DEF IInv, TypeOK, Held, Backed, StillCurrent, PublishJudge
  <2>2. PICK j \in Judges : cur' = [cur EXCEPT !.judge = j]
    <3>1. [cur.judge EXCEPT !.pub = TRUE] \in Judges
      BY <2>1, FieldTypes DEF Judges
    <3>2. cur' = [cur EXCEPT !.judge = [cur.judge EXCEPT !.pub = TRUE]]
      BY <1>3, <2>1 DEF PublishJudge, Put, WorkOrders
    <3> QED
      BY <3>1, <3>2
  <2>3. cur' \in WorkOrders /\ cur'.phase = cur.phase /\ cur'.dispatch = cur.dispatch
        /\ cur'.claim = cur.claim
    BY <2>1, <2>2 DEF WorkOrders, Maybe
  <2>4. Materials'
    BY <1>1, <2>1, <2>3 DEF Materials
  <2>5. version' = version + 1 /\ status' = "running"
    BY <1>3 DEF PublishJudge, Put
  <2> QED
    BY <1>1, <2>3, <2>4, <2>5, WriteStep DEF TypeOK, Statuses
<1> QED
  BY <1>2, <1>3

LEMMA DriveFaultsIInv ==
  ASSUME IInv, NEW c \in calls, DriveFaults(c)
  PROVE  IInv'
BY BlockIfCurrentIInv DEF DriveFaults

-----------------------------------------------------------------------------
(* Submissions.                                                            *)

LEMMA VerdictType ==
  ASSUME TypeOK, cur.claim # None, cur.judge # None,
         NEW r \in {"ACCEPT", "REJECT", "NEED_CONTEXT"}
  PROVE  Verdict(r) \in Judgments
<1>1. cur.claim \in Claims /\ cur.judge \in Judges
  BY FieldTypes DEF TypeOK
<1> QED
  BY <1>1 DEF Verdict, Judgments, Claims, Judges

LEMMA ModeSpentType ==
  ASSUME NEW r \in Maybe(Resolutions)
  PROVE  ModeSpent(r) \in Maybe(Resolutions)
<1>1. CASE r = None
  BY <1>1 DEF ModeSpent
<1>2. CASE r # None
  <2>1. r \in Resolutions
    BY <1>2 DEF Maybe
  <2>2. [r EXCEPT !.mode = "none", !.sess = None] \in Resolutions
    BY <2>1 DEF Resolutions, Maybe
  <2> QED
    BY <2>1, <2>2 DEF ModeSpent, Maybe
<1> QED
  BY <1>1, <1>2

LEMMA NodeClaimIInv ==
  ASSUME IInv, NEW h \in host, NEW r \in Results, NodeClaim(h, r)
  PROVE  IInv'
<1>1. /\ TypeOK /\ Materials /\ UNCHANGED <<past, actors, stage, calls, host, used>>
      /\ version \in Nat /\ cur \in WorkOrders
  BY DEF IInv, NodeClaim, TypeOK
<1>2. cur.dispatch # None /\ cur.judge = None
  BY <1>1 DEF Materials, NodeClaim
<1>3. PICK k \in Claims : cur' = [cur EXCEPT !.phase = "checking", !.claim = k]
  <2>1. cur.dispatch.id \in Nat
    BY <1>1, <1>2, FieldTypes DEF Dispatches
  <2>2. [id |-> version + 1, dispatch |-> cur.dispatch.id, result |-> r] \in Claims
    BY <1>1, <2>1 DEF Claims
  <2> QED
    BY <2>2 DEF NodeClaim, Put
<1>4. k # None
  BY NoneAssumption
<1>5. cur' \in WorkOrders /\ cur'.phase = "checking" /\ cur'.dispatch = cur.dispatch
      /\ cur'.claim = k /\ cur'.judge = cur.judge
  BY <1>1, <1>3 DEF WorkOrders, Maybe
<1>6. Materials'
  BY <1>1, <1>2, <1>4, <1>5 DEF Materials
<1>7. version' = version + 1 /\ status' = "running"
  BY DEF NodeClaim, Put
<1> QED
  BY <1>1, <1>5, <1>6, <1>7, WriteStep DEF TypeOK, Statuses

LEMMA JudgeRejectsIInv ==
  ASSUME IInv, NEW h \in host, JudgeRejects(h)
  PROVE  IInv'
<1>1. /\ TypeOK /\ Materials /\ UNCHANGED <<past, actors, stage, host, used>>
      /\ version \in Nat /\ cur \in WorkOrders /\ cur.iv \in Nat
      /\ cur.claim \in Maybe(Claims) /\ cur.judge \in Maybe(Judges)
  BY DEF IInv, JudgeRejects, TypeOK, WorkOrders
<1>2. PICK v \in Judgments : v = Verdict("REJECT")
  BY <1>1, VerdictType DEF JudgeRejects, JudgeMaySubmit
<1>3. PICK r \in Maybe(Resolutions) :
        r = IF cur.resolution # None /\ cur.resolution.ctx
            THEN [target |-> "actor", iv |-> cur.iv + 1, ctx |-> TRUE,
                  mode |-> "none", sess |-> None]
            ELSE None
  <2>1. [target |-> "actor", iv |-> cur.iv + 1, ctx |-> TRUE,
         mode |-> "none", sess |-> None] \in Resolutions
    BY <1>1 DEF Resolutions, Maybe
  <2> QED
    BY <2>1 DEF Maybe
<1>4. cur' = [cur EXCEPT !.prevClaim = cur.claim, !.prevJudge = cur.judge,
                !.judgment = v, !.claim = None, !.judge = None, !.retried = FALSE,
                !.phase = "ready", !.iv = cur.iv + 1, !.resolution = r]
  BY <1>2, <1>3 DEF JudgeRejects, Put
<1>5. cur' \in WorkOrders /\ cur'.phase = "ready" /\ cur'.claim = None /\ cur'.judge = None
  <2>1. PICK n \in Nat : n = cur.iv + 1
    BY <1>1
  <2>2. cur' = [cur EXCEPT !.prevClaim = cur.claim, !.prevJudge = cur.judge,
                !.judgment = v, !.claim = None, !.judge = None, !.retried = FALSE,
                !.phase = "ready", !.iv = n, !.resolution = r]
    BY <1>4, <2>1
  <2>3. cur' \in WorkOrders
    BY <1>1, <2>2 DEF WorkOrders, Maybe
  <2> QED
    BY <1>1, <2>2, <2>3 DEF WorkOrders
<1>6. Materials'
  BY <1>1, <1>5 DEF Materials
<1>7. version' = version + 1 /\ status' = "running"
  BY DEF JudgeRejects, Put
<1>8. PICK x \in Calls : /\ x.op = "drive" /\ x.ver = version + 1
                         /\ calls' = calls \cup {x}
  <2>1. Call("drive", version + 1) \in Calls
    BY <1>1, PlainCallType DEF Steps
  <2> QED
    BY <2>1 DEF JudgeRejects, Call, CallFor
<1>9. calls' \subseteq Calls
      /\ \A d \in calls' : d \in calls \/ (d.ver <= version' /\ Backed(d)')
  BY <1>1, <1>7, <1>8 DEF TypeOK, Backed
<1> QED
  BY <1>1, <1>5, <1>6, <1>7, <1>9, WriteStep DEF TypeOK, Statuses

LEMMA JudgeNeedsContextIInv ==
  ASSUME IInv, NEW h \in host, JudgeNeedsContext(h)
  PROVE  IInv'
<1>1. /\ TypeOK /\ Materials /\ UNCHANGED <<past, actors, stage, calls, host, used>>
      /\ cur \in WorkOrders /\ cur.resolution \in Maybe(Resolutions)
  BY DEF IInv, JudgeNeedsContext, TypeOK, WorkOrders
<1>2. PICK v \in Judgments : v = Verdict("NEED_CONTEXT")
  BY <1>1, VerdictType DEF JudgeNeedsContext, JudgeMaySubmit
<1>3. PICK r \in Maybe(Resolutions) : r = ModeSpent(cur.resolution)
  BY <1>1, ModeSpentType
<1>4. cur' = [cur EXCEPT !.prevClaim = None, !.prevJudge = None,
                !.judgment = v, !.resolution = r]
  BY <1>2, <1>3 DEF JudgeNeedsContext, BlockRow, Put
<1>5. cur' \in WorkOrders /\ cur'.phase = cur.phase /\ cur'.dispatch = cur.dispatch
      /\ cur'.claim = cur.claim /\ cur'.judge = cur.judge
  BY <1>1, <1>4 DEF WorkOrders, Maybe
<1>6. Materials'
  BY <1>1, <1>5 DEF Materials
<1>7. version' = version + 1 /\ status' = "blocked"
  BY DEF JudgeNeedsContext, BlockRow, Put
<1> QED
  BY <1>1, <1>5, <1>6, <1>7, WriteStep DEF TypeOK, Statuses

\* What an ACCEPT leaves behind.
LEMMA AdvanceType ==
  ASSUME TypeOK, NEW m, Advance(m), cur.claim # None, cur.judge # None
  PROVE  LET to == Target[cur.node][cur.claim.result]
         IN  /\ to \in Nodes \cup {Return}
             /\ \E left \in WorkOrders :
                  /\ left.judge = cur.judge /\ left.claim = cur.claim
                  /\ left.dispatch = cur.dispatch /\ left.phase = "exited"
                  /\ IF to = Return
                     THEN Put("completed", left) /\ UNCHANGED past
                     ELSE Put("running", NewWorkOrder(to)) /\ past' = Append(past, left)
<1> DEFINE to == Target[cur.node][cur.claim.result]
<1>1. cur \in WorkOrders /\ cur.resolution \in Maybe(Resolutions)
  BY DEF TypeOK, WorkOrders
<1>2. to \in Nodes \cup {Return}
  <2>1. cur.node \in Nodes /\ cur.claim.result \in Results
    BY <1>1, FieldTypes DEF Claims
  <2> QED
    BY <2>1, DefinitionAssumption
<1>3. PICK v \in Judgments : v = Verdict("ACCEPT")
  BY VerdictType
<1>4. PICK r \in Maybe(Resolutions) : r = ModeSpent(cur.resolution)
  BY <1>1, ModeSpentType
<1> DEFINE left == [cur EXCEPT !.phase = "exited", !.prevClaim = None,
                      !.prevJudge = None, !.judgment = v, !.resolution = r]
<1>5. left \in WorkOrders /\ left.judge = cur.judge /\ left.claim = cur.claim
      /\ left.dispatch = cur.dispatch /\ left.phase = "exited"
  BY <1>1 DEF WorkOrders, Maybe
<1>6. IF to = Return
      THEN Put("completed", left) /\ UNCHANGED past
      ELSE Put("running", NewWorkOrder(to)) /\ past' = Append(past, left)
  BY <1>3, <1>4 DEF Advance
<1> HIDE DEF left
<1> QED
  BY <1>2, <1>5, <1>6

LEMMA AdvanceIInv ==
  ASSUME IInv, NEW m \in [Roles -> Maybe(Sessions)], Advance(m),
         cur.claim # None, cur.judge # None,
         calls' \subseteq calls, stage' = stage, host' \subseteq Turns, used' \in Nat
  PROVE  IInv'
<1> DEFINE to == Target[cur.node][cur.claim.result]
<1>1. TypeOK /\ Materials /\ past \in Seq(WorkOrders) /\ actors' = m
  BY DEF IInv, TypeOK, Advance
<1>2. to \in Nodes \cup {Return}
  BY <1>1, AdvanceType
<1>3. PICK left \in WorkOrders :
        /\ left.judge = cur.judge /\ left.claim = cur.claim
        /\ left.dispatch = cur.dispatch /\ left.phase = "exited"
        /\ IF to = Return
           THEN Put("completed", left) /\ UNCHANGED past
           ELSE Put("running", NewWorkOrder(to)) /\ past' = Append(past, left)
  BY <1>1, AdvanceType
<1>4. CASE to = Return
  <2>1. version' = version + 1 /\ status' = "completed" /\ cur' = left /\ past' = past
    BY <1>3, <1>4 DEF Put
  <2>2. Materials'
    BY <1>1, <1>3, <2>1 DEF Materials
  <2> QED
    BY <1>1, <2>1, <2>2, WriteStep DEF TypeOK, Statuses
<1>5. CASE to # Return
  <2>1. version' = version + 1 /\ status' = "running" /\ cur' = NewWorkOrder(to)
        /\ past' = Append(past, left)
    BY <1>3, <1>5 DEF Put
  <2>2. past' \in Seq(WorkOrders) /\ \A i \in DOMAIN past' : past'[i].judge # None
    BY <1>1, <1>3, <2>1 DEF Materials
  <2>3. /\ cur' \in WorkOrders /\ cur'.phase = "ready" /\ cur'.dispatch = None
        /\ cur'.claim = None /\ cur'.judge = None
    BY <1>2, <1>5, <2>1, NewWorkOrderType
  <2>4. Materials'
    BY <2>2, <2>3 DEF Materials
  <2> QED
    BY <1>1, <2>1, <2>2, <2>3, <2>4, WriteStep DEF TypeOK, Statuses
<1> QED
  BY <1>4, <1>5

LEMMA JudgeAcceptsIInv ==
  ASSUME IInv, NEW h \in host, JudgeAccepts(h)
  PROVE  IInv'
<1>1. TypeOK /\ Materials /\ UNCHANGED <<host, used>> /\ version \in Nat
      /\ cur.claim # None /\ cur.judge # None
  BY DEF IInv, TypeOK, JudgeAccepts, JudgeMaySubmit
<1>2. CASE Releases
  <2>1. cur.judge.id \in Nat /\ h.sess \in Sessions
    BY <1>1, FieldTypes, TurnFields DEF TypeOK, Judges
  <2>2. CallFor("accept", version, h.sess, cur.judge.id) \in Calls
    BY <1>1, <2>1, CallType DEF Steps, Maybe
  <2>3. PICK x \in Calls : /\ x.op = "accept" /\ x.ver = version
                           /\ calls' = calls \cup {x}
    BY <1>2, <2>2 DEF JudgeAccepts, CallFor
  <2>4. Backed(x)
    BY <1>1, <2>3 DEF Backed
  <2>5. UNCHANGED rowVars
    BY <1>2 DEF JudgeAccepts
  <2> QED
    BY <1>1, <2>3, <2>4, <2>5, ReadStep DEF TypeOK
<1>3. CASE ~Releases
  BY <1>1, <1>3, AdvanceIInv DEF JudgeAccepts, TypeOK
<1> QED
  BY <1>2, <1>3

LEMMA ReleasedAndAcceptedIInv ==
  ASSUME IInv, NEW c \in calls, ReleasedAndAccepted(c)
  PROVE  IInv'
<1>1. TypeOK /\ Materials /\ UNCHANGED <<stage, used>> /\ calls' \subseteq calls
      /\ c.op = "accept"
  BY DEF IInv, ReleasedAndAccepted, Drop
<1>2. CASE version = c.ver /\ status = "running"
  <2>1. cur.judge # None /\ cur.claim # None
    BY <1>1, <1>2 DEF IInv, Held, Backed, Materials
  <2>2. PICK m \in [Roles -> Maybe(Sessions)] : Advance(m)
    BY <1>1, <1>2 DEF ReleasedAndAccepted, TypeOK, Maybe
  <2>3. host' \subseteq Turns
    BY <1>1, <1>2, QuiesceType DEF ReleasedAndAccepted
  <2> QED
    BY <1>1, <2>1, <2>2, <2>3, AdvanceIInv DEF TypeOK
<1>3. CASE ~(version = c.ver /\ status = "running")
  BY <1>1, <1>3, DropStep DEF ReleasedAndAccepted, rowVars, TypeOK
<1> QED
  BY <1>2, <1>3

-----------------------------------------------------------------------------
(* Ends of turns.                                                          *)

LEMMA TurnEndsIInv ==
  ASSUME IInv, NEW h \in host, TurnEnds(h)
  PROVE  IInv'
<1>1. TypeOK /\ UNCHANGED rowVars /\ used' \in Nat /\ version \in Nat
      /\ h.sess \in Maybe(Sessions) /\ h.msg \in Nat
  BY TurnFields DEF IInv, TypeOK, TurnEnds, Maybe
<1>2. host' \subseteq Turns
  BY <1>1, SetTurnType DEF TurnEnds
<1>3. PICK x \in Calls : x.op = "turnEnd" /\ x.ver = 0 /\ calls' = calls \cup {x}
  <2>1. CallFor("turnEnd", 0, h.sess, h.msg) \in Calls
    BY <1>1, CallType DEF Steps
  <2> QED
    BY <2>1 DEF TurnEnds, CallFor
<1>4. x.ver <= version /\ Backed(x)
  BY <1>1, <1>3 DEF Backed
<1> QED
  BY <1>1, <1>2, <1>3, <1>4, ReadStep DEF TypeOK

LEMMA ActivationFailsIInv ==
  ASSUME IInv, NEW h \in host, ActivationFails(h)
  PROVE  IInv'
<1>1. TypeOK /\ UNCHANGED rowVars /\ used' \in Nat /\ version \in Nat
      /\ h.sess \in Maybe(Sessions) /\ h.msg \in Nat
  BY TurnFields DEF IInv, TypeOK, ActivationFails, Maybe
<1>2. host' \subseteq Turns
  BY <1>1, SetTurnType DEF ActivationFails
<1>3. PICK x \in Calls : x.op = "activationEnd" /\ x.ver = 0 /\ calls' = calls \cup {x}
  <2>1. CallFor("activationEnd", 0, h.sess, h.msg) \in Calls
    BY <1>1, CallType DEF Steps
  <2> QED
    BY <2>1 DEF ActivationFails, CallFor
<1>4. x.ver <= version /\ Backed(x)
  BY <1>1, <1>3 DEF Backed
<1> QED
  BY <1>1, <1>2, <1>3, <1>4, ReadStep DEF TypeOK

LEMMA TurnWakesIInv ==
  ASSUME IInv, NEW h \in host, TurnWakes(h)
  PROVE  IInv'
<1>1. TypeOK /\ UNCHANGED <<rowVars, calls, used>>
  BY DEF IInv, TurnWakes
<1>2. host' \subseteq Turns
  BY <1>1, SetTurnType DEF TurnWakes
<1> QED
  BY <1>1, <1>2, DropStep DEF TypeOK

LEMMA TurnEndReadsIInv ==
  ASSUME IInv, NEW c \in calls, TurnEndReads(c)
  PROVE  IInv'
<1>1. TypeOK /\ UNCHANGED <<rowVars, host, used>> /\ version \in Nat /\ c \in Calls
  BY DEF IInv, TypeOK, TurnEndReads
<1>2. CASE calls' \subseteq calls
  BY <1>1, <1>2, DropStep DEF TypeOK
<1>3. CASE \E op \in {"transferProbe", "actorProbe", "judgeProbe"} :
             /\ calls' \subseteq calls \cup {[c EXCEPT !.op = op, !.ver = version]}
             /\ op = "transferProbe" => past # <<>>
  <2>1. PICK op \in {"transferProbe", "actorProbe", "judgeProbe"} :
             /\ calls' \subseteq calls \cup {[c EXCEPT !.op = op, !.ver = version]}
             /\ op = "transferProbe" => past # <<>>
    BY <1>3
  <2>2. PICK x \in Calls : /\ x.op = op /\ x.ver = version
                           /\ calls' \subseteq calls \cup {x}
    BY <1>1, <2>1 DEF Calls, Steps
  <2>3. Backed(x)
    BY <2>1, <2>2 DEF Backed
  <2> QED
    BY <1>1, <2>2, <2>3, ReadStep DEF TypeOK
<1>4. calls' \subseteq calls
      \/ \E op \in {"transferProbe", "actorProbe", "judgeProbe"} :
             /\ calls' \subseteq calls \cup {[c EXCEPT !.op = op, !.ver = version]}
             /\ op = "transferProbe" => past # <<>>
  BY DEF TurnEndReads, Resuspend
<1> QED
  BY <1>2, <1>3, <1>4

LEMMA ProbeUnsafeIInv ==
  ASSUME IInv, NEW c \in calls, ProbeUnsafe(c)
  PROVE  IInv'
BY BlockIfCurrentIInv DEF ProbeUnsafe

\* Handlers that end without a write.
LEMMA IdleStepsIInv ==
  ASSUME IInv, NEW c \in calls,
         ProbeWaiting(c) \/ SettlesStale(c) \/ ActorSettlesNothing(c)
  PROVE  IInv'
<1>1. UNCHANGED <<rowVars, host, used>> /\ calls' \subseteq calls
  BY DEF ProbeWaiting, SettlesStale, ActorSettlesNothing, Drop
<1> QED
  BY <1>1, DropStep DEF IInv, TypeOK

\* Handlers that end with a BLOCK.
LEMMA EndsWithoutIInv ==
  ASSUME IInv, NEW c \in calls, ActorEndsWithoutClaim(c) \/ JudgeEndsWithoutVerdict(c)
  PROVE  IInv'
<1>1. /\ UNCHANGED <<past, actors, stage, host, used>> /\ calls' \subseteq calls
      /\ version' = version + 1 /\ status' = "blocked" /\ cur' = cur
  BY DEF ActorEndsWithoutClaim, JudgeEndsWithoutVerdict, Drop, BlockRow, Put
<1> QED
  BY <1>1, BlockStep DEF IInv, TypeOK, Statuses

LEMMA ActivationSettlesIInv ==
  ASSUME IInv, NEW c \in calls, ActivationSettles(c)
  PROVE  IInv'
<1>1. UNCHANGED <<past, actors, stage, host, used>> /\ calls' \subseteq calls
  BY DEF ActivationSettles, Drop
<1>2. \/ version' = version + 1 /\ status' = "blocked" /\ cur' = cur
      \/ UNCHANGED <<status, cur, version>>
  BY DEF ActivationSettles, BlockRow, Put
<1> QED
  BY <1>1, <1>2, BlockStep, DropStep DEF IInv, TypeOK, Statuses, rowVars

LEMMA SettlePredecessorType ==
  ASSUME TypeOK, Materials, past # <<>>, SettlePredecessor
  PROVE  /\ past' \in Seq(WorkOrders) /\ Len(past') = Len(past)
         /\ past'[Len(past)].judge.settled
         /\ \A i \in DOMAIN past' :
              /\ past'[i].judge # None
              /\ i # Len(past) => past'[i] = past[i]
<1> DEFINE n == Len(past)
<1>1. n \in DOMAIN past /\ past \in Seq(WorkOrders) /\ past[n] \in WorkOrders
      /\ past[n].judge # None
  BY DEF TypeOK, Materials
<1>2. PICK w \in WorkOrders : w = [past[n] EXCEPT !.judge.settled = TRUE]
                              /\ w.judge # None /\ w.judge.settled
  <2>1. PICK j \in Judges : j = [past[n].judge EXCEPT !.settled = TRUE]
    BY <1>1, FieldTypes DEF Judges
  <2>2. j # None /\ j.settled
    BY <1>1, <2>1, NoneAssumption, FieldTypes DEF Judges
  <2>3. [past[n] EXCEPT !.judge = j] \in WorkOrders
        /\ [past[n] EXCEPT !.judge = j].judge = j
    BY <1>1 DEF WorkOrders, Maybe
  <2> QED
    BY <2>1, <2>2, <2>3
<1>3. past' = [past EXCEPT ![n] = w]
  BY <1>1, <1>2 DEF SettlePredecessor
<1>4. n \in 1 .. n /\ DOMAIN past = 1 .. n /\ past \in [1 .. n -> WorkOrders]
  BY <1>1
<1>5. /\ past' \in Seq(WorkOrders) /\ Len(past') = n
      /\ DOMAIN past' = 1 .. n /\ past'[n] = w
      /\ \A i \in 1 .. n : i # n => past'[i] = past[i]
  BY <1>1, <1>2, <1>3, <1>4, ExceptSeq
<1> QED
  BY <1>1, <1>2, <1>4, <1>5 DEF Materials

LEMMA TransferSettlesIInv ==
  ASSUME IInv, NEW c \in calls, TransferSettles(c)
  PROVE  IInv'
<1>1. /\ TypeOK /\ Materials /\ UNCHANGED <<status, cur, actors, stage, host, used>>
      /\ version' = version + 1 /\ SettlePredecessor
  BY DEF IInv, TransferSettles
<1>2. past # <<>>
  BY DEF IInv, Held, Backed, TransferSettles, Safe, StillCurrent
<1>3. past' \in Seq(WorkOrders) /\ \A i \in DOMAIN past' : past'[i].judge # None
  BY <1>1, <1>2, SettlePredecessorType
<1>4. Materials'
  BY <1>1, <1>3 DEF Materials
<1>5. calls' \subseteq calls \cup DriveReads(cur, version + 1)
  BY DEF TransferSettles, Resuspend
<1> QED
  BY <1>1, <1>3, <1>4, <1>5, WriteAndDrive DEF TypeOK

LEMMA ActorSettlesIInv ==
  ASSUME IInv, NEW c \in calls, ActorSettles(c)
  PROVE  IInv'
<1>1. TypeOK /\ Materials /\ UNCHANGED <<past, actors, stage, host, used>>
      /\ cur \in WorkOrders /\ cur.dispatch # None
  BY DEF IInv, ActorSettles, TypeOK, Materials
<1>2. PICK d \in Dispatches : d = [cur.dispatch EXCEPT !.settled = TRUE]
  BY <1>1, FieldTypes DEF Dispatches
<1>3. PICK e \in WorkOrders :
        /\ e = [cur EXCEPT !.dispatch.settled = TRUE]
        /\ e.phase = cur.phase /\ e.dispatch = d
        /\ e.claim = cur.claim /\ e.judge = cur.judge
  <2>1. [cur EXCEPT !.dispatch.settled = TRUE] = [cur EXCEPT !.dispatch = d]
    BY <1>1, <1>2 DEF WorkOrders
  <2>2. [cur EXCEPT !.dispatch = d] \in WorkOrders
    BY <1>1 DEF WorkOrders, Maybe
  <2> QED
    BY <1>1, <2>1, <2>2 DEF WorkOrders
<1>4. /\ version' = version + 1 /\ status' = "running" /\ cur' = e
      /\ calls' \subseteq calls \cup DriveReads(e, version + 1)
  BY <1>3 DEF ActorSettles, Put, Resuspend
<1>5. Materials'
  BY <1>1, <1>3, <1>4, NoneAssumption DEF Materials
<1> QED
  BY <1>1, <1>4, <1>5, WriteAndDrive DEF TypeOK, Statuses

LEMMA ActorFailsOverIInv ==
  ASSUME IInv, NEW c \in calls, ActorFailsOver(c)
  PROVE  IInv'
<1>1. TypeOK /\ Materials /\ UNCHANGED <<past, host, used>>
      /\ cur \in WorkOrders /\ cur.dispatch # None /\ version \in Nat
  BY DEF IInv, ActorFailsOver, TypeOK, Materials
<1>2. PICK d \in Dispatches : d = [cur.dispatch EXCEPT !.settled = TRUE]
  BY <1>1, FieldTypes DEF Dispatches
<1>3. PICK n \in Nat : n = cur.iv + 1
  BY <1>1, FieldTypes
<1>4. PICK r \in Resolutions :
        r = [target |-> "actor", iv |-> n, ctx |-> FALSE, mode |-> "none", sess |-> None]
  BY DEF Resolutions, Maybe
<1>5. cur' = [cur EXCEPT !.dispatch = d, !.phase = "ready", !.prepared = TRUE,
                         !.iv = n, !.resolution = r]
  BY <1>1, <1>2, <1>3, <1>4 DEF ActorFailsOver, Put, WorkOrders
<1>6. /\ cur' \in WorkOrders /\ cur'.phase = "ready" /\ cur'.dispatch = d
      /\ cur'.claim = cur.claim /\ cur'.judge = cur.judge
  BY <1>1, <1>5 DEF WorkOrders, Maybe
<1>7. Materials'
  BY <1>1, <1>6, NoneAssumption DEF Materials
<1>8. version' = version + 1 /\ status' = "running"
  BY DEF ActorFailsOver, Put
<1>9. /\ actors' \in [Roles -> Maybe(Sessions)]
      /\ stage' \in [Roles \cup {Judge} -> Stages]
  BY <1>1 DEF ActorFailsOver, TypeOK, NextStage, Stages, Maybe
<1>10. PICK x \in Calls : /\ x.op = "drive" /\ x.ver = version + 1
                          /\ calls' \subseteq calls \cup {x}
  <2>1. Call("drive", version + 1) \in Calls
    BY <1>1, PlainCallType DEF Steps
  <2> QED
    BY <2>1 DEF ActorFailsOver, Resuspend, Call, CallFor
<1>11. calls' \subseteq Calls
       /\ \A y \in calls' : y \in calls \/ (y.ver <= version' /\ Backed(y)')
  BY <1>1, <1>8, <1>10 DEF TypeOK, Backed
<1> QED
  BY <1>1, <1>6, <1>7, <1>8, <1>9, <1>11, WriteStep DEF TypeOK, Statuses

LEMMA RejudgeIInv ==
  ASSUME IInv, NEW c \in calls, NEW retried \in BOOLEAN, NEW s \in Stages,
         Rejudge(c, retried, s), cur.phase = "checking",
         UNCHANGED <<past, actors, host, used>>
  PROVE  IInv'
<1>1. TypeOK /\ Materials /\ cur \in WorkOrders /\ version \in Nat /\ cur.iv \in Nat
      /\ cur.claim # None
  BY DEF IInv, TypeOK, Materials, WorkOrders
<1>2. PICK j \in Judges : j # None /\ j = NewJudge(cur, version + 1, version + 1, cur.iv)
  BY <1>1, NewJudgeType DEF Sessions
<1>3. PICK e \in WorkOrders :
        /\ e = [cur EXCEPT !.retried = retried,
                  !.judge = NewJudge(cur, version + 1, version + 1, cur.iv)]
        /\ e.phase = cur.phase /\ e.dispatch = cur.dispatch
        /\ e.claim = cur.claim /\ e.judge = j
  <2>1. [cur EXCEPT !.retried = retried, !.judge = j] \in WorkOrders
    BY <1>1 DEF WorkOrders, Maybe
  <2> QED
    BY <1>1, <1>2, <2>1 DEF WorkOrders
<1>4. CASE ValidWorkOrder(e)
  <2>1. /\ version' = version + 1 /\ status' = "running" /\ cur' = e
        /\ stage' = [stage EXCEPT ![Judge] = s]
    BY <1>3, <1>4 DEF Rejudge, WithNewJudge, Put
  <2>2. PICK x \in Calls : /\ x.op = "rejudge" /\ x.ver = version + 1
                           /\ calls' \subseteq calls \cup {x}
    <3>1. CallFor("rejudge", version + 1, version + 1, version + 1) \in Calls
      BY <1>1, CallType DEF Steps, Maybe, Sessions
    <3> QED
      BY <1>3, <1>4, <3>1 DEF Rejudge, WithNewJudge, Resuspend, CallFor
  <2>3. Materials'
    BY <1>1, <1>3, <2>1 DEF Materials
  <2>4. calls' \subseteq Calls
        /\ \A y \in calls' : y \in calls \/ (y.ver <= version' /\ Backed(y)')
    BY <1>1, <1>2, <1>3, <2>1, <2>2 DEF TypeOK, Backed
  <2>5. stage' \in [Roles \cup {Judge} -> Stages]
    BY <1>1, <2>1 DEF TypeOK
  <2> QED
    BY <1>1, <2>1, <2>3, <2>4, <2>5, WriteStep DEF TypeOK, Statuses
<1>5. CASE ~ValidWorkOrder(e)
  <2>1. UNCHANGED rowVars /\ calls' \subseteq calls
    BY <1>3, <1>5 DEF Rejudge, WithNewJudge, Drop, rowVars
  <2> QED
    BY <1>1, <2>1, DropStep DEF TypeOK
<1> QED
  BY <1>4, <1>5

LEMMA JudgeRetriesIInv ==
  ASSUME IInv, NEW c \in calls, JudgeRetries(c)
  PROVE  IInv'
<1>1. stage[Judge] \in Stages
  BY DEF IInv, TypeOK
<1> QED
  BY <1>1, RejudgeIInv DEF JudgeRetries

LEMMA JudgeFailsOverIInv ==
  ASSUME IInv, NEW c \in calls, JudgeFailsOver(c)
  PROVE  IInv'
<1>1. NextStage(stage[Judge]) \in Stages
  BY DEF NextStage, Stages
<1>2. PICK b \in BOOLEAN : b = cur.retried
  BY DEF IInv, TypeOK, WorkOrders
<1> QED
  BY <1>1, <1>2, RejudgeIInv DEF JudgeFailsOver

LEMMA RejudgeSendsIInv ==
  ASSUME IInv, NEW c \in calls, RejudgeSends(c)
  PROVE  IInv'
<1>1. TypeOK /\ UNCHANGED <<rowVars, host, used>> /\ c \in Calls /\ version \in Nat
  BY DEF IInv, RejudgeSends, TypeOK
<1>2. CASE ~StillCurrent(c)
  BY <1>1, <1>2, DropStep DEF RejudgeSends, Resuspend, TypeOK
<1>3. CASE StillCurrent(c)
  <2>1. PICK x \in Calls : /\ x.op = "judgeSend" /\ x.ver = version
                           /\ calls' \subseteq calls \cup {x}
    <3>1. /\ [c EXCEPT !.op = "judgeSend"] \in Calls
          /\ [c EXCEPT !.op = "judgeSend"].op = "judgeSend"
          /\ [c EXCEPT !.op = "judgeSend"].ver = version
      BY <1>1, <1>3, NextStepType DEF Steps, StillCurrent
    <3> QED
      BY <1>3, <3>1 DEF RejudgeSends, Resuspend
  <2>2. Backed(x)
    BY <1>3, <2>1 DEF IInv, Held, Backed, StillCurrent, RejudgeSends
  <2> QED
    BY <1>1, <2>1, <2>2, ReadStep DEF TypeOK
<1> QED
  BY <1>2, <1>3

-----------------------------------------------------------------------------
(* Commands and faults.                                                    *)

LEMMA UsedType ==
  ASSUME TypeOK, NEW name, Command(name)
  PROVE  used' \in Nat
BY DEF TypeOK, Command

\* Commands that BLOCK the Run and leave the work order as it is.
LEMMA BlocksIInv ==
  ASSUME IInv, ManagerBlocks \/ RespawnFaults \/ \E h \in host : ActorBlocks(h)
  PROVE  IInv'
<1>1. /\ UNCHANGED <<past, actors, stage, calls, host>>
      /\ version' = version + 1 /\ status' = "blocked" /\ cur' = cur
  BY DEF ManagerBlocks, RespawnFaults, ActorBlocks, BlockRow, Put
<1>2. used' \in Nat
  BY UsedType DEF IInv, ManagerBlocks, RespawnFaults, ActorBlocks
<1> QED
  BY <1>1, <1>2, BlockStep DEF IInv, TypeOK, Statuses

LEMMA ThenDriveStep ==
  ASSUME IInv, version' = version + 1, status' \in Statuses, cur' \in WorkOrders,
         past' \in Seq(WorkOrders), actors' \in [Roles -> Maybe(Sessions)],
         stage' \in [Roles \cup {Judge} -> Stages], Materials',
         NEW e, e = cur', ThenDrive(e), host' \subseteq Turns, used' \in Nat
  PROVE  IInv'
<1>1. CASE cur.judge = None
  BY <1>1, WriteAndDrive DEF ThenDrive
<1>2. CASE cur.judge # None
  <2>1. version + 1 \in Nat /\ calls \subseteq Calls
    BY DEF IInv, TypeOK
  <2>2. PICK x \in Calls : /\ x.op = "drive" /\ x.ver = version + 1
                           /\ calls' = calls \cup {x}
    <3>1. Call("drive", version + 1) \in Calls
      BY <2>1, PlainCallType DEF Steps
    <3> QED
      BY <1>2, <3>1 DEF ThenDrive, Call, CallFor
  <2>3. calls' \subseteq Calls
        /\ \A y \in calls' : y \in calls \/ (y.ver <= version' /\ Backed(y)')
    BY <2>1, <2>2 DEF Backed
  <2> QED
    BY <2>3, WriteStep
<1> QED
  BY <1>1, <1>2

LEMMA ReturnToActorType ==
  ASSUME NEW e \in WorkOrders, NEW p \in BOOLEAN
  PROVE  /\ ReturnToActor(e, p) \in WorkOrders
         /\ ReturnToActor(e, p).phase = "ready"
         /\ ReturnToActor(e, p).claim = None
         /\ ReturnToActor(e, p).judge = None
         /\ ReturnToActor(e, p).dispatch = e.dispatch
<1> DEFINE asked == JudgmentIsCurrent(e) /\ AskedBy(e.judge, e)
           older == /\ e.judgment # None /\ e.claim # None /\ e.prevJudge # None
                    /\ e.judgment.claim = e.claim.id /\ e.judgment.iv < e.iv
                    /\ e.judgment.judge = e.prevJudge.id
                    /\ e.judgment.sess = e.prevJudge.sess
           kept  == e.claim = None \/ asked \/ older
<1>1. PICK pc \in Maybe(Claims) : pc = IF e.claim = None THEN e.prevClaim ELSE e.claim
  BY DEF WorkOrders
<1>2. PICK pj \in Maybe(Judges) :
        pj = IF e.claim # None /\ asked THEN e.judge
             ELSE IF kept THEN e.prevJudge ELSE None
  <2> HIDE DEF asked, kept
  <2> QED
    BY DEF WorkOrders, Maybe
<1>3. PICK jm \in Maybe(Judgments) : jm = IF kept THEN e.judgment ELSE None
  <2> HIDE DEF kept
  <2> QED
    BY DEF WorkOrders, Maybe
<1>4. PICK b \in BOOLEAN : b = (e.prepared \/ p)
  OBVIOUS
<1>5. PICK n \in Nat : n = e.iv + 1
  BY FieldTypes
<1>6. PICK r \in Resolutions :
        r = [target |-> "actor", iv |-> n, ctx |-> TRUE, mode |-> "none", sess |-> None]
  BY DEF Resolutions, Maybe
<1>7. ReturnToActor(e, p) =
        [e EXCEPT !.prevClaim = pc, !.prevJudge = pj, !.judgment = jm,
                  !.claim = None, !.judge = None, !.retried = FALSE, !.phase = "ready",
                  !.prepared = b, !.restart = FALSE, !.iv = n, !.resolution = r]
  BY <1>1, <1>2, <1>3, <1>4, <1>5, <1>6 DEF ReturnToActor
<1>8. PICK x : /\ x = ReturnToActor(e, p)
               /\ x = [e EXCEPT !.prevClaim = pc, !.prevJudge = pj, !.judgment = jm,
                        !.claim = None, !.judge = None, !.retried = FALSE,
                        !.phase = "ready", !.prepared = b, !.restart = FALSE, !.iv = n,
                        !.resolution = r]
  BY <1>7
<1>9. x \in WorkOrders
  BY <1>8 DEF WorkOrders, Maybe
<1>10. /\ x.phase = "ready" /\ x.claim = None /\ x.judge = None
       /\ x.dispatch = e.dispatch
  BY <1>8 DEF WorkOrders
<1> QED
  BY <1>8, <1>9, <1>10

LEMMA RecoveredType ==
  ASSUME TypeOK, Materials, Recovered
  PROVE  past' \in Seq(WorkOrders) /\ \A i \in DOMAIN past' : past'[i].judge # None
<1>1. CASE UNCHANGED past
  BY <1>1 DEF TypeOK, Materials
<1>2. CASE past # <<>> /\ SettlePredecessor
  BY <1>2, SettlePredecessorType
<1> QED
  BY <1>1, <1>2 DEF Recovered, PredecessorSettled

LEMMA ResumesActorIInv ==
  ASSUME IInv, NEW replace \in BOOLEAN, NEW skip \in BOOLEAN, ResumesActor(replace, skip)
  PROVE  IInv'
<1>1. TypeOK /\ Materials /\ cur \in WorkOrders /\ used' \in Nat /\ stage' = stage
  BY UsedType DEF IInv, TypeOK, ResumesActor
<1>2. PICK p \in BOOLEAN : p = (replace \/ skip)
  OBVIOUS
<1>3. PICK e \in WorkOrders :
        /\ e = ReturnToActor(cur, replace \/ skip)
        /\ e.phase = "ready" /\ e.claim = None /\ e.judge = None
  BY <1>1, <1>2, ReturnToActorType
<1>4. /\ version' = version + 1 /\ status' = "running" /\ cur' = e /\ ThenDrive(e)
  BY <1>3 DEF ResumesActor, Put
<1>5. past' \in Seq(WorkOrders) /\ \A i \in DOMAIN past' : past'[i].judge # None
  BY <1>1, RecoveredType DEF ResumesActor
<1>6. Materials'
  BY <1>3, <1>4, <1>5 DEF Materials
<1>7. host' \subseteq Turns
  BY <1>1, QuiesceType DEF ResumesActor
<1>8. actors' \in [Roles -> Maybe(Sessions)]
  BY <1>1 DEF ResumesActor, TypeOK, Maybe
<1> QED
  BY <1>1, <1>4, <1>5, <1>6, <1>7, <1>8, ThenDriveStep DEF TypeOK, Statuses

LEMMA RejudgedType ==
  ASSUME NEW e \in WorkOrders, e.claim # None, e.dispatch # None,
         NEW mode \in {"fresh", "followup"}, NEW s \in Maybe(Sessions), NEW id \in Nat,
         NEW ctx \in BOOLEAN
  PROVE  /\ Rejudged(e, mode, s, id, ctx) \in WorkOrders
         /\ Rejudged(e, mode, s, id, ctx).phase = e.phase
         /\ Rejudged(e, mode, s, id, ctx).claim = e.claim
         /\ Rejudged(e, mode, s, id, ctx).dispatch # None
         /\ Rejudged(e, mode, s, id, ctx).judge # None
<1>1. PICK d \in Dispatches : d = [e.dispatch EXCEPT !.settled = TRUE]
  BY FieldTypes DEF Dispatches
<1>2. PICK pj \in Maybe(Judges) :
        pj = IF JudgmentIsCurrent(e) /\ AskedBy(e.judge, e) THEN e.judge ELSE e.prevJudge
  BY DEF WorkOrders
<1>3. PICK n \in Nat : n = e.iv + 1
  BY FieldTypes
<1>4. PICK j \in Judges : /\ j # None
                          /\ j = NewJudge(e, id, IF s = None THEN id ELSE s, n)
  BY <1>3, NewJudgeType DEF Maybe, Sessions
<1>5. PICK r \in Resolutions :
        r = [target |-> "judge", iv |-> n, ctx |-> ctx, mode |-> mode, sess |-> s]
  BY DEF Resolutions
<1>6. Rejudged(e, mode, s, id, ctx) =
        [e EXCEPT !.dispatch = d, !.prevJudge = pj, !.judge = j, !.retried = FALSE,
                  !.restart = FALSE, !.iv = n, !.resolution = r]
  BY <1>1, <1>2, <1>3, <1>4, <1>5 DEF Rejudged, WorkOrders
<1>7. PICK x : /\ x = Rejudged(e, mode, s, id, ctx)
               /\ x = [e EXCEPT !.dispatch = d, !.prevJudge = pj, !.judge = j,
                        !.retried = FALSE, !.restart = FALSE, !.iv = n, !.resolution = r]
  BY <1>6
<1>8. x \in WorkOrders
  BY <1>7 DEF WorkOrders, Maybe
<1>9. x.phase = e.phase /\ x.claim = e.claim /\ x.dispatch = d /\ x.judge = j
  BY <1>7 DEF WorkOrders
<1> QED
  BY <1>4, <1>7, <1>8, <1>9, NoneAssumption

LEMMA ResumesJudgeIInv ==
  ASSUME IInv, NEW mode \in {"fresh", "followup"}, ResumesJudge(mode)
  PROVE  IInv'
<1>1. /\ TypeOK /\ Materials /\ cur \in WorkOrders /\ used' \in Nat
      /\ UNCHANGED <<past, actors, stage>> /\ cur.claim # None /\ cur.dispatch # None
      /\ version + 1 \in Nat
  BY UsedType DEF IInv, TypeOK, ResumesJudge
<1>2. PICK s \in Maybe(Sessions) :
        s = IF mode = "followup" THEN JudgeToContinue.sess ELSE None
  <2>1. JudgeToContinue \in Maybe(Judges)
    BY <1>1 DEF JudgeToContinue, WorkOrders, Maybe
  <2>2. mode = "followup" => JudgeToContinue \in Judges
    BY <2>1 DEF ResumesJudge, Maybe
  <2> QED
    BY <2>2 DEF Judges, Maybe
<1>3. PICK e \in WorkOrders :
        /\ e = Rejudged(cur, mode, s, version + 1, TRUE)
        /\ e.phase = cur.phase /\ e.claim = cur.claim
        /\ e.dispatch # None /\ e.judge # None
  BY <1>1, RejudgedType
<1>4. /\ version' = version + 1 /\ status' = "running" /\ cur' = e /\ ThenDrive(e)
  BY <1>2, <1>3 DEF ResumesJudge, Put
<1>5. Materials'
  BY <1>1, <1>3, <1>4 DEF Materials
<1>6. host' \subseteq Turns
  BY <1>1, QuiesceType DEF ResumesJudge, TypeOK
<1> QED
  BY <1>1, <1>4, <1>5, <1>6, ThenDriveStep DEF TypeOK, Statuses

LEMMA RespawnsJudgeIInv ==
  ASSUME IInv, RespawnsJudge
  PROVE  IInv'
<1>1. /\ TypeOK /\ Materials /\ cur \in WorkOrders /\ used' \in Nat
      /\ UNCHANGED <<past, actors, stage>> /\ cur.claim # None /\ cur.dispatch # None
      /\ version + 1 \in Nat
  BY UsedType DEF IInv, TypeOK, RespawnsJudge, Materials
<1>2. PICK ctx \in BOOLEAN : ctx = (cur.resolution # None /\ cur.resolution.ctx)
  OBVIOUS
<1>3. PICK e \in WorkOrders :
        /\ e = Rejudged(cur, "fresh", None, version + 1, ctx)
        /\ e.phase = cur.phase /\ e.claim = cur.claim
        /\ e.dispatch # None /\ e.judge # None
  BY <1>1, RejudgedType DEF Maybe
<1>4. /\ version' = version + 1 /\ status' = "running" /\ cur' = e
      /\ calls' \subseteq calls \cup DriveReads(e, version + 1)
  BY <1>2, <1>3 DEF RespawnsJudge, Put
<1>5. Materials'
  BY <1>1, <1>3, <1>4 DEF Materials
<1>6. host' \subseteq Turns
  BY <1>1, QuiesceType DEF RespawnsJudge
<1> QED
  BY <1>1, <1>4, <1>5, <1>6, WriteAndDrive DEF TypeOK, Statuses

LEMMA SetsRoleModelIInv ==
  ASSUME IInv, NEW key \in Roles \cup {Judge}, SetsRoleModel(key)
  PROVE  IInv'
<1>1. /\ TypeOK /\ Materials /\ cur \in WorkOrders /\ used' \in Nat
      /\ UNCHANGED <<past, calls, host>>
  BY UsedType DEF IInv, TypeOK, SetsRoleModel
<1>2. PICK b \in BOOLEAN : cur' = [cur EXCEPT !.prepared = b]
  <2> DEFINE s        == IF key = Judge THEN None ELSE actors[key]
             replaces == s # None /\ key = RoleNow
  <2>1. PICK b \in BOOLEAN : b = (cur.prepared \/ replaces)
    OBVIOUS
  <2>2. cur' = [cur EXCEPT !.prepared = cur.prepared \/ replaces]
    BY DEF SetsRoleModel, Put
  <2> HIDE DEF replaces
  <2> QED
    BY <2>1, <2>2
<1>3. /\ cur' \in WorkOrders /\ cur'.phase = cur.phase /\ cur'.dispatch = cur.dispatch
      /\ cur'.claim = cur.claim /\ cur'.judge = cur.judge
  BY <1>1, <1>2 DEF WorkOrders
<1>4. Materials'
  BY <1>1, <1>3 DEF Materials
<1>5. version' = version + 1 /\ status' = status
  BY DEF SetsRoleModel, Put
<1>6. actors' \in [Roles -> Maybe(Sessions)] /\ stage' \in [Roles \cup {Judge} -> Stages]
  BY <1>1 DEF SetsRoleModel, TypeOK, Stages, Maybe
<1> QED
  BY <1>1, <1>3, <1>4, <1>5, <1>6, WriteStep DEF TypeOK

LEMMA ResetsIInv ==
  ASSUME IInv, Resets
  PROVE  IInv'
<1>1. /\ TypeOK /\ Materials /\ cur \in WorkOrders /\ used' \in Nat
      /\ UNCHANGED <<past, actors, stage, calls, host>>
  BY UsedType DEF IInv, TypeOK, Resets
<1>2. /\ version' = version + 1 /\ status' = "terminated"
      /\ cur' = [cur EXCEPT !.restart = FALSE]
  BY DEF Resets, Put
<1>3. /\ cur' \in WorkOrders /\ cur'.phase = cur.phase /\ cur'.dispatch = cur.dispatch
      /\ cur'.claim = cur.claim /\ cur'.judge = cur.judge
  BY <1>1, <1>2 DEF WorkOrders
<1>4. Materials'
  BY <1>1, <1>3 DEF Materials
<1> QED
  BY <1>1, <1>2, <1>3, <1>4, WriteStep DEF TypeOK, Statuses

LEMMA RestartsIInv ==
  ASSUME IInv, Restarts
  PROVE  IInv'
<1>1. /\ TypeOK /\ Materials /\ cur \in WorkOrders /\ used' \in Nat
      /\ UNCHANGED <<past, actors, stage>> /\ calls' = {}
  BY UsedType DEF IInv, TypeOK, Restarts
<1>2. host' \subseteq Turns
  BY DEF IInv, TypeOK, Restarts, Turns
<1>3. CASE UNCHANGED <<status, cur, version>>
  BY <1>1, <1>2, <1>3, DropStep DEF rowVars
<1>4. CASE BlockRow([cur EXCEPT !.restart = TRUE])
  <2>1. /\ version' = version + 1 /\ status' = "blocked"
        /\ cur' = [cur EXCEPT !.restart = TRUE]
    BY <1>4 DEF BlockRow, Put
  <2>2. /\ cur' \in WorkOrders /\ cur'.phase = cur.phase /\ cur'.dispatch = cur.dispatch
        /\ cur'.claim = cur.claim /\ cur'.judge = cur.judge
    BY <1>1, <2>1 DEF WorkOrders
  <2>3. Materials'
    BY <1>1, <2>2 DEF Materials
  <2> QED
    BY <1>1, <1>2, <2>1, <2>2, <2>3, WriteStep DEF TypeOK, Statuses
<1> QED
  BY <1>3, <1>4 DEF Restarts

-----------------------------------------------------------------------------
(* The theorems.                                                           *)

LEMMA ContinuesIInv ==
  ASSUME IInv, NEW c \in calls, Continues(c)
  PROVE  IInv'
<1>1. CASE DriveStarts(c) \/ ArrangeActor(c) \/ ProbeIdle(c) \/ Compacted(c)
  BY <1>1, DriveStartsIInv, ArrangeActorIInv, ProbeIdleIInv, CompactedIInv
<1>2. CASE Sent(c) \/ PublishActor(c) \/ ArrangeJudge(c) \/ PublishJudge(c)
  BY <1>2, SentIInv, PublishActorIInv, ArrangeJudgeIInv, PublishJudgeIInv
<1>3. CASE DriveFaults(c) \/ ReleasedAndAccepted(c) \/ TurnEndReads(c) \/ ProbeUnsafe(c)
  BY <1>3, DriveFaultsIInv, ReleasedAndAcceptedIInv, TurnEndReadsIInv, ProbeUnsafeIInv
<1>4. CASE ProbeWaiting(c) \/ SettlesStale(c) \/ ActorSettlesNothing(c)
  BY <1>4, IdleStepsIInv
<1>5. CASE TransferSettles(c) \/ ActorSettles(c) \/ ActorFailsOver(c)
  BY <1>5, TransferSettlesIInv, ActorSettlesIInv, ActorFailsOverIInv
<1>6. CASE ActorEndsWithoutClaim(c) \/ JudgeEndsWithoutVerdict(c) \/ ActivationSettles(c)
  BY <1>6, EndsWithoutIInv, ActivationSettlesIInv
<1>7. CASE JudgeRetries(c) \/ JudgeFailsOver(c) \/ RejudgeSends(c)
  BY <1>7, JudgeRetriesIInv, JudgeFailsOverIInv, RejudgeSendsIInv
<1> QED
  BY <1>1, <1>2, <1>3, <1>4, <1>5, <1>6, <1>7 DEF Continues

LEMMA SubmitsIInv ==
  ASSUME IInv, NEW h \in host, Submits(h)
  PROVE  IInv'
<1>1. CASE \E r \in Results : NodeClaim(h, r)
  BY <1>1, NodeClaimIInv
<1>2. CASE JudgeRejects(h) \/ JudgeNeedsContext(h) \/ JudgeAccepts(h)
  BY <1>2, JudgeRejectsIInv, JudgeNeedsContextIInv, JudgeAcceptsIInv
<1>3. CASE TurnEnds(h) \/ TurnWakes(h) \/ ActivationFails(h)
  BY <1>3, TurnEndsIInv, TurnWakesIInv, ActivationFailsIInv
<1>4. CASE ActorBlocks(h)
  BY <1>4, BlocksIInv
<1> QED
  BY <1>1, <1>2, <1>3, <1>4 DEF Submits

LEMMA CommandedIInv ==
  ASSUME IInv, Commanded
  PROVE  IInv'
<1>1. CASE ManagerBlocks \/ RespawnFaults
  BY <1>1, BlocksIInv
<1>2. CASE \E replace, skip \in BOOLEAN : ResumesActor(replace, skip)
  BY <1>2, ResumesActorIInv
<1>3. CASE \E mode \in {"fresh", "followup"} : ResumesJudge(mode)
  BY <1>3, ResumesJudgeIInv
<1>4. CASE \E key \in Roles \cup {Judge} : SetsRoleModel(key)
  BY <1>4, SetsRoleModelIInv
<1>5. CASE RespawnsJudge \/ Resets \/ Restarts
  BY <1>5, RespawnsJudgeIInv, ResetsIInv, RestartsIInv
<1> QED
  BY <1>1, <1>2, <1>3, <1>4, <1>5 DEF Commanded

LEMMA StepIInv ==
  ASSUME IInv, [Next]_vars
  PROVE  IInv'
<1>1. CASE \E c \in calls : Continues(c)
  BY <1>1, ContinuesIInv
<1>2. CASE \E h \in host : Submits(h)
  BY <1>2, SubmitsIInv
<1>3. CASE Commanded
  BY <1>3, CommandedIInv
<1>4. CASE UNCHANGED vars
  BY <1>4, DropStep DEF vars, rowVars, IInv, TypeOK
<1> QED
  BY <1>1, <1>2, <1>3, <1>4 DEF Next

\* IInv holds in every state: among others, no handler that a write has
\* overtaken can act on the work order, dispatch or Judge it once knew.
THEOREM Inductive == Spec => []IInv
<1>1. Init => IInv
  BY InitIInv
<1>2. IInv /\ [Next]_vars => IInv'
  BY StepIInv
<1> QED
  BY <1>1, <1>2, PTL DEF Spec

\* The rows that the engine writes, the handlers it suspends and the sessions
\* of the Host have the shapes of types.ts, in every order of handlers.
THEOREM TypeCorrect == Spec => []TypeOK
<1>1. IInv => TypeOK
  BY DEF IInv
<1> QED
  BY <1>1, Inductive, PTL

-----------------------------------------------------------------------------
(* The history of a Run.  With all the handlers, commands and faults there   *)
(* are, the work orders that were left, and whether the current one has been *)
(* dispatched, change in only four ways.                                   *)

Live == status \in {"running", "blocked"}

\* The history stays, and no work order gets its first dispatch.
Worked ==
  Live /\ past' = past /\ (cur.dispatch # None \/ cur'.dispatch = cur.dispatch)

\* The current work order is dispatched.
Dispatched == Live /\ past' = past /\ PredecessorSettled

\* The current work order, which was dispatched, joins the history.
Left ==
  /\ Live /\ cur.dispatch # None /\ cur'.dispatch = None
  /\ \E e \in WorkOrders : past' = Append(past, e)

\* The last Judge of the history settles.
Closed ==
  Live /\ past # <<>> /\ SettlePredecessor /\ cur'.dispatch = cur.dispatch

RowStep == UNCHANGED rowVars \/ Worked \/ Dispatched \/ Left \/ Closed

-----------------------------------------------------------------------------
(* Which action is a step of which kind.                                   *)

LEMMA BlockRowStep ==
  ASSUME NEW c, BlockIfCurrent(c), UNCHANGED <<past, actors, stage>>
  PROVE  RowStep
BY DEF BlockIfCurrent, BlockRow, Put, StillCurrent, RowStep, Worked, Live, rowVars

LEMMA DriveRowStep ==
  ASSUME IInv, NEW c \in calls,
         \/ DriveStarts(c) \/ ArrangeActor(c) \/ ProbeIdle(c) \/ Compacted(c) \/ Sent(c)
         \/ PublishActor(c) \/ ArrangeJudge(c) \/ PublishJudge(c) \/ DriveFaults(c)
  PROVE  RowStep
<1>1. CASE DriveStarts(c) \/ ProbeIdle(c) \/ Sent(c)
  BY <1>1 DEF DriveStarts, ProbeIdle, Sent, RowStep
<1>2. CASE ArrangeActor(c)
  BY <1>2 DEF ArrangeActor, Put, StillCurrent, RowStep, Dispatched, Live, rowVars
<1>3. CASE Compacted(c) \/ PublishActor(c)
  <2>1. StillCurrent(c) => cur.dispatch # None
    BY <1>3 DEF IInv, Held, Backed, StillCurrent, Compacted, PublishActor
  <2>2. past' = past /\ (StillCurrent(c) \/ UNCHANGED rowVars)
    BY <1>3 DEF Compacted, PublishActor, rowVars
  <2> QED
    BY <2>1, <2>2 DEF StillCurrent, RowStep, Worked, Live
<1>4. CASE ArrangeJudge(c) \/ PublishJudge(c)
  <2>1. StillCurrent(c) => cur.dispatch # None
    BY <1>4 DEF IInv, Held, Backed, Materials, StillCurrent, ArrangeJudge, PublishJudge
  <2>2. past' = past /\ (StillCurrent(c) \/ UNCHANGED rowVars)
    BY <1>4 DEF ArrangeJudge, PublishJudge, rowVars
  <2> QED
    BY <2>1, <2>2 DEF StillCurrent, RowStep, Worked, Live
<1>5. CASE DriveFaults(c)
  BY <1>5, BlockRowStep DEF DriveFaults
<1> QED
  BY <1>1, <1>2, <1>3, <1>4, <1>5

LEMMA AdvanceRowStep ==
  ASSUME IInv, NEW m, Advance(m), status = "running", cur.claim # None, cur.judge # None
  PROVE  RowStep
<1> DEFINE to == Target[cur.node][cur.claim.result]
<1>1. TypeOK /\ cur.dispatch # None
  BY DEF IInv, Materials
<1>2. PICK left \in WorkOrders :
        IF to = Return
        THEN UNCHANGED past
        ELSE Put("running", NewWorkOrder(to)) /\ past' = Append(past, left)
  BY <1>1, AdvanceType
<1>3. CASE to = Return
  BY <1>1, <1>2, <1>3 DEF RowStep, Worked, Live
<1>4. CASE to # Return
  <2>1. cur'.dispatch = None
    BY <1>2, <1>4 DEF Put, NewWorkOrder
  <2> QED
    BY <1>1, <1>2, <1>4, <2>1 DEF RowStep, Left, Live
<1> QED
  BY <1>3, <1>4

LEMMA SubmitRowStep ==
  ASSUME IInv, NEW h \in host, Submits(h)
  PROVE  RowStep
<1>1. Materials
  BY DEF IInv
<1>2. CASE \E r \in Results : NodeClaim(h, r)
  BY <1>1, <1>2 DEF NodeClaim, Materials, RowStep, Worked, Live
<1>3. CASE JudgeRejects(h) \/ JudgeNeedsContext(h)
  BY <1>1, <1>3 DEF JudgeRejects, JudgeNeedsContext, JudgeMaySubmit, Materials,
                    RowStep, Worked, Live
<1>4. CASE JudgeAccepts(h)
  <2>1. JudgeMaySubmit(h) /\ (UNCHANGED rowVars \/ Advance(actors))
    BY <1>4 DEF JudgeAccepts
  <2> QED
    BY <2>1, AdvanceRowStep DEF JudgeMaySubmit, RowStep
<1>5. CASE TurnEnds(h) \/ TurnWakes(h) \/ ActivationFails(h)
  BY <1>5 DEF TurnEnds, TurnWakes, ActivationFails, RowStep
<1>6. CASE ActorBlocks(h)
  BY <1>6 DEF ActorBlocks, BlockRow, Put, RowStep, Worked, Live
<1> QED
  BY <1>2, <1>3, <1>4, <1>5, <1>6 DEF Submits

LEMMA TurnEndRowStep ==
  ASSUME IInv, NEW c \in calls,
         \/ ReleasedAndAccepted(c) \/ TurnEndReads(c) \/ ProbeUnsafe(c) \/ ProbeWaiting(c)
         \/ SettlesStale(c) \/ TransferSettles(c) \/ ActorSettles(c)
         \/ ActorSettlesNothing(c) \/ ActorFailsOver(c) \/ ActorEndsWithoutClaim(c)
         \/ ActivationSettles(c)
  PROVE  RowStep
<1>1. Materials
  BY DEF IInv
<1>2. CASE ReleasedAndAccepted(c)
  <2>1. CASE version = c.ver /\ status = "running"
    <3>1. cur.judge # None /\ cur.claim # None
      BY <1>2, <2>1 DEF IInv, Held, Backed, Materials, ReleasedAndAccepted
    <3>2. PICK m : Advance(m)
      BY <1>2, <2>1 DEF ReleasedAndAccepted
    <3> QED
      BY <2>1, <3>1, <3>2, AdvanceRowStep
  <2>2. CASE ~(version = c.ver /\ status = "running")
    BY <1>2, <2>2 DEF ReleasedAndAccepted, RowStep, rowVars
  <2> QED
    BY <2>1, <2>2
<1>3. CASE TurnEndReads(c) \/ ProbeWaiting(c) \/ SettlesStale(c) \/ ActorSettlesNothing(c)
  BY <1>3 DEF TurnEndReads, ProbeWaiting, SettlesStale, ActorSettlesNothing, RowStep
<1>4. CASE ProbeUnsafe(c)
  BY <1>4, BlockRowStep DEF ProbeUnsafe
<1>5. CASE TransferSettles(c)
  <2>1. past # <<>>
    BY <1>5 DEF IInv, Held, Backed, TransferSettles, Safe, StillCurrent
  <2> QED
    BY <1>5, <2>1 DEF TransferSettles, StillCurrent, RowStep, Closed, Live
<1>6. CASE ActorSettles(c) \/ ActorFailsOver(c)
  BY <1>1, <1>6 DEF ActorSettles, ActorFailsOver, Materials, StillCurrent,
                    RowStep, Worked, Live
<1>7. CASE ActorEndsWithoutClaim(c)
  BY <1>7 DEF ActorEndsWithoutClaim, BlockRow, Put, StillCurrent, RowStep, Worked, Live
<1>8. CASE ActivationSettles(c)
  BY <1>8 DEF ActivationSettles, BlockRow, Put, RowStep, Worked, Live, rowVars
<1> QED
  BY <1>2, <1>3, <1>4, <1>5, <1>6, <1>7, <1>8

LEMMA RejudgeRowStep ==
  ASSUME IInv, NEW c \in calls,
         \/ JudgeRetries(c) \/ JudgeFailsOver(c) \/ RejudgeSends(c)
         \/ JudgeEndsWithoutVerdict(c)
  PROVE  RowStep
<1>1. CASE RejudgeSends(c)
  BY <1>1 DEF RejudgeSends, RowStep
<1>2. CASE JudgeRetries(c) \/ JudgeFailsOver(c) \/ JudgeEndsWithoutVerdict(c)
  <2>1. cur.phase = "checking" /\ status = "running" /\ past' = past
    BY <1>2 DEF JudgeRetries, JudgeFailsOver, JudgeEndsWithoutVerdict, StillCurrent
  <2>2. cur.dispatch # None
    BY <2>1 DEF IInv, Materials
  <2> QED
    BY <2>1, <2>2 DEF RowStep, Worked, Live
<1> QED
  BY <1>1, <1>2

LEMMA CommandRowStep ==
  ASSUME IInv, Commanded
  PROVE  RowStep
<1>1. Materials /\ cur \in WorkOrders
  BY DEF IInv, TypeOK
<1>2. CASE ManagerBlocks \/ RespawnFaults
  BY <1>2 DEF ManagerBlocks, RespawnFaults, BlockRow, Put, RowStep, Worked, Live
<1>3. CASE \E replace, skip \in BOOLEAN : ResumesActor(replace, skip)
  <2>1. PICK replace \in BOOLEAN, skip \in BOOLEAN : ResumesActor(replace, skip)
    BY <1>3
  <2>2. PICK p \in BOOLEAN : p = (replace \/ skip)
    OBVIOUS
  <2>3. cur'.dispatch = cur.dispatch
    BY <1>1, <2>1, <2>2, ReturnToActorType DEF ResumesActor, Put
  <2>4. status = "blocked" /\ Recovered
    BY <2>1 DEF ResumesActor
  <2>5. past' = past \/ (past # <<>> /\ SettlePredecessor)
    BY <2>4 DEF Recovered, PredecessorSettled
  <2> QED
    BY <2>3, <2>4, <2>5 DEF RowStep, Worked, Closed, Live
<1>4. CASE \E mode \in {"fresh", "followup"} : ResumesJudge(mode)
  BY <1>4 DEF ResumesJudge, RowStep, Worked, Live
<1>5. CASE RespawnsJudge
  BY <1>1, <1>5 DEF RespawnsJudge, Materials, RowStep, Worked, Live
<1>6. CASE \E key \in Roles \cup {Judge} : SetsRoleModel(key)
  <2>1. Live /\ past' = past
    BY <1>6 DEF SetsRoleModel, Live
  <2>2. PICK b : cur' = [cur EXCEPT !.prepared = b]
    BY <1>6 DEF SetsRoleModel, Put
  <2> QED
    BY <1>1, <2>1, <2>2 DEF WorkOrders, RowStep, Worked
<1>7. CASE Resets
  <2>1. /\ Live /\ past' = past
        /\ cur' = [cur EXCEPT !.restart = FALSE]
    BY <1>7 DEF Resets, Put, Live
  <2> QED
    BY <1>1, <2>1 DEF WorkOrders, RowStep, Worked
<1>8. CASE Restarts
  <2>1. /\ Live /\ UNCHANGED <<past, actors, stage>>
        /\ \/ UNCHANGED <<status, cur, version>>
           \/ cur' = [cur EXCEPT !.restart = TRUE]
    BY <1>8 DEF Restarts, BlockRow, Put, Live
  <2> QED
    BY <1>1, <2>1 DEF WorkOrders, RowStep, Worked, rowVars
<1> QED
  BY <1>2, <1>3, <1>4, <1>5, <1>6, <1>7, <1>8 DEF Commanded

LEMMA EveryRowStep ==
  ASSUME IInv, [Next]_vars
  PROVE  RowStep
<1>1. CASE \E c \in calls : Continues(c)
  BY <1>1, DriveRowStep, TurnEndRowStep, RejudgeRowStep DEF Continues
<1>2. CASE \E h \in host : Submits(h)
  BY <1>2, SubmitRowStep
<1>3. CASE Commanded
  BY <1>3, CommandRowStep
<1>4. CASE UNCHANGED vars
  BY <1>4 DEF vars, rowVars, RowStep
<1> QED
  BY <1>1, <1>2, <1>3, <1>4 DEF Next

-----------------------------------------------------------------------------
(* The theorems.                                                           *)

LEMMA HandoffStep ==
  ASSUME IInv, RowStep, OneHandoffAtATime
  PROVE  OneHandoffAtATime'
<1>1. TypeOK /\ Materials /\ past \in Seq(WorkOrders)
  BY DEF IInv, TypeOK
<1>2. CASE UNCHANGED rowVars \/ Worked
  BY <1>2 DEF rowVars, Worked, OneHandoffAtATime
<1>3. CASE Dispatched
  BY <1>1, <1>3 DEF Dispatched, PredecessorSettled, OneHandoffAtATime
<1>4. CASE Left
  <2>1. PICK e \in WorkOrders : past' = Append(past, e)
    BY <1>4 DEF Left
  <2>2. \A i \in DOMAIN past : past[i].judge.settled
    BY <1>4 DEF Left, OneHandoffAtATime
  <2>3. /\ Len(past') = Len(past) + 1
        /\ \A i \in DOMAIN past' : i < Len(past') => i \in DOMAIN past /\ past'[i] = past[i]
    BY <1>1, <2>1
  <2> QED
    BY <1>4, <2>2, <2>3 DEF Left, OneHandoffAtATime
<1>5. CASE Closed
  <2>1. /\ Len(past') = Len(past) /\ past' \in Seq(WorkOrders)
        /\ past'[Len(past)].judge.settled
        /\ \A i \in DOMAIN past' : i # Len(past) => past'[i] = past[i]
    BY <1>1, <1>5, SettlePredecessorType DEF Closed
  <2>2. DOMAIN past' = DOMAIN past /\ \A i \in DOMAIN past : i # Len(past) => i < Len(past)
    BY <1>1, <2>1
  <2> QED
    BY <1>5, <2>1, <2>2 DEF Closed, OneHandoffAtATime
<1> QED
  BY <1>2, <1>3, <1>4, <1>5 DEF RowStep

\* However turns, retries, commands and restarts are ordered, a work order is
\* dispatched only when the Judge that accepted its predecessor has settled.
THEOREM HandoffsAreSerial == Spec => []OneHandoffAtATime
<1>1. Init => OneHandoffAtATime
  BY DEF Init, OneHandoffAtATime
<1>2. IInv /\ OneHandoffAtATime /\ [Next]_vars => OneHandoffAtATime'
  BY EveryRowStep, HandoffStep
<1> QED
  BY <1>1, <1>2, Inductive, PTL DEF Spec

LEMMA FinalStep ==
  ASSUME IInv, RowStep
  PROVE  /\ status \in {"completed", "terminated"} => UNCHANGED rowVars
         /\ Len(past') >= Len(past)
         /\ \A i \in DOMAIN past :
              \/ past'[i] = past[i]
              \/ /\ ~past[i].judge.settled
                 /\ past'[i] = [past[i] EXCEPT !.judge.settled = TRUE]
<1>1. TypeOK /\ Materials /\ past \in Seq(WorkOrders)
  BY DEF IInv, TypeOK
<1>2. status \in {"completed", "terminated"} => UNCHANGED rowVars
  BY DEF RowStep, Worked, Dispatched, Left, Closed, Live
<1>3. CASE UNCHANGED rowVars \/ Worked \/ Dispatched
  BY <1>1, <1>2, <1>3 DEF rowVars, Worked, Dispatched
<1>4. CASE Left
  BY <1>1, <1>2, <1>4 DEF Left
<1>5. CASE Closed
  <2> DEFINE n == Len(past)
             settledOne == [past[n] EXCEPT !.judge.settled = TRUE]
  <2>1. n \in DOMAIN past /\ past[n] \in WorkOrders /\ past[n].judge \in Judges
    BY <1>1, <1>5, FieldTypes DEF Closed, Materials
  <2>2. Len(past') = n /\ \A i \in DOMAIN past' : i # n => past'[i] = past[i]
    BY <1>1, <1>5, SettlePredecessorType DEF Closed
  <2>3. past'[n] = settledOne
    BY <1>5, <2>1 DEF Closed, SettlePredecessor
  <2>4. past[n].judge.settled => settledOne = past[n]
    <3>1. SUFFICES ASSUME past[n].judge.settled
                   PROVE  settledOne = past[n]
      OBVIOUS
    <3>2. [past[n].judge EXCEPT !.settled = TRUE] = past[n].judge
      BY <2>1, <3>1 DEF Judges
    <3>3. settledOne = [past[n] EXCEPT !.judge = [past[n].judge EXCEPT !.settled = TRUE]]
      BY <2>1 DEF WorkOrders
    <3> QED
      BY <2>1, <3>2, <3>3 DEF WorkOrders
  <2>5. DOMAIN past' = DOMAIN past /\ Len(past') >= Len(past)
    BY <1>1, <1>5, <2>2, SettlePredecessorType DEF Closed
  <2> HIDE DEF settledOne
  <2>6. \A i \in DOMAIN past :
          \/ past'[i] = past[i]
          \/ ~past[i].judge.settled /\ i = n /\ past'[i] = settledOne
    BY <2>2, <2>3, <2>4, <2>5
  <2> QED
    BY <1>2, <2>5, <2>6 DEF settledOne
<1> QED
  BY <1>3, <1>4, <1>5 DEF RowStep

\* The history is only appended to, but for the last Judge that settles, and a
\* Run that completed or was reset never changes again, whatever handlers are
\* still suspended and whatever turns are still live.
THEOREM HistoryStands == Spec => HistoryIsFinal
<1>1. IInv /\ [Next]_vars =>
        [ /\ status \in {"completed", "terminated"} => UNCHANGED rowVars
          /\ Len(past') >= Len(past)
          /\ \A i \in DOMAIN past :
               \/ past'[i] = past[i]
               \/ /\ ~past[i].judge.settled
                  /\ past'[i] = [past[i] EXCEPT !.judge.settled = TRUE] ]_vars
  BY EveryRowStep, FinalStep
<1> QED
  BY <1>1, Inductive, PTL DEF Spec, HistoryIsFinal

=============================================================================
