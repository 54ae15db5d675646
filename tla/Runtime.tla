------------------------------ MODULE Runtime ------------------------------
(***************************************************************************)
(* The runtime of one Run: src/engine/engine.ts, the work order it drives  *)
(* and the store row it commits to.                                        *)
(*                                                                         *)
(* JavaScript runs one handler at a time, so handlers interleave only      *)
(* where they await.  A handler reads the row, may await the Host, and     *)
(* writes with a compare-and-swap on the row's version (StateHost.put): a  *)
(* handler whose version is no longer current has no further effect.  A    *)
(* handler that is suspended is a record of "calls" that remembers the     *)
(* version it read.                                                        *)
(*                                                                         *)
(* Identities.  Dispatches, claims, Judges and fresh Judge sessions are    *)
(* random UUIDs in the code.  Here each is the version of the row that the *)
(* write minting it commits, and a session is named after the dispatch     *)
(* that opened it: unique, and no counter is added to the state.  A        *)
(* messageId is the flag "pub" of the dispatch or Judge it belongs to.     *)
(*                                                                         *)
(* Only actor-task Nodes are here.  Manager commands carry the current     *)
(* nodeToken (the code answers any other with a rejection and no effect).  *)
(***************************************************************************)
EXTENDS Naturals, Sequences, FiniteSets

CONSTANTS
  Nodes, StartNode,     \* the frozen definition: actor-task Nodes
  Results, Target,      \* Target[n][r] is a Node, or Return
  Return,
  Roles, Manager, Judge,\* Role keys; the Manager role; the Judge's route key
  RoleOf,               \* RoleOf[n] \in Roles \cup {Manager}
  NodeScoped,           \* Roles with reuse: node (the others are continuable)
  CompactOff,           \* Roles with compactBeforeReuse: false
  Fallback,             \* route keys (Roles and Judge) with a fallbackModel
  None,
  Commands,             \* the Manager commands and Host faults a run exercises
  MaxCommands,          \* bound: how many of them happen
  MaxInputs,            \* bound: inputVersion of a work order
  MaxVisits             \* bound: work orders of the Run

ASSUME DefinitionAssumption ==
  /\ StartNode \in Nodes
  /\ Target \in [Nodes -> [Results -> Nodes \cup {Return}]]
  /\ RoleOf \in [Nodes -> Roles \cup {Manager}]
  /\ NodeScoped \subseteq Roles
  /\ Return \notin Nodes
  /\ Manager \notin Roles
  /\ Judge \notin Roles \cup {Manager}

ASSUME BoundAssumption ==
  /\ MaxCommands \in Nat
  /\ MaxInputs \in Nat \ {0}
  /\ MaxVisits \in Nat \ {0}

VARIABLES
  status,    \* runs.status of the row
  version,   \* runs.state_version
  cur,       \* the current work order (the execution of the row)
  past,      \* the work orders left by a result, in order
  actors,    \* run.roleActors: the session mapped to each Role
  stage,     \* run.roleRoutes[key].stage
  calls,     \* handlers suspended at an await
  host,      \* sessions of the Host, each with its last message
  used       \* how many Manager commands and Host faults happened

rowVars == <<status, version, cur, past, actors, stage>>
vars == <<status, version, cur, past, actors, stage, calls, host, used>>

ManagerSession == 0

-----------------------------------------------------------------------------
(* The shapes of the state.                                                *)

Maybe(S) == S \cup {None}
Sessions == Nat

Dispatches == [id: Nat, sess: Maybe(Sessions), pub: BOOLEAN, settled: BOOLEAN]
Claims     == [id: Nat, dispatch: Nat, result: Results]
Judges     == [id: Nat, sess: Sessions, claim: Nat, iv: Nat,
               pub: BOOLEAN, settled: BOOLEAN]
Judgments  == [result: {"ACCEPT", "REJECT", "NEED_CONTEXT"}, claim: Nat,
               judge: Nat, sess: Sessions, iv: Nat]
Resolutions == [target: {"actor", "judge"}, iv: Nat, ctx: BOOLEAN,
                mode: {"none", "fresh", "followup"}, sess: Maybe(Sessions)]

WorkOrders ==
  [node: Nodes, phase: {"ready", "working", "checking", "exited"},
   prepared: BOOLEAN, restart: BOOLEAN, retried: BOOLEAN, iv: Nat,
   dispatch: Maybe(Dispatches), claim: Maybe(Claims), judge: Maybe(Judges),
   judgment: Maybe(Judgments), prevClaim: Maybe(Claims),
   prevJudge: Maybe(Judges), resolution: Maybe(Resolutions)]

Statuses == {"running", "blocked", "completed", "terminated"}
Stages   == {"primary", "manual", "fallback"}
Steps    == {"drive", "arrange", "probe", "compact", "send", "publish",
             "cwd", "rejudge", "judgeSend", "judgePublish", "turnEnd", "transferProbe",
             "actorProbe", "judgeProbe", "accept", "activationEnd"}
Calls    == [op: Steps, ver: Nat, sess: Maybe(Sessions), id: Nat, from: Nat]
Turns    == [sess: Sessions, msg: Nat, st: {"busy", "waiting", "idle"}, late: BOOLEAN]

ASSUME NoneAssumption ==
  /\ None \notin Dispatches /\ None \notin Claims /\ None \notin Judges
  /\ None \notin Sessions /\ None \notin Judgments

-----------------------------------------------------------------------------
(* Reading the row.                                                        *)

\* "from" tells apart two drives that have read the same row.
CallFor(op, ver, sess, id) ==
  [op |-> op, ver |-> ver, sess |-> sess, id |-> id, from |-> 0]
Call(op, ver) == CallFor(op, ver, None, 0)

\* stillCurrent: within one Run the version determines the row's content, so
\* comparing versions compares the execution, dispatch, claim and Judge ids.
StillCurrent(c) == status = "running" /\ version = c.ver

\* mutant: bound by the session reserved in the row, published or not
MatchesSession(d, s, m) == d # None /\ d.sess = s

\* matches: the caller's session is the one dispatched, and its lineage holds
\* the dispatch's message: m is the latest message delivered to that session.
Matches(d, s, m) == d # None /\ d.pub /\ d.sess = s /\ d.id <= m

\* alignedJudgment
JudgmentIsCurrent(e) ==
  /\ e.judgment # None /\ e.claim # None
  /\ e.judgment.claim = e.claim.id
  /\ e.judgment.iv = e.iv

Accepted(e) == e.judgment # None /\ e.judgment.result = "ACCEPT"

RoleNow == RoleOf[cur.node]
SessionOf(role) == IF role = Manager THEN ManagerSession ELSE actors[role]

\* mutant: the predecessor's exit is gate enough
PredecessorExited == TRUE

\* The gate of a successor: its actor-task predecessor's Judge has settled.
PredecessorSettled == past # <<>> => past[Len(past)].judge.settled
SettlePredecessor ==
  past' = [past EXCEPT ![Len(past)].judge.settled = TRUE]

Idle(s) == \A h \in host : h.sess = s => h.st = "idle"

\* mutant: the successor is built for the start of the workflow
NewWorkOrderAtStart(n) ==
  [node |-> StartNode, phase |-> "ready", prepared |-> TRUE,
   restart |-> FALSE, retried |-> FALSE, iv |-> 1,
   dispatch |-> None, claim |-> None, judge |-> None, judgment |-> None,
   prevClaim |-> None, prevJudge |-> None, resolution |-> None]

NewWorkOrder(n) ==
  [node |-> n, phase |-> "ready",
   prepared |-> \/ RoleOf[n] = Manager
                \/ RoleOf[n] \in NodeScoped
                \/ SessionOf(RoleOf[n]) = None,
   restart |-> FALSE, retried |-> FALSE, iv |-> 1,
   dispatch |-> None, claim |-> None, judge |-> None, judgment |-> None,
   prevClaim |-> None, prevJudge |-> None, resolution |-> None]

NewDispatch(id, s) == [id |-> id, sess |-> s, pub |-> FALSE, settled |-> FALSE]
\* mutant: the Judge's session is not reserved in the row before its spawn
NewJudgeUnreserved(e, id, s, iv) ==
  [id |-> id, sess |-> None, claim |-> e.claim.id, iv |-> iv,
   pub |-> FALSE, settled |-> FALSE]
NewJudge(e, id, s, iv) ==
  [id |-> id, sess |-> s, claim |-> e.claim.id, iv |-> iv,
   pub |-> FALSE, settled |-> FALSE]

\* The judgment that asked for context is about this claim, by this Judge.
AskedBy(j, e) ==
  /\ j # None /\ e.judgment # None /\ e.judgment.result = "NEED_CONTEXT"
  /\ e.judgment.judge = j.id /\ e.judgment.sess = j.sess

\* checkExecutionInvariants, for the materials of an actor-task work order.
ValidWorkOrder(e) ==
  LET current == JudgmentIsCurrent(e)
      j       == e.judgment
      r       == e.resolution
  IN  /\ e.claim # None => e.dispatch # None /\ e.claim.dispatch = e.dispatch.id
      /\ e.judge # None => /\ e.claim # None /\ e.judge.claim = e.claim.id
                           /\ e.judge.iv = e.iv
      /\ e.prevJudge # None => j # None /\ ~current
      /\ j # None =>
           /\ \/ e.claim # None /\ j.claim = e.claim.id
              \/ e.prevClaim # None /\ j.claim = e.prevClaim.id
           /\ j.result = "REJECT" =>
                ~current /\ e.prevClaim # None /\ j.claim = e.prevClaim.id
           /\ j.result = "ACCEPT" => current
           /\ current => /\ e.judge # None /\ j.judge = e.judge.id
                         /\ j.sess = e.judge.sess
           /\ ~current => /\ j.iv < e.iv /\ e.prevJudge # None
                          /\ j.judge = e.prevJudge.id /\ j.sess = e.prevJudge.sess
                          /\ j.claim = e.prevJudge.claim /\ j.iv = e.prevJudge.iv
      /\ r # None =>
           /\ r.iv = e.iv
           /\ r.target = "judge" => /\ e.claim # None
                                    /\ (r.mode = "none") <=> current
           /\ r.target = "actor" => r.mode = "none"
           /\ (r.mode = "followup") <=> (r.sess # None)
           /\ r.mode = "followup" =>
                \/ /\ AskedBy(e.prevJudge, e) /\ j.claim = e.claim.id
                   /\ r.sess = e.prevJudge.sess
                \/ e.judge # None /\ r.sess = e.judge.sess
      /\ e.phase = "checking" => e.claim # None

-----------------------------------------------------------------------------
(* Writing the row: StateHost.put with the version the handler read.       *)

Put(st, e)  == status' = st /\ cur' = e /\ version' = version + 1
BlockRow(e) == Put("blocked", e)
Resuspend(c, next) == calls' = (calls \ {c}) \cup next
Drop(c) == calls' = calls \ {c}

\* mutant: a fault ends the handler and nothing else
FaultIsSwallowed(c) == Drop(c) /\ UNCHANGED <<status, cur, version>>

\* dispatchFault, and the BLOCK of a probe that timed out or was unsafe.
BlockIfCurrent(c) ==
  /\ IF StillCurrent(c) THEN BlockRow(cur)
                        ELSE UNCHANGED <<status, cur, version>>
  /\ Drop(c)

\* late: the message was sent for a row that has moved on in the meantime.
Deliver(s, m, late) ==
  LET before == {h \in host : h.sess = s /\ h.msg > m}
      last   == IF before = {} THEN m ELSE (CHOOSE h \in before : TRUE).msg
  IN  host' = {h \in host : h.sess # s}
                \cup {[sess |-> s, msg |-> last, st |-> "busy", late |-> late]}
Quiesce(S) ==
  host' = {IF h.sess \in S THEN [h EXCEPT !.st = "idle"] ELSE h : h \in host}
SetTurn(h, st) == host' = (host \ {h}) \cup {[h EXCEPT !.st = st]}

\* mutant: a Judge that the writer arranged counts as one that was sent
DriveReadsUnarranged(e, v) ==
  IF e.phase = "ready" THEN {Call("arrange", v)}
  ELSE IF /\ e.phase = "checking" /\ e.claim # None
          /\ e.dispatch # None /\ e.dispatch.settled /\ e.judge = None
       THEN {Call("cwd", v)}
       ELSE {}

\* The read with which drive() begins, on row content e at version v: what
\* it suspends on.  A drive awaited directly after a put reads that put's row.
DriveReads(e, v) ==
  IF e.phase = "ready" THEN {Call("arrange", v)}
  ELSE IF /\ e.phase = "checking" /\ e.claim # None
          /\ e.dispatch # None /\ e.dispatch.settled
          /\ (e.judge = None \/ ~e.judge.pub)
       THEN {Call("cwd", v)}
       ELSE {}

Init ==
  /\ status = "running"
  /\ version = 1
  /\ actors = [r \in Roles |-> None]
  /\ stage = [r \in Roles \cup {Judge} |-> "primary"]
  /\ past = <<>>
  /\ cur = [NewWorkOrder(StartNode) EXCEPT !.prepared = TRUE]
  /\ calls = {Call("arrange", 1)}
  /\ host = {}
  /\ used = 0

-----------------------------------------------------------------------------
(* drive(): it arranges the dispatch of a ready work order, sends it and   *)
(* publishes its identity; or does the same for the Judge of a settled     *)
(* claim.                                                                  *)

\* A drive() reached after an await of its caller (a retired Judge, a
\* notification): it reads the row as it is by then.
DriveStarts(c) ==
  /\ c.op = "drive"
  /\ Resuspend(c, IF status = "running"
                  THEN {[d EXCEPT !.from = c.ver] : d \in DriveReads(cur, version)}
                  ELSE {})
  /\ UNCHANGED <<rowVars, host, used>>

ArrangeActor(c) ==
  LET s       == SessionOf(RoleNow)
      reused  == RoleNow # Manager /\ s # None
      closed  == cur.dispatch # None /\ cur.dispatch.settled
      compact == ~cur.prepared /\ RoleNow \notin CompactOff
      next    == IF reused /\ ~closed THEN "probe"
                 ELSE IF reused /\ compact THEN "compact" ELSE "send"
  IN  /\ c.op = "arrange"
      /\ IF StillCurrent(c) /\ PredecessorSettled
         THEN /\ Put("running", [cur EXCEPT !.phase = "working",
                                   !.dispatch = NewDispatch(version + 1, s)])
              /\ Resuspend(c, {CallFor(next, version + 1, s, version + 1)})
         ELSE Drop(c) /\ UNCHANGED <<status, cur, version>>
      /\ UNCHANGED <<past, actors, stage, host, used>>

\* probeSessionIdle of the reused session: "active" is a dispatch fault.
ProbeIdle(c) ==
  /\ c.op = "probe"
  /\ IF ~StillCurrent(c) THEN Drop(c)
     ELSE /\ Idle(c.sess)
          /\ Resuspend(c, {[c EXCEPT !.op =
               IF cur.prepared \/ RoleNow \in CompactOff THEN "send" ELSE "compact"]})
  /\ UNCHANGED <<rowVars, host, used>>

\* mutant: the version of the write after the compaction is not carried on
CompactedAtOldVersion(c) ==
  /\ c.op = "compact"
  /\ IF StillCurrent(c)
     THEN Put("running", [cur EXCEPT !.prepared = TRUE])
     ELSE UNCHANGED <<status, cur, version>>
  /\ Resuspend(c, IF StillCurrent(c) THEN {[c EXCEPT !.op = "send"]} ELSE {})
  /\ UNCHANGED <<past, actors, stage, host, used>>

\* The compaction is done: the boundary is recorded as prepared before the send.
Compacted(c) ==
  /\ c.op = "compact"
  /\ IF StillCurrent(c)
     THEN /\ Put("running", [cur EXCEPT !.prepared = TRUE])
          /\ Resuspend(c, {CallFor("send", version + 1, c.sess, c.id)})
     ELSE Drop(c) /\ UNCHANGED <<status, cur, version>>
  /\ UNCHANGED <<past, actors, stage, host, used>>

\* The Host accepts the message.  An unmapped Role gets a new session.
Sent(c) ==
  LET s == IF c.sess = None THEN c.id ELSE c.sess
  IN  /\ c.op \in {"send", "judgeSend"}
      /\ Deliver(s, c.id, ~StillCurrent(c))
      /\ Resuspend(c, {[c EXCEPT !.sess = s, !.op =
           IF c.op = "send" THEN "publish" ELSE "judgePublish"]})
      /\ UNCHANGED <<rowVars, used>>

PublishActor(c) ==
  /\ c.op = "publish"
  /\ IF StillCurrent(c)
     THEN /\ Put("running", [cur EXCEPT !.dispatch.sess = c.sess,
                                        !.dispatch.pub = TRUE])
          /\ actors' = IF RoleNow = Manager THEN actors
                       ELSE [actors EXCEPT ![RoleNow] = c.sess]
     ELSE UNCHANGED <<status, cur, version, actors>>
  /\ Drop(c)
  /\ UNCHANGED <<past, stage, host, used>>

\* After cwdResolver: the Judge is arranged, unless the writer that led here
\* has arranged it already.
ArrangeJudge(c) ==
  LET r    == cur.resolution
      cont == IF r # None /\ r.target = "judge" /\ r.mode = "followup"
              THEN r.sess ELSE None
      j    == cur.judge
      s    == IF cont = None THEN version + 1 ELSE cont
  IN  /\ c.op = "cwd"
      /\ IF ~StillCurrent(c) THEN Drop(c) /\ UNCHANGED <<status, cur, version>>
         ELSE IF j = None
         THEN /\ Put("running", [cur EXCEPT
                       !.judge = NewJudge(cur, version + 1, s, cur.iv)])
              /\ Resuspend(c, {CallFor("judgeSend", version + 1, s, version + 1)})
         ELSE /\ Resuspend(c,
                   IF /\ j.claim = cur.claim.id /\ j.iv = cur.iv
                      /\ cont \in {None, j.sess}
                   THEN {[c EXCEPT !.op = "judgeSend", !.sess = j.sess, !.id = j.id]}
                   ELSE {})
              /\ UNCHANGED <<status, cur, version>>
      /\ UNCHANGED <<past, actors, stage, host, used>>

\* A Judge started for a row that has moved on is retired: its submissions
\* do not match any more, its session is left to end by itself.
PublishJudge(c) ==
  /\ c.op = "judgePublish"
  /\ IF StillCurrent(c) THEN Put("running", [cur EXCEPT !.judge.pub = TRUE])
                        ELSE UNCHANGED <<status, cur, version>>
  /\ Drop(c)
  /\ UNCHANGED <<past, actors, stage, host, used>>

\* The steps of drive() that can throw: dispatchFault.
DriveFaults(c) ==
  /\ c.op \in {"probe", "compact", "send", "cwd", "rejudge", "judgeSend"}
  /\ BlockIfCurrent(c)
  /\ UNCHANGED <<past, actors, stage, host, used>>

-----------------------------------------------------------------------------
(* Submissions from live turns.                                            *)

\* A turn at work that is not waiting for the result of its submission.
Working(h) ==
  h.st = "busy" /\ ~\E c \in calls : c.op = "accept" /\ c.sess = h.sess

\* handleClaim
NodeClaim(h, r) ==
  /\ Working(h)
  /\ status = "running" /\ cur.phase = "working" /\ cur.claim = None
  /\ Matches(cur.dispatch, h.sess, h.msg)
  /\ Put("running", [cur EXCEPT !.phase = "checking",
           !.claim = [id |-> version + 1, dispatch |-> cur.dispatch.id, result |-> r]])
  /\ UNCHANGED <<past, actors, stage, calls, host, used>>

\* mutant: the status of the Run is not looked at
JudgeAlwaysMaySubmit(h) ==
  /\ Working(h)
  /\ cur.phase = "checking" /\ cur.claim # None /\ cur.judge # None
  /\ ~JudgmentIsCurrent(cur)
  /\ cur.judge.claim = cur.claim.id /\ cur.judge.iv = cur.iv
  /\ Matches(cur.judge, h.sess, h.msg)

\* The admission of handleJudgeClaim, whatever the verdict.
JudgeMaySubmit(h) ==
  /\ Working(h)
  /\ status = "running" /\ cur.phase = "checking"
  /\ cur.claim # None /\ cur.judge # None
  /\ ~JudgmentIsCurrent(cur)
  /\ cur.judge.claim = cur.claim.id /\ cur.judge.iv = cur.iv
  /\ Matches(cur.judge, h.sess, h.msg)

Verdict(result) ==
  [result |-> result, claim |-> cur.claim.id, judge |-> cur.judge.id,
   sess |-> cur.judge.sess, iv |-> cur.judge.iv]

\* mutant: the recovery mode outlives the verdict
ModeKept(r) == r

\* A verdict ends the recovery mode of a judge resolution.
ModeSpent(r) ==
  IF r # None /\ r.target = "judge" THEN [r EXCEPT !.mode = "none", !.sess = None]
                                    ELSE r

JudgeRejects(h) ==
  /\ JudgeMaySubmit(h)
  /\ cur.iv < MaxInputs
  /\ Put("running", [cur EXCEPT
       !.prevClaim = cur.claim, !.prevJudge = cur.judge,
       !.judgment = Verdict("REJECT"),
       !.claim = None, !.judge = None, !.retried = FALSE,
       !.phase = "ready", !.iv = cur.iv + 1,
       !.resolution =
         IF cur.resolution # None /\ cur.resolution.ctx
         THEN [target |-> "actor", iv |-> cur.iv + 1, ctx |-> TRUE,
               mode |-> "none", sess |-> None]
         ELSE None])
  /\ calls' = calls \cup {Call("drive", version + 1)}
  /\ UNCHANGED <<past, actors, stage, host, used>>

JudgeNeedsContext(h) ==
  /\ JudgeMaySubmit(h)
  /\ BlockRow([cur EXCEPT !.prevClaim = None, !.prevJudge = None,
                 !.judgment = Verdict("NEED_CONTEXT"),
                 !.resolution = ModeSpent(cur.resolution)])
  /\ UNCHANGED <<past, actors, stage, calls, host, used>>

\* advanceKnownResult for an ACCEPT: the work order exits and its one
\* successor is created, or the Run completes, in one write.
Advance(mapping) ==
  LET to   == Target[cur.node][cur.claim.result]
      left == [cur EXCEPT !.phase = "exited",
                 !.prevClaim = None, !.prevJudge = None,
                 !.judgment = Verdict("ACCEPT"),
                 !.resolution = ModeSpent(cur.resolution)]
  IN  /\ actors' = mapping
      /\ IF to = Return
         THEN Put("completed", left) /\ UNCHANGED past
         ELSE /\ Len(past) + 1 < MaxVisits
              /\ Put("running", NewWorkOrder(to))
              /\ past' = Append(past, left)

\* mutant: reuse: node is treated like a continuable Role
NeverReleases == FALSE

\* releaseNodeScopedActor awaits the drain of a node-scoped session first.
Releases == RoleNow \in NodeScoped /\ SessionOf(RoleNow) # None

JudgeAccepts(h) ==
  /\ JudgeMaySubmit(h)
  /\ IF Releases
     THEN /\ calls' = calls \cup {CallFor("accept", version, h.sess, cur.judge.id)}
          /\ UNCHANGED rowVars
     ELSE Advance(actors) /\ UNCHANGED <<stage, calls>>
  /\ UNCHANGED <<host, used>>

ReleasedAndAccepted(c) ==
  /\ c.op = "accept"
  /\ IF version = c.ver /\ status = "running"
     THEN Quiesce({actors[RoleNow]}) /\ Advance([actors EXCEPT ![RoleNow] = None])
     ELSE UNCHANGED <<status, version, cur, past, actors, host>>
  /\ Drop(c)
  /\ UNCHANGED <<stage, used>>

-----------------------------------------------------------------------------
(* A turn ends: the Host's turn/end event, then handleTurnEnded.           *)

Probing(c) == c.op \in {"transferProbe", "actorProbe", "judgeProbe"}

\* The event is captured; the handler runs in a later macrotask.  Assumed of
\* the Host: a turn that ends normally does so after the engine has been told
\* that its message was accepted (see ActivationFails for one that fails).
TurnEnds(h) ==
  /\ Working(h)
  /\ ~\E c \in calls : c.op \in {"publish", "judgePublish"} /\ c.sess = h.sess
  /\ \E st \in {"idle", "waiting"} : SetTurn(h, st)
  /\ calls' = calls \cup {CallFor("turnEnd", 0, h.sess, h.msg)}
  /\ UNCHANGED <<rowVars, used>>

\* The completion of its subagents wakes a waiting session.  (A session woken
\* before the probe has looked at it is one that has not ended its turn yet.)
TurnWakes(h) ==
  /\ h.st = "waiting"
  /\ ~\E c \in calls : (c.op = "turnEnd" \/ Probing(c)) /\ c.sess = h.sess
  /\ SetTurn(h, "busy")
  /\ UNCHANGED <<rowVars, calls, used>>

\* handleTurnEnded up to its first await: whose turn was it?
TurnEndReads(c) ==
  LET owed(d) == Matches(d, c.sess, c.id) /\ ~d.settled
      judged  == cur.phase = "ready" /\ past # <<>>
      probe(op) == {[c EXCEPT !.op = op, !.ver = version]}
  IN  /\ c.op = "turnEnd"
      /\ Resuspend(c,
           IF status # "running" THEN {}
           ELSE IF judged
           THEN IF owed(past[Len(past)].judge) THEN probe("transferProbe") ELSE {}
           ELSE IF owed(cur.dispatch) THEN probe("actorProbe")
           ELSE IF owed(cur.judge) THEN probe("judgeProbe") ELSE {})
      /\ UNCHANGED <<rowVars, host, used>>

\* safeToInspect times out, answers "unsafe", or, for a Judge whose Run has
\* moved on, "waiting".
ProbeUnsafe(c) ==
  /\ Probing(c)
  /\ BlockIfCurrent(c)
  /\ UNCHANGED <<past, actors, stage, host, used>>

\* "waiting": the turn/end that follows the wake-up will be handled instead.
ProbeWaiting(c) ==
  /\ c.op \in {"actorProbe", "judgeProbe"}
  /\ \E h \in host : h.sess = c.sess /\ h.st = "waiting"
  /\ Drop(c)
  /\ UNCHANGED <<rowVars, host, used>>

\* mutant: the end of the turn is taken for the end of the work
SafeAtTurnEnd(c, op) == c.op = op

\* Everything below: safeToInspect answered "safe".
Safe(c, op) == c.op = op /\ Idle(c.sess)

SettlesStale(c) ==
  /\ Probing(c) /\ ~StillCurrent(c)
  /\ Drop(c)
  /\ UNCHANGED <<rowVars, host, used>>

\* The Judge whose ACCEPT created the current work order is closed: only now
\* may that work order be dispatched.
TransferSettles(c) ==
  /\ Safe(c, "transferProbe") /\ StillCurrent(c)
  /\ SettlePredecessor
  /\ version' = version + 1
  /\ Resuspend(c, DriveReads(cur, version + 1))
  /\ UNCHANGED <<status, cur, actors, stage, host, used>>

ActorSettles(c) ==
  /\ Safe(c, "actorProbe") /\ StillCurrent(c) /\ cur.phase = "checking"
  /\ LET e == [cur EXCEPT !.dispatch.settled = TRUE]
     IN  Put("running", e) /\ Resuspend(c, DriveReads(e, version + 1))
  /\ UNCHANGED <<past, actors, stage, host, used>>

\* Neither a claim to settle nor a working dispatch: nothing is written.
ActorSettlesNothing(c) ==
  /\ Safe(c, "actorProbe") /\ StillCurrent(c)
  /\ cur.phase \notin {"checking", "working"}
  /\ Drop(c)
  /\ UNCHANGED <<rowVars, host, used>>

\* mutant: the last stage of a route is not looked at
AlwaysFailsOver(key) == key \in Fallback

\* A route key leaves a manual route for the primary, the primary for the
\* fallback; after the fallback there is nothing left.
MayFailOver(key) == key \in Fallback /\ stage[key] # "fallback"
NextStage(from) == IF from = "manual" THEN "primary" ELSE "fallback"

\* tryFailover: the failed execution is closed and the Role starts over on
\* its next route, in a session of its own.
ActorFailsOver(c) ==
  /\ Safe(c, "actorProbe") /\ StillCurrent(c) /\ cur.phase = "working"
  /\ RoleNow # Manager /\ MayFailOver(RoleNow)
  /\ Put("running", [cur EXCEPT !.dispatch.settled = TRUE, !.phase = "ready",
       !.prepared = TRUE, !.iv = cur.iv + 1,
       !.resolution = [target |-> "actor", iv |-> cur.iv + 1, ctx |-> FALSE,
                       mode |-> "none", sess |-> None]])
  /\ actors' = [actors EXCEPT ![RoleNow] = None]
  /\ stage' = [stage EXCEPT ![RoleNow] = NextStage(stage[RoleNow])]
  /\ Resuspend(c, {Call("drive", version + 1)})
  /\ UNCHANGED <<past, host, used>>

\* No claim and no route left (or no eligible failure): BLOCK.
ActorEndsWithoutClaim(c) ==
  /\ Safe(c, "actorProbe") /\ StillCurrent(c) /\ cur.phase = "working"
  /\ BlockRow(cur)
  /\ Drop(c)
  /\ UNCHANGED <<past, actors, stage, host, used>>

\* The row that retryJudgeOnce and tryJudgeFailover compose: a new Judge in a new
\* session for the same claim.  The recovery mode of a resume stays in the row.
WithNewJudge(retried) ==
  [cur EXCEPT !.retried = retried,
              !.judge = NewJudge(cur, version + 1, version + 1, cur.iv)]

\* StateHost.put throws when the store refuses the row, and the handler ends.
Rejudge(c, retried, judgeStage) ==
  IF ValidWorkOrder(WithNewJudge(retried))
  THEN /\ Put("running", WithNewJudge(retried))
       /\ stage' = [stage EXCEPT ![Judge] = judgeStage]
       /\ Resuspend(c, {CallFor("rejudge", version + 1, version + 1, version + 1)})
  ELSE Drop(c) /\ UNCHANGED <<status, cur, version, stage>>

JudgeRetries(c) ==
  /\ Safe(c, "judgeProbe") /\ StillCurrent(c) /\ cur.phase = "checking"
  /\ Judge \notin Fallback /\ ~cur.retried
  /\ Rejudge(c, TRUE, stage[Judge])
  /\ UNCHANGED <<past, actors, host, used>>

JudgeFailsOver(c) ==
  /\ Safe(c, "judgeProbe") /\ StillCurrent(c) /\ cur.phase = "checking"
  /\ MayFailOver(Judge)
  /\ Rejudge(c, cur.retried, NextStage(stage[Judge]))
  /\ UNCHANGED <<past, actors, host, used>>

\* Its cwd resolved: the new Judge is sent with no look at the recovery mode.
RejudgeSends(c) ==
  /\ c.op = "rejudge"
  /\ Resuspend(c, IF StillCurrent(c) THEN {[c EXCEPT !.op = "judgeSend"]} ELSE {})
  /\ UNCHANGED <<rowVars, host, used>>

JudgeEndsWithoutVerdict(c) ==
  /\ Safe(c, "judgeProbe") /\ StillCurrent(c) /\ cur.phase = "checking"
  /\ BlockRow(cur)
  /\ Drop(c)
  /\ UNCHANGED <<past, actors, stage, host, used>>

\* The turn for message m made a submission that the engine accepted.
Submitted(m) ==
  \/ cur.claim # None /\ cur.claim.dispatch = m
  \/ cur.judgment # None /\ cur.judgment.judge = m
  \/ past # <<>> /\ past[Len(past)].judge.id = m

\* A subagent's activation fails with no turn/end to settle.  Assumed of the
\* Host: a turn that got as far as an accepted submission does end with a
\* turn/end (settleActivation never undoes one, and nothing else would).
ActivationFails(h) ==
  /\ Working(h) /\ h.sess # ManagerSession
  /\ ~Submitted(h.msg)
  /\ SetTurn(h, "idle")
  /\ calls' = calls \cup {CallFor("activationEnd", 0, h.sess, h.msg)}
  /\ UNCHANGED <<rowVars, used>>

\* settleActivation.  A failure that precedes the publication is buffered and
\* consumed by trackDispatch once it is published: hence the guard on calls.
ActivationSettles(c) ==
  LET owed(d) == d # None /\ d.pub /\ d.sess = c.sess /\ d.id = c.id /\ ~d.settled
  IN  /\ c.op = "activationEnd"
      /\ ~\E p \in calls : p.op \in {"publish", "judgePublish"} /\ p.sess = c.sess
      /\ IF /\ status = "running"
            /\ \/ cur.phase = "working"  /\ owed(cur.dispatch)
               \/ cur.phase = "checking" /\ owed(cur.judge)
         THEN BlockRow(cur) ELSE UNCHANGED <<status, cur, version>>
      /\ Drop(c)
      /\ UNCHANGED <<past, actors, stage, host, used>>

-----------------------------------------------------------------------------
(* Manager commands, the human reset, and a restart of the Host.           *)

Command(name) == name \in Commands /\ used < MaxCommands /\ used' = used + 1

\* handleBlock by the Manager, who controls every Node but its own.
ManagerBlocks ==
  /\ Command("block")
  /\ status = "running" /\ RoleNow # Manager
  /\ BlockRow(cur)
  /\ UNCHANGED <<past, actors, stage, calls, host>>

\* handleBlock by the dispatched Actor (the tokenless form).
ActorBlocks(h) ==
  /\ Command("actorBlock")
  /\ h.st = "busy"
  /\ status = "running" /\ cur.phase = "working" /\ cur.claim = None
  /\ Matches(cur.dispatch, h.sess, h.msg) /\ ~cur.dispatch.settled
  /\ BlockRow(cur)
  /\ UNCHANGED <<past, actors, stage, calls, host>>

\* handleResume refuses a ready work order whose predecessor's Judge is still
\* open, except that after a restart the Manager may confirm it closed.
ResumesPredecessor ==
  cur.phase = "ready" /\ ~PredecessorSettled
    => cur.restart /\ Accepted(past[Len(past)])

Recovered ==
  IF cur.phase = "ready" /\ ~PredecessorSettled THEN SettlePredecessor
                                                ELSE UNCHANGED past

RoleIsIdle ==
  RoleNow # Manager /\ SessionOf(RoleNow) # None => Idle(SessionOf(RoleNow))

\* A resume that replaces a Judge retires the old one before it drives.
ThenDrive(e) ==
  calls' = calls \cup (IF cur.judge # None THEN {Call("drive", version + 1)}
                                           ELSE DriveReads(e, version + 1))

\* The Judge that a resume drains: the arranged one, or the last that judged
\* the claim.
JudgeToDrain(claim) ==
  IF cur.judge # None THEN {cur.judge.sess}
  ELSE IF cur.prevJudge # None /\ claim # None /\ cur.prevJudge.claim = claim.id
       THEN {cur.prevJudge.sess} ELSE {}

ReturnToActor(e, prepared) ==
  LET asked == JudgmentIsCurrent(e) /\ AskedBy(e.judge, e)
      older == /\ e.judgment # None /\ e.claim # None /\ e.prevJudge # None
               /\ e.judgment.claim = e.claim.id /\ e.judgment.iv < e.iv
               /\ e.judgment.judge = e.prevJudge.id
               /\ e.judgment.sess = e.prevJudge.sess
      kept  == e.claim = None \/ asked \/ older
  IN  [e EXCEPT
        !.prevClaim = IF e.claim = None THEN e.prevClaim ELSE e.claim,
        !.prevJudge = IF e.claim # None /\ asked THEN e.judge
                      ELSE IF kept THEN e.prevJudge ELSE None,
        !.judgment = IF kept THEN e.judgment ELSE None,
        !.claim = None, !.judge = None, !.retried = FALSE,
        !.phase = "ready", !.prepared = e.prepared \/ prepared,
        !.restart = FALSE, !.iv = e.iv + 1,
        !.resolution = [target |-> "actor", iv |-> e.iv + 1, ctx |-> TRUE,
                        mode |-> "none", sess |-> None]]

\* node_resume target=actor.  "replace": the mapped session is cold and its
\* file is missing.  "skip": skipCompact.
ResumesActor(replace, skip) ==
  LET mapped == RoleNow # Manager /\ actors[RoleNow] # None
      back   == IF cur.claim # None THEN cur.claim ELSE cur.prevClaim
      e      == ReturnToActor(cur, replace \/ skip)
  IN  /\ Command("resumeActor")
      /\ status = "blocked" /\ cur.iv < MaxInputs
      /\ ResumesPredecessor /\ RoleIsIdle
      /\ replace => mapped
      /\ \/ cur.phase = "ready"
         \/ cur.phase = "working" /\ cur.claim = None
         \/ cur.phase = "checking" /\ cur.claim # None /\ ~Accepted(cur)
      /\ Quiesce(JudgeToDrain(back))
      /\ Put("running", e)
      /\ Recovered
      /\ actors' = IF replace THEN [actors EXCEPT ![RoleNow] = None] ELSE actors
      /\ ThenDrive(e)
      /\ UNCHANGED stage

\* The Judge that a judge resume may continue, if any.
JudgeToContinue ==
  IF JudgmentIsCurrent(cur) /\ AskedBy(cur.judge, cur) THEN cur.judge
  ELSE IF /\ AskedBy(cur.prevJudge, cur) /\ cur.prevJudge.claim = cur.claim.id
          /\ cur.judge = None
       THEN cur.prevJudge
  ELSE IF cur.restart /\ cur.judge # None /\ ~JudgmentIsCurrent(cur)
       THEN cur.judge ELSE None

Rejudged(e, mode, s, id, ctx) ==
  [e EXCEPT
    !.dispatch.settled = TRUE,
    !.prevJudge = IF JudgmentIsCurrent(e) /\ AskedBy(e.judge, e)
                  THEN e.judge ELSE e.prevJudge,
    !.judge = NewJudge(e, id, IF s = None THEN id ELSE s, e.iv + 1),
    !.retried = FALSE, !.restart = FALSE, !.iv = e.iv + 1,
    !.resolution = [target |-> "judge", iv |-> e.iv + 1, ctx |-> ctx,
                    mode |-> mode, sess |-> s]]

\* node_resume target=judge: a takeover, which declares the Actor's dispatch
\* settled.  The recorded Judge is continued in its own session, or drained
\* and replaced by a fresh one (its route changed, or its session is missing).
ResumesJudge(mode) ==
  LET asked == JudgmentIsCurrent(cur) /\ AskedBy(cur.judge, cur)
      cont  == JudgeToContinue
      s     == IF mode = "followup" THEN cont.sess ELSE None
      e     == Rejudged(cur, mode, s, version + 1, TRUE)
  IN  /\ Command("resumeJudge")
      /\ status = "blocked" /\ cur.iv < MaxInputs
      /\ cur.phase = "checking" /\ cur.claim # None /\ cur.dispatch # None
      /\ ~Accepted(cur)
      /\ cur.dispatch.settled \/ RoleIsIdle
      /\ IF mode = "followup"
         THEN /\ cont # None /\ (cur.restart \/ asked)
              /\ Idle(cont.sess) /\ \E h \in host : h.sess = cont.sess
              /\ UNCHANGED host
         ELSE Quiesce(JudgeToDrain(cur.claim))
      /\ Put("running", e)
      /\ ThenDrive(e)
      /\ UNCHANGED <<past, actors, stage>>

\* judge_respawn, from running or blocked: drain, then a fresh Judge.  Its
\* drive is awaited directly after the write.
RespawnsJudge ==
  LET ctx == cur.resolution # None /\ cur.resolution.ctx
      e   == Rejudged(cur, "fresh", None, version + 1, ctx)
  IN  /\ Command("respawn")
      /\ status \in {"running", "blocked"} /\ cur.iv < MaxInputs
      /\ cur.phase = "checking" /\ cur.claim # None /\ cur.dispatch.settled
      /\ ~Accepted(cur)
      /\ Quiesce(JudgeToDrain(cur.claim))
      /\ Put("running", e)
      /\ calls' = calls \cup DriveReads(e, version + 1)
      /\ UNCHANGED <<past, actors, stage>>

\* The cwd or the drain of a respawn fails: dispatchFault.
RespawnFaults ==
  /\ Command("respawn")
  /\ status = "running"
  /\ cur.phase = "checking" /\ cur.claim # None /\ cur.dispatch.settled
  /\ ~Accepted(cur)
  /\ BlockRow(cur)
  /\ UNCHANGED <<past, actors, stage, calls, host>>

\* workflow_set_role_model: accepted while the Run is running, unless it would
\* replace the session of the Role at work.
SetsRoleModel(key) ==
  LET s        == IF key = Judge THEN None ELSE actors[key]
      replaces == s # None /\ key = RoleNow
  IN  /\ Command("setRoleModel")
      /\ status \in {"running", "blocked"}
      /\ ~(replaces /\ status = "running" /\ cur.phase = "working")
      /\ s # None => Idle(s)
      /\ Put(status, [cur EXCEPT !.prepared = cur.prepared \/ replaces])
      /\ actors' = IF key = Judge THEN actors ELSE [actors EXCEPT ![key] = None]
      /\ stage' = [stage EXCEPT ![key] = "manual"]
      /\ UNCHANGED <<past, calls, host>>

\* handleReset
Resets ==
  /\ Command("reset")
  /\ status \in {"running", "blocked"}
  /\ Put("terminated", [cur EXCEPT !.restart = FALSE])
  /\ UNCHANGED <<past, actors, stage, calls, host>>

\* The Host process dies, with every suspended handler and live turn, and
\* handleRestartReconcile runs in the next one.
Restarts ==
  /\ Command("restart")
  /\ status \in {"running", "blocked"}
  /\ IF cur.restart THEN UNCHANGED <<status, cur, version>>
                    ELSE BlockRow([cur EXCEPT !.restart = TRUE])
  /\ calls' = {}
  /\ host' = {[h EXCEPT !.st = "idle"] : h \in host}
  /\ UNCHANGED <<past, actors, stage>>

-----------------------------------------------------------------------------
\* What the engine does by itself once an await completes.
Continues(c) ==
  \/ DriveStarts(c) \/ ArrangeActor(c) \/ ProbeIdle(c) \/ Compacted(c)
  \/ Sent(c) \/ PublishActor(c) \/ ArrangeJudge(c) \/ PublishJudge(c)
  \/ DriveFaults(c) \/ ReleasedAndAccepted(c)
  \/ TurnEndReads(c) \/ ProbeUnsafe(c) \/ ProbeWaiting(c) \/ SettlesStale(c)
  \/ TransferSettles(c) \/ ActorSettles(c) \/ ActorSettlesNothing(c)
  \/ ActorFailsOver(c) \/ ActorEndsWithoutClaim(c)
  \/ JudgeRetries(c) \/ JudgeFailsOver(c) \/ RejudgeSends(c) \/ JudgeEndsWithoutVerdict(c)
  \/ ActivationSettles(c)

\* What the live turns of the Run do.
Submits(h) ==
  \/ \E r \in Results : NodeClaim(h, r)
  \/ JudgeRejects(h) \/ JudgeNeedsContext(h) \/ JudgeAccepts(h)
  \/ TurnEnds(h) \/ TurnWakes(h) \/ ActivationFails(h) \/ ActorBlocks(h)

Commanded ==
  \/ ManagerBlocks
  \/ \E replace, skip \in BOOLEAN : ResumesActor(replace, skip)
  \/ \E mode \in {"fresh", "followup"} : ResumesJudge(mode)
  \/ RespawnsJudge \/ RespawnFaults
  \/ \E key \in Roles \cup {Judge} : SetsRoleModel(key)
  \/ Resets \/ Restarts

Next ==
  \/ \E c \in calls : Continues(c)
  \/ \E h \in host : Submits(h)
  \/ Commanded

Spec == Init /\ [][Next]_vars

\* What the Host owes the engine.  An await completes: every one is bounded by
\* a timeout (DISPATCH_TIMEOUTS).  A turn ends and a waiting session is woken.
\* A session does not spawn subagents for ever: a turn that could be its last
\* again and again is its last one time.
EndsForGood(h) ==
  TurnEnds(h) /\ \A g \in host' : g.sess = h.sess => g.st = "idle"

Fairness ==
  /\ \A op \in Steps : WF_vars(\E c \in calls : c.op = op /\ Continues(c))
  /\ WF_vars(\E h \in host : TurnEnds(h) \/ TurnWakes(h))
  /\ SF_vars(\E h \in host : EndsForGood(h))

FairSpec == Spec /\ Fairness

-----------------------------------------------------------------------------
(* Properties.                                                             *)

TypeOK ==
  /\ status \in Statuses
  /\ version \in Nat
  /\ cur \in WorkOrders
  /\ past \in Seq(WorkOrders)
  /\ actors \in [Roles -> Maybe(Sessions)]
  /\ stage \in [Roles \cup {Judge} -> Stages]
  /\ calls \subseteq Calls
  /\ host \subseteq Turns
  /\ used \in Nat

\* checkStateInvariants, for the row and the history it points to.
ValidRow ==
  /\ ValidWorkOrder(cur)
  /\ \A i \in DOMAIN past : ValidWorkOrder(past[i]) /\ past[i].phase = "exited"
  /\ status = "completed" => cur.phase = "exited"
  /\ status \in {"running", "blocked"} => cur.phase # "exited"

\* A handler that has seen the Judge's turn fail may replace that Judge.
MayReplaceJudge(c) == Safe(c, "judgeProbe") /\ StillCurrent(c) /\ cur.phase = "checking"

\* A restart interrupted the Judge at work, node_resume continued it in its own
\* session, and no earlier Judge asked from that session for context on the claim.
ContinuedAfterRestart ==
  /\ {"restart", "resumeJudge"} \subseteq Commands
  /\ cur.resolution # None /\ cur.resolution.mode = "followup"
  /\ cur.resolution.sess = cur.judge.sess
  /\ ~(/\ AskedBy(cur.prevJudge, cur) /\ cur.judgment.claim = cur.claim.id
       /\ cur.resolution.sess = cur.prevJudge.sess)

\* StateHost.put validates what it is given and throws on a violation.  Every
\* row that is stored is valid, whatever the order of turns, commands and
\* restarts; and so is the row with which a handler is about to replace a Judge
\* (put or not), with one exception: the Judge that a node_resume after a
\* restart continued in its own session.  There the recovery mode names the
\* session that the new row gives up, the store refuses it, and the failure goes
\* unanswered (JudgeFailureIsAnswered, which a run refutes).
StoreAccepts ==
  /\ ValidRow
  /\ \A c \in calls : MayReplaceJudge(c) =>
       \/ ContinuedAfterRestart
       \/ \A retried \in BOOLEAN : ValidWorkOrder(WithNewJudge(retried))

\* A result is known: by a Judge that was really dispatched, for this claim
\* at this inputVersion, after the Actor's dispatch had settled.
JudgedExit(e) ==
  /\ Accepted(e) /\ JudgmentIsCurrent(e)
  /\ e.judge.pub /\ e.judgment.judge = e.judge.id
  /\ e.dispatch.pub /\ e.dispatch.settled
  /\ e.claim.dispatch = e.dispatch.id
  /\ e.dispatch.id < e.claim.id /\ e.claim.id < e.judge.id
ExitsAreJudged ==
  /\ \A i \in DOMAIN past : JudgedExit(past[i])
  /\ cur.phase = "exited" => JudgedExit(cur)

\* The engine dispatches a work order only after the Judge that let its
\* predecessor go has settled: so no two work orders are ever worked on at
\* once, and a history has at most one open Judge, the last.
OneHandoffAtATime ==
  \A i \in DOMAIN past :
    i < Len(past) \/ cur.dispatch # None => past[i].judge.settled

\* No message that was still current when it was sent is worked on in s.
Quiet(s) == \A h \in host : h.sess = s /\ ~h.late => h.st = "idle"

\* A Judge reads material that no turn can still change: while a Judge is at
\* work on the claim of a Role, the session that made the claim is idle,
\* whatever drains, retries, takeovers by node_resume and stale drives happened
\* before.  Only a message whose send was overtaken by a BLOCK and a resume,
\* and that the Host delivers all the same, can still wake that session.  The
\* Manager's own session is exempt: a takeover of a Manager Node does not ask
\* for it to be idle.
JudgeReadsClosedWork ==
  status = "running" /\ cur.phase = "checking" /\ cur.judge # None /\ cur.judge.pub
    => /\ cur.dispatch.settled
       /\ RoleNow # Manager => Quiet(cur.dispatch.sess)

\* A session is given the next message when it has closed the last one: a
\* current handler that is about to send to a Role's session, or to a Judge it
\* continues, finds it idle.  The probe is made earlier, before a compaction
\* or a cwd is awaited, and is left out when the dispatch was seen to settle.
\* Two drives may both find the Judge that a resume arranged and not yet
\* published, and both send it the same message; never a new one over an old.
SendsToIdleSessions ==
  \A c \in calls :
    StillCurrent(c) /\ c.sess \notin {None, ManagerSession} =>
      /\ c.op = "send" => Quiet(c.sess)
      /\ c.op = "judgeSend" /\ cur.resolution # None /\ cur.resolution.mode = "followup"
           => \A h \in host : h.sess = c.sess /\ ~h.late /\ h.msg # c.id => h.st = "idle"

\* A Role with reuse: node starts every work order in a session of its own:
\* one that an earlier work order used is not dispatched again, though the
\* mapping is deleted only after the drain of ACCEPT was awaited.
NodeScopedSessionsAreFresh ==
  RoleNow \in NodeScoped /\ cur.dispatch # None /\ cur.dispatch.pub
    => \A i \in DOMAIN past : past[i].dispatch.sess # cur.dispatch.sess

\* The engine replaces a Judge by itself only for a reason that it can run out
\* of: one retry for an input (retryJudgeOnce), or the next stage of its route
\* (tryJudgeFailover).  Any other new Judge is for a new inputVersion.
JudgeReplacementsRunOut ==
  [][ cur.judge # None /\ cur'.judge # None /\ cur'.judge.id # cur.judge.id
        => \/ cur'.iv > cur.iv \/ Len(past') > Len(past)
           \/ ~cur.retried /\ cur'.retried
           \/ stage[Judge] # "fallback" /\ stage'[Judge] = NextStage(stage[Judge])
    ]_vars

\* The history is never rewritten: a work order that was left by a result
\* keeps everything it recorded, except that its Judge settles, once; and a
\* Run that completed or was reset is final, whatever handler is still
\* suspended and whatever turn is still live.
HistoryIsFinal ==
  [][ /\ status \in {"completed", "terminated"} => UNCHANGED rowVars
      /\ Len(past') >= Len(past)
      /\ \A i \in DOMAIN past :
           \/ past'[i] = past[i]
           \/ /\ ~past[i].judge.settled
              /\ past'[i] = [past[i] EXCEPT !.judge.settled = TRUE]
    ]_vars

\* user-guide.md: a Judge's turn that fails without a verdict is retried once,
\* and BLOCKed when it fails again.  So the handler of a current Judge's
\* turn/end, unless the session waits for its subagents, writes the row.
JudgeFailureIsAnswered ==
  [][ \A c \in calls \ calls' :
        /\ c.op = "judgeProbe" /\ StillCurrent(c)
        /\ \A h \in host : h.sess = c.sess => h.st # "waiting"
        => version' > version
    ]_vars

\* user-guide.md: workflow_set_role_model takes effect with the next dispatch
\* and does not disturb what is running.  So a dispatch that the Host accepted
\* is published as long as it is the one the running Run waits for: a message
\* with no recorded identity gives its turn no right to submit.
AcceptedDispatchIsPublished ==
  [][ \A c \in calls \ calls' :
        /\ status = "running"
        /\ \/ c.op = "publish" /\ cur.phase = "working" /\ cur.dispatch.id = c.id
           \/ /\ c.op = "judgePublish" /\ cur.judge # None /\ cur.judge.id = c.id
              /\ ~cur.judge.pub
        => version' > version
    ]_vars

\* drive's comment on compactBeforeReuse: the mark that the boundary needs no
\* compaction is persisted along with the dispatch.
PublishedIsPrepared ==
  cur.dispatch # None /\ cur.dispatch.pub /\ RoleNow # Manager => cur.prepared

\* Someone is always responsible for a running Run: a suspended handler that
\* still holds the current version, a drive about to read it, or a live turn
\* (or its turn/end) of the published dispatch or Judge that is awaited.  That the
\* failure of an activation is answered, and not forgotten on its way to the
\* engine, is assumed here: see FailureIsNotMissed of DispatchLifecycle.
Awaited(d) ==
  /\ d # None /\ d.pub /\ ~d.settled
  /\ \/ \E h \in host : /\ h.st # "idle" /\ Matches(d, h.sess, h.msg)
     \/ \E c \in calls : /\ c.op = "turnEnd" /\ Matches(d, c.sess, c.id)
     \/ \E c \in calls : c.op = "activationEnd" /\ c.sess = d.sess /\ c.id = d.id
Carried ==
  \/ \E c \in calls : c.ver = version /\ c.op # "drive"
  \/ \E c \in calls : c.op = "drive"
  \/ cur.phase = "ready" /\ past # <<>> /\ Awaited(past[Len(past)].judge)
  \/ cur.phase \in {"working", "checking"} /\ Awaited(cur.dispatch)
  \/ cur.phase = "checking" /\ Awaited(cur.judge)
NeverAbandoned == status = "running" => Carried

\* A Run does not stay "running" for ever: it completes, or it is BLOCKed and
\* the Manager is told.  (Every turn ends, so a silent Actor or Judge is found
\* out by its turn/end and not by a timer.)
RunsSettle == status = "running" ~> status # "running"

\* The Run as its users see it: SerialWorkflow under this mapping.
Step ==
  CASE cur.phase = "ready"    -> "open"
    [] cur.phase = "working"  -> "dispatched"
    [] cur.phase = "checking" -> IF cur.dispatch.settled THEN "closed" ELSE "claimed"
    [] cur.phase = "exited"   -> "exited"

Serial == INSTANCE SerialWorkflow WITH
  at     <- cur.node,
  step   <- Step,
  result <- IF cur.claim = None THEN None ELSE cur.claim.result,
  trail  <- [i \in DOMAIN past |-> [node |-> past[i].node, result |-> past[i].claim.result]],
  linger <- ~PredecessorSettled

\* Overlapping handlers, retries, takeovers and restarts add up to a serial
\* workflow: one work order at a time, dispatched when the Judge of the last
\* one has closed, claimed once, and left only when a closed claim is
\* accepted, to the Node its result leads to.
ImplementsSerialWorkflow == Serial!Spec

\* The history is a path of the frozen definition from its start Node.
HistoryIsAPath == Serial!TrailIsAPath

=============================================================================
