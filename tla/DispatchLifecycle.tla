------------------------- MODULE DispatchLifecycle -------------------------
(***************************************************************************)
(* The observation of dispatches that end without a turn/end:              *)
(* src/plugin/dispatch-lifecycle.ts, with the listeners of index.ts that   *)
(* report to it and settleActivation of the engine that consumes from it.  *)
(*                                                                         *)
(* The Host runs a session in activation periods (epochs).  It announces   *)
(* the start of one, later its end, and for the first one the result of    *)
(* the activation.  The engine publishes a dispatch some time after the    *)
(* Host accepted it.  A dispatch is its number, in the order of sending;   *)
(* of the work order there is only the dispatch it awaits.                 *)
(***************************************************************************)
EXTENDS Naturals, Sequences, FiniteSets, SequencesExt

CONSTANTS
  Sessions,
  None,
  BufferMax,       \* BUFFER_MAX
  PendingMax,      \* PENDING_MAX
  MaxDispatches,   \* bound: dispatches sent
  MaxEpochs        \* bound: epochs of all sessions

Stops == {"completed", "error"}
EpochEnds == [sess : Sessions, epoch : Nat \ {0}, stop : Stops]
\* The values of the maps pending, buffered and outcomes.
Registrations ==
  [reg : Nat, sess : Sessions, disp : Nat \ {0}, epoch : Nat \cup {None}, end : EpochEnds \cup {None}]
BufferedEnds == [epoch : Nat \ {0}, stop : Stops, old : BOOLEAN]
Outcomes == [epoch : Nat \cup {None}, outcome : {"completed", "failed"}]

ASSUME LifecycleAssumption ==
  /\ BufferMax \in Nat \ {0} /\ PendingMax \in Nat \ {0}
  /\ MaxDispatches \in Nat /\ MaxEpochs \in Nat
  /\ None \notin Nat /\ None \notin {"completed", "failed"}
  /\ None \notin EpochEnds /\ None \notin Registrations
  /\ None \notin BufferedEnds /\ None \notin Outcomes

VARIABLES
  \* the Host
  epoch,           \* epoch[s]: the epochs session s has had
  state,           \* state[s]: the last of them is live, or how it ended
  target,          \* target[d]: the session dispatch d was sent to
  ranIn,           \* ranIn[d]: the epoch that took d from the inbox; 0: none yet
  ended,           \* ends that the Host has not announced yet
  \* the module
  epochs, pending, buffered, outcomes,   \* its maps, in order of insertion
  attached,        \* observeResult: the results it waits for, or has seen
  registrations,
  disposed,
  \* the engine
  awaited,         \* the dispatch the work order awaits, None if none
  published,       \* the dispatches it has published
  tasks,           \* calls of settleActivation at work
  \* what the properties excuse; no guard reads it
  lost,            \* the sessions an entry of which was expired or evicted
  noted,           \* the epoch of the registration of awaited, 0 before it
  forgotten        \* how its observation was given away: "retired", "credited"

excuses == <<lost, noted, forgotten>>
lifecycleVars == <<epoch, state, target, ranIn, ended, epochs, pending, buffered, outcomes,
                   attached, registrations, disposed, awaited, published, tasks, excuses>>
hostVars == <<epoch, state, target, ranIn, ended>>
mapVars  == <<epochs, pending, buffered, outcomes>>

-----------------------------------------------------------------------------
(* A Map of JavaScript: <<key, value>> in the order of insertion.          *)

Keys(m) == {m[i][1] : i \in DOMAIN m}
Value(m, s) == IF s \in Keys(m) THEN m[CHOOSE i \in DOMAIN m : m[i][1] = s][2] ELSE None
\* What is left of m when only the positions in keep are.
Kept(m, keep) ==
  LET kept[n \in 0..Len(m)] ==
        IF n = 0 THEN <<>> ELSE IF n \in keep THEN Append(kept[n - 1], m[n]) ELSE kept[n - 1]
  IN  kept[Len(m)]
Without(m, s) == Kept(m, {i \in DOMAIN m : m[i][1] # s})
With(m, s, v) == IF s \in Keys(m)
                 THEN [i \in DOMAIN m |-> IF m[i][1] = s THEN <<s, v>> ELSE m[i]]
                 ELSE Append(m, <<s, v>>)
\* dropOldest: make room for one more.
Room(m, max, s) == IF Len(m) < max \/ s \in Keys(m) THEN m ELSE Tail(m)

LifecycleInit ==
  /\ epoch = [s \in Sessions |-> 0] /\ state = [s \in Sessions |-> "none"]
  /\ target = <<>> /\ ranIn = <<>> /\ ended = {}
  /\ epochs = <<>> /\ pending = <<>> /\ buffered = <<>> /\ outcomes = <<>>
  /\ attached = {} /\ registrations = 0 /\ disposed = FALSE
  /\ awaited = None /\ published = {} /\ tasks = {}
  /\ lost = {} /\ noted = 0 /\ forgotten = {}

-----------------------------------------------------------------------------
(* The Host.                                                               *)

Live(s) == state[s] = "live"
Inbox(s) == {d \in DOMAIN target : target[d] = s /\ ranIn[d] = 0}

\* subagent/start of the next epoch, for messages in the inbox or of itself (a
\* background job reports).  noteStart.
Starts(s) ==
  /\ ~Live(s) /\ FoldFunction(+, 0, epoch) < MaxEpochs
  /\ \E d \in DOMAIN target : target[d] = s
  /\ epoch' = [epoch EXCEPT ![s] = @ + 1] /\ state' = [state EXCEPT ![s] = "live"]
  /\ ranIn' = [d \in DOMAIN ranIn |-> IF d \in Inbox(s) THEN epoch'[s] ELSE ranIn[d]]
  /\ LET room == Room(epochs, PendingMax, s)
     IN  /\ epochs' = IF disposed THEN epochs ELSE With(room, s, epoch'[s])
         /\ lost' = lost \cup (Keys(epochs) \ Keys(room))
  /\ UNCHANGED <<target, ended, pending, buffered, outcomes, attached, registrations,
                 disposed, awaited, published, tasks, noted, forgotten>>

\* The live epoch takes what is in the inbox: the session is continued warm, and
\* no start is announced.
Takes(s) ==
  /\ Live(s) /\ Inbox(s) # {}
  /\ ranIn' = [d \in DOMAIN ranIn |-> IF d \in Inbox(s) THEN epoch[s] ELSE ranIn[d]]
  /\ UNCHANGED <<epoch, state, target, ended, mapVars, attached, registrations, disposed,
                 awaited, published, tasks, excuses>>

\* The epoch ends; the Host is yet to announce it.
Ends(s, stop) ==
  /\ Live(s) /\ ~disposed
  /\ state' = [state EXCEPT ![s] = stop]
  /\ ended' = ended \cup {[sess |-> s, epoch |-> epoch[s], stop |-> stop]}
  /\ UNCHANGED <<epoch, target, ranIn, mapVars, attached, registrations, disposed, awaited,
                 published, tasks, excuses>>

-----------------------------------------------------------------------------
(* The module.                                                             *)

Task(entry) == [pc |-> "consume", sess |-> entry.sess, reg |-> entry.reg, cand |-> None]

\* sweepBuffer: an entry older than the TTL is marked as such by Expires.
Swept(b) == Kept(b, {i \in DOMAIN b : ~b[i][2].old})
Buffered(b, s, end) ==
  LET kept == With(Swept(b), s, [epoch |-> end.epoch, stop |-> end.stop, old |-> FALSE])
  IN  IF Len(kept) > BufferMax THEN Tail(kept) ELSE kept
Expires ==
  /\ \E i \in DOMAIN buffered : ~buffered[i][2].old
  /\ buffered' = [i \in DOMAIN buffered |-> <<buffered[i][1], [buffered[i][2] EXCEPT !.old = TRUE]>>]
  /\ lost' = lost \cup Keys(buffered)
  /\ UNCHANGED <<hostVars, epochs, pending, outcomes, attached, registrations, disposed,
                 awaited, published, tasks, noted, forgotten>>

AnyEpoch(entry, end) == FALSE
\* The registration is of another epoch than the end.
OtherEpoch(entry, end) == entry.epoch # None /\ entry.epoch # end.epoch

\* subagent/end: noteEnd, and settleActivation when that returns a reference.
Announces(end) ==
  LET s     == end.sess
      entry == Value(pending, s)
      newer == entry # None /\ OtherEpoch(entry, end) /\ end.epoch = Value(epochs, s)
      ours  == entry # None /\ ~OtherEpoch(entry, end)
      buf   == ~disposed /\ (entry = None \/ newer)
  IN  /\ end \in ended /\ ended' = ended \ {end}
      /\ buffered' = IF buf THEN Buffered(buffered, s, end) ELSE buffered
      /\ lost' = IF buf THEN lost \cup (Keys(buffered) \ Keys(buffered')) \cup
                             ({s} \cap {x \in Keys(buffered) : Value(buffered, x).epoch # end.epoch})
                 ELSE lost
      /\ forgotten' = IF ours /\ awaited # None /\ entry.disp # awaited /\ s = target[awaited]
                      THEN forgotten \cup {"credited"} ELSE forgotten
      /\ pending' = IF newer THEN Without(pending, s)
                    ELSE IF ours THEN With(pending, s, [entry EXCEPT !.end = end]) ELSE pending
      /\ tasks' = IF ours THEN tasks \cup {Task(entry)} ELSE tasks
      /\ UNCHANGED <<epoch, state, target, ranIn, epochs, outcomes, attached, registrations,
                     disposed, awaited, published, noted>>

\* observeResult.record, once the Host has published the end of the activation:
\* completed although its session may be cleaned up with an error, or failed.
ResultSettles(a, outcome) ==
  /\ a \in attached /\ a.outcome = None
  /\ epoch[a.sess] > 1 \/ state[a.sess] \notin {"none", "live"}
  /\ attached' = (attached \ {a}) \cup {[a EXCEPT !.outcome = outcome]}
  /\ outcomes' = IF disposed THEN outcomes
                 ELSE With(Room(outcomes, BufferMax, a.sess), a.sess, [epoch |-> a.epoch, outcome |-> outcome])
  /\ UNCHANGED <<hostVars, epochs, pending, buffered, registrations, disposed, awaited,
                 published, tasks, excuses>>

NoEpoch(entry, prior) == FALSE
\* Only an end of the registration's own epoch may have come before it.
SameEpoch(entry, prior) == entry.epoch # None /\ prior.epoch = entry.epoch

\* publish, from trackDispatch.
Registered(d) ==
  LET s     == target[d]
      swept == Swept(buffered)
      room  == Room(pending, PendingMax, s)
      entry == [reg |-> registrations + 1, sess |-> s, disp |-> d, epoch |-> Value(epochs, s), end |-> None]
      prior == Value(swept, s)
      found == prior # None /\ SameEpoch(entry, prior)
      end   == IF found THEN [sess |-> s, epoch |-> prior.epoch, stop |-> prior.stop] ELSE None
  IN  IF disposed THEN UNCHANGED <<mapVars, registrations, tasks, excuses>>
      ELSE /\ registrations' = registrations + 1
           /\ pending' = With(room, s, [entry EXCEPT !.end = end])
           /\ buffered' = Without(swept, s)
           /\ tasks' = IF found THEN tasks \cup {Task(entry)} ELSE tasks
           /\ lost' = lost \cup (Keys(pending) \ Keys(room))
           /\ noted' = entry.epoch
           /\ UNCHANGED <<epochs, outcomes, forgotten>>

\* invalidate with the dispatch, from forgetDispatch.
Invalidated(s, d) ==
  IF Value(pending, s) # None /\ Value(pending, s).disp = d THEN Without(pending, s) ELSE pending

\* invalidate of the session, from retireJudge, drainJudge and drainRoleActor: it
\* deletes the registration whichever dispatch it is of.
Retired(s) ==
  /\ pending' = Without(pending, s)
  /\ forgotten' = IF s \in Keys(pending) /\ Value(pending, s).disp = awaited
                  THEN forgotten \cup {"retired"} ELSE forgotten

Disposes ==
  /\ ~disposed /\ disposed' = TRUE /\ published # {}
  /\ epochs' = <<>> /\ pending' = <<>> /\ buffered' = <<>> /\ outcomes' = <<>>
  /\ UNCHANGED <<hostVars, attached, registrations, awaited, published, tasks, excuses>>

-----------------------------------------------------------------------------
(* The engine.                                                             *)

Latest == Len(target)

\* A dispatch is arranged and sent; the Host accepts it.  A continued session
\* works on it in the epoch that is live (Takes) or in the next one (Starts).
Sends(s) ==
  /\ awaited = None /\ Latest < MaxDispatches /\ ~disposed
  /\ target' = Append(target, s)
  /\ ranIn' = Append(ranIn, 0)
  /\ awaited' = Latest + 1
  /\ UNCHANGED <<epoch, state, ended, mapVars, attached, registrations, disposed, published,
                 tasks, excuses>>

First(d) == \A other \in 1..(d - 1) : target[other] # target[d]
\* ensureRoleActor and startJudge hand the result of a new session's activation
\* to observeResult before they return.  Then trackDispatch, if the work order
\* still awaits the dispatch; a drive that has lost it returns (an Actor's), or
\* retires the session it sent to (a Judge's).
Publishes(d) ==
  /\ d \in DOMAIN target \ published
  /\ published' = published \cup {d}
  /\ attached' = IF First(d) /\ ~disposed
                 THEN attached \cup {[sess |-> target[d], epoch |-> Value(epochs, target[d]), outcome |-> None]}
                 ELSE attached
  /\ \/ awaited = d /\ Registered(d)
     \/ awaited # d /\ UNCHANGED <<mapVars, registrations, tasks, excuses>>
     \/ awaited # d /\ Retired(target[d])
        /\ UNCHANGED <<epochs, buffered, outcomes, registrations, tasks, lost, noted>>
  /\ UNCHANGED <<hostVars, disposed, awaited>>

\* A handler retires or drains a session the work order is done with: after a
\* verdict, a retry, a failover, a resume or an exit; and a drive whose Judge
\* another drive has published meanwhile.
Retires(d) ==
  /\ d \in DOMAIN target /\ (d # awaited \/ d \in published)
  /\ target[d] \in Keys(pending)
  /\ Retired(target[d])
  /\ UNCHANGED <<hostVars, epochs, buffered, outcomes, attached, registrations, disposed,
                 awaited, published, tasks, lost, noted>>

NoLongerAwaited == awaited' = None /\ noted' = 0 /\ forgotten' = {}

\* The dispatch is settled by the turn/end of its turn (forgetDispatch).
SettledByTurn ==
  /\ awaited # None /\ awaited \in published /\ ranIn[awaited] # 0 /\ ~disposed
  /\ pending' = Invalidated(target[awaited], awaited)
  /\ NoLongerAwaited
  /\ UNCHANGED <<hostVars, epochs, buffered, outcomes, attached, registrations, disposed,
                 published, tasks, lost>>

\* BLOCK by a command; a resume makes room for another dispatch.
Blocked ==
  /\ awaited # None /\ NoLongerAwaited /\ ~disposed
  /\ UNCHANGED <<hostVars, mapVars, attached, registrations, disposed, published, tasks,
                 lost>>

\* The reference names this registration, and not one that replaced it.
SameRegistration(t, entry) == entry.reg = t.reg

\* consume, and the outcome that can be attributed to the same epoch.
Consumes(t) ==
  LET entry    == Value(pending, t.sess)
      observed == Value(outcomes, t.sess)
      outcome  == IF observed # None /\ entry.epoch # None /\ observed.epoch = entry.epoch
                  THEN observed.outcome ELSE "unknown"
  IN  /\ t \in tasks /\ t.pc = "consume"
      /\ tasks' = (tasks \ {t}) \cup
           (IF disposed \/ entry = None THEN {}
            ELSE IF ~SameRegistration(t, entry) \/ entry.end = None THEN {}
            ELSE {[t EXCEPT !.pc = "settle",
                            !.cand = [disp |-> entry.disp, end |-> entry.end, outcome |-> outcome]]})
      /\ UNCHANGED <<hostVars, mapVars, attached, registrations, disposed, awaited,
                     published, excuses>>

Failure(cand) ==
  cand.outcome = "failed" \/ (cand.end.stop # "completed" /\ cand.outcome # "completed")

StillAwaited(cand) == awaited = cand.disp

\* settleActivation with the row: BLOCK, or nothing; and release.
Settles(t) ==
  LET blocks == StillAwaited(t.cand) /\ Failure(t.cand)
      entry  == Value(pending, t.sess)
  IN  /\ t \in tasks /\ t.pc = "settle" /\ tasks' = tasks \ {t}
      /\ IF blocks THEN NoLongerAwaited ELSE UNCHANGED <<awaited, noted, forgotten>>
      /\ pending' = IF entry # None /\ entry.reg = t.reg /\ ~disposed
                    THEN Without(pending, t.sess) ELSE pending
      /\ UNCHANGED <<hostVars, epochs, buffered, outcomes, attached, registrations, disposed,
                     published, lost>>

LifecycleNext ==
  \/ \E s \in Sessions :
       \/ Starts(s) \/ Takes(s) \/ Sends(s)
       \/ \E stop \in {"completed", "error"} : Ends(s, stop)
  \/ \E end \in ended : Announces(end)
  \/ \E a \in attached : \E outcome \in {"completed", "failed"} : ResultSettles(a, outcome)
  \/ \E d \in DOMAIN target : Publishes(d) \/ Retires(d)
  \/ \E t \in tasks : Consumes(t) \/ Settles(t)
  \/ Expires \/ Disposes \/ SettledByTurn \/ Blocked

-----------------------------------------------------------------------------
(* Properties.                                                             *)

\* A Run is blocked for a failed activation only on evidence from the epoch that
\* took the dispatch, or from the one its registration is of: however the edges
\* of several epochs of a reused session, warm and cold continuations, retired
\* registrations and the publication overtake each other.  Where the message was
\* taken in the registered epoch, as when the Host announces a start before it
\* answers the send, these are one.  A registration made before any start of its
\* session was announced (None) takes the first end that comes.
BlocksOnOwnEpoch ==
  \A t \in tasks :
    t.pc = "settle" /\ StillAwaited(t.cand) /\ Failure(t.cand)
      => noted = None \/ t.cand.end.epoch \in {ranIn[t.cand.disp], noted}

\* The dispatch was published with its message still in the inbox of a session
\* that has had an epoch, or after the next one had begun.
RegisteredInOther == noted # None /\ noted # ranIn[awaited]

\* The epoch that took the published dispatch has brought its result, completed.
ResultArrived ==
  \E a \in attached :
    a.sess = target[awaited] /\ a.epoch = ranIn[awaited] /\ a.outcome = "completed"

\* A published dispatch that is still awaited when the epoch that took it has
\* failed is not forgotten, in a session continued warm or cold: the end is with
\* the Host or a call of settleActivation is at work.  Only where
\*  - an entry of the session was evicted, or expired, or replaced in the buffer;
\*  - the registration is of another epoch (RegisteredInOther): the Host is
\*    taken to announce the start of a cold continuation before it answers the
\*    send, and the code has nothing for a Host that does not;
\*  - the session was retired while it was registered: a drive that lost the race
\*    for a resumed Judge deletes the registration of the one that won;
\*  - the end came before the publication and was credited to an earlier dispatch
\*    whose registration in that epoch a BLOCK had left standing;
\*  - the result of the epoch says completed, or the module is disposed
\* is the failure not seen.
FailureIsNotMissed ==
  awaited # None /\ awaited \in published /\ ~disposed =>
    LET s == target[awaited]
    IN  ranIn[awaited] = epoch[s] /\ state[s] = "error" /\ s \notin lost
        /\ ~RegisteredInOther /\ forgotten = {} /\ ~ResultArrived
          => (\E end \in ended : end.sess = s) \/ (\E t \in tasks : t.sess = s)
=============================================================================
