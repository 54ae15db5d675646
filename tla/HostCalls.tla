----------------------------- MODULE HostCalls -----------------------------
(***************************************************************************)
(* Calls of the Host that take long, and what they leave behind:           *)
(* src/plugin/host.ts (compactWithRetry, compactOnce,                      *)
(* inspectPersistedSession) with withTimeout of src/engine/timeouts.ts.    *)
(*                                                                         *)
(* A call that times out is abandoned and its signal is aborted: the Host  *)
(* may honour that, or answer late.  A late answer can be an agent or a    *)
(* session handle that nobody waits for.                                   *)
(*                                                                         *)
(* One Role session is prepared for reuse (and then sent to), and one is   *)
(* read.  A materialization is the number of the attempt that asked for it.*)
(***************************************************************************)
EXTENDS Naturals, FiniteSets

CONSTANT MaxAttempts     \* COMPACT_MAX_ATTEMPTS
ASSUME AttemptsAssumption == MaxAttempts \in Nat \ {0}

VARIABLES
  attempt,    \* the attempt at compaction at work
  stage,      \* what it waits for; "ok" or "failed" when it is over
  retryable,  \* the failure of this attempt may be tried again
  awake,      \* the session is resident of itself: not one of ours
  agents,     \* materializations that are resident
  inflight,   \* calls of the Host without answer: [what, of, aborted]
  spoilt,     \* materializations whose dispose failed
  reading,    \* what a read of a persisted session waits for; "over" at its end
  handles     \* of that read: handles that are "open", or closed n times

callVars == <<attempt, stage, retryable, awake, agents, inflight, spoilt, reading, handles>>

Attempts == 1..MaxAttempts
Call(what, of) == [what |-> what, of |-> of, aborted |-> FALSE]
\* withTimeout gives up: the call goes on, its signal aborted.
Abandoned(what) == {IF k.what = what THEN [k EXCEPT !.aborted = TRUE] ELSE k : k \in inflight}
Waits(what) == \E k \in inflight : k.what = what /\ ~k.aborted

CallsInit ==
  /\ attempt = 0 /\ stage = "start" /\ retryable = FALSE
  /\ awake \in BOOLEAN /\ agents = {} /\ inflight = {} /\ spoilt = {}
  /\ reading = "start" /\ handles = [open |-> 0, closed |-> 0]

-----------------------------------------------------------------------------
(* compactWithRetry and compactOnce.                                       *)

\* A failed attempt is repeated if there is one left and nothing of it stayed.
TryAgain == retryable /\ attempt < MaxAttempts

\* An attempt begins: with the resident agent, or by resuming a cold session.
\* Where no agent has a compaction backend the work is skipped.
BeginsAttempt ==
  /\ \/ stage = "start"
     \/ stage = "failed" /\ TryAgain
  /\ attempt' = attempt + 1 /\ retryable' = FALSE
  /\ IF awake
     THEN \/ stage' = "ok" /\ UNCHANGED inflight
          \/ stage' = "compact" /\ inflight' = inflight \cup {Call("compact", 0)}
     ELSE stage' = "resume" /\ inflight' = inflight \cup {Call("resume", attempt')}
  /\ UNCHANGED <<awake, agents, spoilt, reading, handles>>

\* The Host answers a resume: with an agent, unless the id is taken.
Resumed(k) ==
  /\ k \in inflight /\ k.what = "resume"
  /\ agents = {} /\ ~awake
  /\ agents' = {k.of}
  /\ IF k.aborted
     THEN \* nobody waits any more: the late agent is disposed of
          /\ inflight' = (inflight \ {k}) \cup {Call("lateDispose", k.of)}
          /\ UNCHANGED stage
     ELSE \/ /\ stage' = "compact"
             /\ inflight' = (inflight \ {k}) \cup {Call("compact", k.of)}
          \/ stage' = "skip" /\ inflight' = inflight \ {k}
  /\ UNCHANGED <<attempt, retryable, awake, spoilt, reading, handles>>

ResumeRefused(k) ==
  /\ k \in inflight /\ k.what = "resume" /\ inflight' = inflight \ {k}
  /\ IF k.aborted THEN UNCHANGED <<stage, retryable>> ELSE stage' = "failed" /\ retryable' = FALSE
  /\ UNCHANGED <<attempt, awake, agents, spoilt, reading, handles>>

ResumeTimesOut ==
  /\ stage = "resume" /\ Waits("resume")
  /\ stage' = "failed" /\ retryable' = FALSE /\ inflight' = Abandoned("resume")
  /\ UNCHANGED <<attempt, awake, agents, spoilt, reading, handles>>

NotTornDown(ok) == IF ok THEN "ok" ELSE "failed"
\* After compactNow, a materialization is torn down whatever the outcome.
AfterCompact(ok) ==
  IF agents # {} THEN (IF ok THEN "disposeOk" ELSE "disposeFailed")
  ELSE IF ok THEN "ok" ELSE "failed"

\* compactNow answers, fails, or times out; or there was nothing to compact.
CompactEnds(ok) ==
  /\ \/ stage = "compact" /\ Waits("compact")
        /\ \/ inflight' = {k \in inflight : k.what # "compact" \/ k.aborted}
           \/ ~ok /\ inflight' = Abandoned("compact")
     \/ stage = "skip" /\ ok /\ UNCHANGED inflight
  /\ stage' = AfterCompact(ok) /\ retryable' = ~ok
  /\ UNCHANGED <<attempt, awake, agents, spoilt, reading, handles>>

LateCompact(k) ==
  /\ k \in inflight /\ k.what = "compact" /\ k.aborted
  /\ inflight' = inflight \ {k}
  /\ UNCHANGED <<attempt, stage, retryable, awake, agents, spoilt, reading, handles>>

Disposing == stage \in {"disposeOk", "disposeFailed"}
\* dispose answers or throws, in time or late.
DisposeStarts ==
  /\ Disposing /\ ~\E k \in inflight : k.what = "dispose"
  /\ inflight' = inflight \cup {Call("dispose", attempt)}
  /\ UNCHANGED <<attempt, stage, retryable, awake, agents, spoilt, reading, handles>>

Disposed(k) ==
  /\ k \in inflight /\ k.what \in {"dispose", "lateDispose"}
  /\ inflight' = inflight \ {k}
  /\ agents' = agents \ {k.of}
  /\ stage' = IF k.what = "dispose" /\ ~k.aborted
              THEN (IF stage = "disposeOk" THEN "ok" ELSE "failed") ELSE stage
  /\ UNCHANGED <<attempt, retryable, awake, spoilt, reading, handles>>

DisposeThrows(k) ==
  /\ k \in inflight /\ k.what \in {"dispose", "lateDispose"}
  /\ inflight' = inflight \ {k}
  /\ spoilt' = spoilt \cup {k.of}
  /\ IF k.what = "dispose" /\ ~k.aborted
     THEN stage' = "failed" /\ retryable' = FALSE ELSE UNCHANGED <<stage, retryable>>
  /\ UNCHANGED <<attempt, awake, agents, reading, handles>>

RetryAnyFailure == retryable
\* A teardown that did not succeed is not retried.
TeardownFailed == FALSE

DisposeTimesOut ==
  /\ Disposing /\ Waits("dispose")
  /\ inflight' = Abandoned("dispose")
  /\ stage' = "failed" /\ retryable' = TeardownFailed
  /\ UNCHANGED <<attempt, awake, agents, spoilt, reading, handles>>

\* Something else wakes the session, or it goes to sleep again.
Wakes ==
  /\ stage \in {"start", "failed"} /\ (stage = "failed" => TryAgain) /\ agents = {}
  /\ awake' = ~awake
  /\ UNCHANGED <<attempt, stage, retryable, agents, inflight, spoilt, reading, handles>>

-----------------------------------------------------------------------------
(* inspectPersistedSession, and sessionAvailability that asks it.          *)

Opens ==
  /\ reading = "start" /\ reading' = "open"
  /\ inflight' = inflight \cup {Call("open", 0)}
  /\ UNCHANGED <<attempt, stage, retryable, awake, agents, spoilt, handles>>

\* The handle of an open that answers after the timeout is closed at once.
LateIsClosed == handles.closed + 1

Opened(k) ==
  /\ k \in inflight /\ k.what = "open"
  /\ IF k.aborted
     THEN /\ handles' = [open |-> handles.open + 1, closed |-> LateIsClosed]
          /\ inflight' = inflight \ {k} /\ UNCHANGED reading
     ELSE /\ handles' = [handles EXCEPT !.open = @ + 1]
          /\ inflight' = (inflight \ {k}) \cup {Call("read", 0)} /\ reading' = "read"
  /\ UNCHANGED <<attempt, stage, retryable, awake, agents, spoilt>>

OpenRefused(k) ==
  /\ k \in inflight /\ k.what = "open" /\ inflight' = inflight \ {k}
  /\ reading' = IF k.aborted THEN reading ELSE "over"
  /\ UNCHANGED <<attempt, stage, retryable, awake, agents, spoilt, handles>>

OpenTimesOut ==
  /\ reading = "open" /\ Waits("open")
  /\ inflight' = Abandoned("open") /\ reading' = "over"
  /\ UNCHANGED <<attempt, stage, retryable, awake, agents, spoilt, handles>>

\* The read answers, fails or times out, and the finally closes the handle.
ReadEnds ==
  /\ reading = "read" /\ reading' = "over"
  /\ handles' = [handles EXCEPT !.closed = @ + 1]
  /\ inflight' = {k \in inflight : k.what # "read"}
  /\ UNCHANGED <<attempt, stage, retryable, awake, agents, spoilt>>

CallsNext ==
  \/ BeginsAttempt \/ ResumeTimesOut \/ DisposeStarts \/ DisposeTimesOut \/ Wakes
  \/ \E ok \in BOOLEAN : CompactEnds(ok)
  \/ \E k \in inflight :
       \/ Resumed(k) \/ ResumeRefused(k) \/ LateCompact(k) \/ Disposed(k) \/ DisposeThrows(k)
       \/ Opened(k) \/ OpenRefused(k)
  \/ Opens \/ OpenTimesOut \/ ReadEnds

-----------------------------------------------------------------------------
(* Properties.                                                             *)

\* When a session is ready to be sent to, nothing that compaction materialized
\* is resident or may still become so: it would collide with the resume that
\* delivers the message.  The same holds when an attempt is made again.
NothingLeftBehind ==
  stage = "ok" \/ (stage = "failed" /\ TryAgain)
    => agents = {} /\ ~\E k \in inflight : k.what \in {"resume", "dispose", "lateDispose"}

\* A materialization that outlives its attempt is being disposed of, or its
\* dispose has failed, and the Run was blocked.
LateAgentsAreReleased ==
  \A a \in agents :
    \/ stage \in {"compact", "skip"} \/ Disposing
    \/ stage = "failed" /\ ~TryAgain
       /\ (a \in spoilt \/ \E k \in inflight : k.what \in {"dispose", "lateDispose"} /\ k.of = a)
=============================================================================
