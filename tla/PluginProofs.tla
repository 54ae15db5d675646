---------------------------- MODULE PluginProofs ----------------------------
(***************************************************************************)
(* Theorems about the parts of Plugin, for any number of scopes, attempts, *)
(* sessions and turns.  The parts share no state: each has an inductive    *)
(* invariant of its own, which the steps of the others leave alone.        *)
(***************************************************************************)
EXTENDS Plugin, TLAPS, WellFoundedInduction

-----------------------------------------------------------------------------
(* PresetBook: what a call that is at work holds of its scope.             *)

BookCalls ==
  [no : Nat, what : {"ensure"}, scope : Scopes, pc : {"register", "book"}]
    \cup [no : Nat, what : {"release"}, scope : Scopes, pc : {"unregister"}]

BookTypeOK ==
  /\ registered \subseteq Scopes /\ book \subseteq Scopes /\ leftover \subseteq Scopes
  /\ calls \subseteq BookCalls /\ returned \in Nat
  /\ phase \in {"open", "closing", "closed"} /\ toRelease \subseteq Scopes
  /\ overlapped \in BOOLEAN

\* From the registration to the entry, and from its removal to the answer of
\* the unregister, one call alone has the scope.
Holds(c) == c.pc \in {"book", "unregister"}
HeldOnce ==
  /\ \A c \in calls : Holds(c) => c.scope \in registered /\ c.scope \notin book
  /\ \A c, d \in calls : Holds(c) /\ Holds(d) /\ c.scope = d.scope => c = d

\* Whatever is registered is in the book, held by a call, or left over.
Accounted ==
  \A s \in registered : s \in book \cup leftover \/ \E c \in calls : Holds(c) /\ c.scope = s

\* A closing that nothing overlaps has all scopes of the book on its list.
ClosesAll ==
  /\ phase = "open" => ~overlapped
  /\ phase # "open" /\ ~overlapped => Ensuring = {} /\ book \subseteq toRelease
  /\ phase = "closed" => toRelease = {}

BookInv ==
  BookTypeOK /\ HeldOnce /\ (book \subseteq registered) /\ ClosesAll /\ (~overlapped => Accounted)

LEMMA InitBookInv ==
  ASSUME BookInit
  PROVE  BookInv
BY DEF BookInit, BookInv, BookTypeOK, HeldOnce, ClosesAll, Accounted, Ensuring

\* A scope leaves the book, and the call that takes it out holds it.
LEMMA UnbookedInv ==
  ASSUME BookInv, NEW s \in book, NEW n \in Nat, phase' = phase, overlapped' = overlapped,
         book' = Unbooked(s), calls' = calls \cup {Release(n, s)},
         UNCHANGED <<registered, returned, leftover>>,
         toRelease' = toRelease \/ toRelease' = toRelease \ {s}
  PROVE  BookInv'
<1> DEFINE r == Release(n, s)
<1>1. /\ r \in BookCalls /\ Holds(r) /\ r.scope = s /\ r.what = "release"
      /\ s \in registered /\ s \in Scopes
  BY DEF BookInv, BookTypeOK, BookCalls, Release, Holds
<1>2. calls' = calls \cup {r} /\ book' = book \ {s}
  BY DEF Unbooked
<1> HIDE DEF r
<1>3. BookTypeOK'
  BY <1>1, <1>2 DEF BookInv, BookTypeOK
<1>4. HeldOnce'
  BY <1>1, <1>2 DEF BookInv, HeldOnce, Holds
<1>5. ClosesAll'
  BY <1>1, <1>2 DEF BookInv, ClosesAll, Ensuring
<1>6. ~overlapped' => Accounted'
  BY <1>1, <1>2 DEF BookInv, Accounted, Holds
<1> QED
  BY <1>2, <1>3, <1>4, <1>5, <1>6 DEF BookInv

LEMMA EnsuresInv ==
  ASSUME BookInv, NEW s \in Scopes, Ensures(s)
  PROVE  BookInv'
<1> DEFINE r == [no |-> returned + 1, what |-> "ensure", scope |-> s, pc |-> "register"]
<1>1. r \in BookCalls /\ ~Holds(r) /\ r.what = "ensure" /\ returned + 1 \in Nat
  BY DEF BookInv, BookTypeOK, BookCalls, Holds
<1>2. /\ returned' = returned + 1 /\ calls' = IF s \in book THEN calls ELSE calls \cup {r}
      /\ overlapped' = (overlapped \/ (s \notin book /\ phase # "open"))
      /\ UNCHANGED <<registered, book, phase, toRelease, leftover>>
  BY DEF Ensures
<1> HIDE DEF r
<1>3. BookTypeOK'
  BY <1>1, <1>2 DEF BookInv, BookTypeOK
<1>4. HeldOnce' /\ (~overlapped' => Accounted')
  BY <1>1, <1>2 DEF BookInv, HeldOnce, Accounted, Holds
<1>5. ClosesAll'
  BY <1>1, <1>2 DEF BookInv, ClosesAll, Ensuring
<1> QED
  BY <1>2, <1>3, <1>4, <1>5 DEF BookInv

LEMMA RegistersInv ==
  ASSUME BookInv, NEW c \in calls, Registers(c)
  PROVE  BookInv'
<1>1. /\ c \in BookCalls /\ c.what = "ensure" /\ ~Holds(c) /\ c.scope \in Scopes
      /\ Ensuring # {}
  BY DEF BookInv, BookTypeOK, BookCalls, Holds, Registers, Ensuring
<1>2. UNCHANGED <<book, returned, phase, toRelease, overlapped, leftover>>
  BY DEF Registers
<1>3. CASE calls' = calls \ {c} /\ UNCHANGED registered
  BY <1>1, <1>2, <1>3
  DEF BookInv, BookTypeOK, HeldOnce, ClosesAll, Accounted, Ensuring, Holds
<1>4. CASE /\ c.scope \notin registered /\ registered' = registered \cup {c.scope}
           /\ calls' = (calls \ {c}) \cup {[c EXCEPT !.pc = "book"]}
  <2>1. PICK d : d = [c EXCEPT !.pc = "book"]
    OBVIOUS
  <2>2. d \in BookCalls /\ d.what = "ensure" /\ Holds(d) /\ d.scope = c.scope
    BY <1>1, <2>1 DEF BookCalls, Holds
  <2>3. calls' = (calls \ {c}) \cup {d}
    BY <1>4, <2>1
  <2>4. BookTypeOK' /\ ClosesAll'
    BY <1>1, <1>2, <1>4, <2>2, <2>3 DEF BookInv, BookTypeOK, ClosesAll, Ensuring
  <2>5. HeldOnce'
    BY <1>1, <1>2, <1>4, <2>2, <2>3 DEF BookInv, HeldOnce, Holds
  <2>6. ~overlapped' => Accounted'
    BY <1>1, <1>2, <1>4, <2>2, <2>3 DEF BookInv, Accounted, Holds
  <2> QED
    BY <1>2, <1>4, <2>4, <2>5, <2>6 DEF BookInv
<1> QED
  BY <1>3, <1>4 DEF Registers

LEMMA AnsweredInv ==
  ASSUME BookInv, NEW c \in calls, Books(c) \/ Unregisters(c)
  PROVE  BookInv'
<1>1. /\ c \in BookCalls /\ Holds(c) /\ c.scope \in registered /\ c.scope \notin book
      /\ c.scope \in Scopes /\ calls' = calls \ {c}
      /\ UNCHANGED <<returned, phase, toRelease, overlapped>>
      /\ \A d \in calls' : Holds(d) => d.scope # c.scope
  BY DEF BookInv, BookTypeOK, BookCalls, HeldOnce, Holds, Books, Unregisters
<1>2. CASE Books(c)
  <2>1. book' = book \cup {c.scope} /\ UNCHANGED <<registered, leftover>> /\ Ensuring # {}
    BY <1>2 DEF Books, Ensuring
  <2> QED
    BY <1>1, <2>1 DEF BookInv, BookTypeOK, HeldOnce, ClosesAll, Accounted, Ensuring, Holds
<1>3. CASE Unregisters(c)
  <2>1. /\ UNCHANGED book
        /\ \/ registered' = registered \ {c.scope} /\ UNCHANGED leftover
           \/ leftover' = leftover \cup {c.scope} /\ UNCHANGED registered
    BY <1>3 DEF Unregisters
  <2>2. BookTypeOK' /\ ClosesAll' /\ book' \subseteq registered'
    BY <1>1, <2>1 DEF BookInv, BookTypeOK, ClosesAll, Ensuring
  <2>3. HeldOnce'
    BY <1>1, <2>1 DEF BookInv, HeldOnce, Holds
  <2>4. ~overlapped' => Accounted'
    BY <1>1, <2>1 DEF BookInv, Accounted, Holds
  <2> QED
    BY <2>2, <2>3, <2>4 DEF BookInv
<1> QED
  BY <1>2, <1>3

LEMMA ClosingInv ==
  ASSUME BookInv, Closes \/ ReleasesNext \/ CloseEnds
  PROVE  BookInv'
<1>1. CASE Closes
  BY <1>1 DEF BookInv, BookTypeOK, HeldOnce, ClosesAll, Accounted, Ensuring, Holds, Closes,
              ToRelease
<1>2. CASE ReleasesNext
  <2>1. PICK s \in toRelease :
          /\ toRelease' = toRelease \ {s} /\ book' = Unbooked(s)
          /\ calls' = IF s \in book THEN calls \cup {Release(0, s)} ELSE calls
          /\ phase = "closing"
          /\ UNCHANGED <<registered, returned, phase, overlapped, leftover>>
    BY <1>2 DEF ReleasesNext
  <2>2. CASE s \in book
    BY <2>1, <2>2, UnbookedInv
  <2>3. CASE s \notin book
    BY <2>1, <2>3 DEF BookInv, BookTypeOK, HeldOnce, ClosesAll, Accounted, Ensuring, Holds,
                      Unbooked
  <2> QED
    BY <2>2, <2>3
<1>3. CASE CloseEnds
  BY <1>3 DEF BookInv, BookTypeOK, HeldOnce, ClosesAll, Accounted, Ensuring, Holds, CloseEnds
<1> QED
  BY <1>1, <1>2, <1>3

LEMMA BookStep ==
  ASSUME BookInv, BookNext \/ UNCHANGED bookVars
  PROVE  BookInv'
<1>1. CASE \E s \in Scopes : Ensures(s)
  BY <1>1, EnsuresInv
<1>2. CASE \E s \in Scopes : Drains(s)
  <2>1. PICK s \in book, n \in 1..MaxEnsures :
          /\ book' = Unbooked(s) /\ calls' = calls \cup {Release(n, s)}
          /\ UNCHANGED <<registered, returned, phase, toRelease, overlapped, leftover>>
    BY <1>2 DEF Drains, Releases
  <2> QED
    BY <2>1, UnbookedInv
<1>3. CASE \E c \in calls : Registers(c) \/ Books(c) \/ Unregisters(c)
  BY <1>3, RegistersInv, AnsweredInv
<1>4. CASE Closes \/ ReleasesNext \/ CloseEnds
  BY <1>4, ClosingInv
<1>5. CASE UNCHANGED bookVars
  BY <1>5 DEF BookInv, BookTypeOK, HeldOnce, ClosesAll, Accounted, Ensuring, Holds, bookVars
<1> QED
  BY <1>1, <1>2, <1>3, <1>4, <1>5 DEF BookNext

THEOREM BookHolds == Spec => []BookInv
<1>1. Init => BookInv
  BY InitBookInv DEF Init
<1>2. BookInv /\ [Next]_pluginVars => BookInv'
  BY BookStep DEF Next, pluginVars
<1> QED
  BY <1>1, <1>2, PTL DEF Spec

\* Whoever finds a scope in the book can mount its preset, however the calls
\* of ensure and release for it overlap.
THEOREM BookIsTrue == Spec => []BookedIsMountable
<1>1. BookInv => BookedIsMountable
  BY DEF BookInv, BookedIsMountable
<1> QED
  BY <1>1, BookHolds, PTL

\* A Run that is closed leaves no preset registered but those whose unregister
\* failed, if no ensure overlapped the closing.
THEOREM ClosedRunsLeaveNothing == Spec => []NothingStaysRegistered
<1>1. BookInv => NothingStaysRegistered
  BY DEF BookInv, NothingStaysRegistered, Accounted, ClosesAll
<1> QED
  BY <1>1, BookHolds, PTL

-----------------------------------------------------------------------------
(* HostCalls: what is resident, and what is on its way, at each stage.     *)

InFlight ==
  [what : {"resume", "compact", "dispose", "lateDispose", "open", "read"}, of : Nat,
   aborted : BOOLEAN]

CallsTypeOK ==
  /\ attempt \in Nat /\ retryable \in BOOLEAN /\ inflight \subseteq InFlight
  /\ stage \in {"start", "resume", "compact", "skip", "disposeOk", "disposeFailed", "ok", "failed"}

Touches == {"resume", "dispose", "lateDispose"}
Quiet   == \A k \in inflight : k.what \notin Touches

\* Calls of one kind alone are in flight, for the attempt that waits for them.
Only(what) ==
  \A k \in inflight : k.what \in Touches => k.what = what /\ k.of = attempt /\ ~k.aborted

\* An agent of an attempt that was given up is on its way out, or will not go.
OnTheWayOut ==
  \A a \in agents :
    a \in spoilt \/ \E k \in inflight : k.what \in {"dispose", "lateDispose"} /\ k.of = a

CallsInv ==
  /\ CallsTypeOK
  /\ stage \in {"start", "ok"} \/ (stage = "failed" /\ retryable) => agents = {} /\ Quiet
  /\ stage = "resume" => agents = {} /\ Only("resume")
  /\ stage = "compact" => agents \subseteq {attempt} /\ Quiet
  /\ stage = "skip" => agents = {attempt} /\ Quiet
  /\ Disposing => agents = {attempt} /\ Only("dispose")
  /\ stage = "failed" /\ ~retryable =>
       /\ OnTheWayOut
       /\ \A k \in inflight : k.what \in {"resume", "dispose"} => k.aborted

LEMMA CallFieldsOf ==
  ASSUME NEW k \in InFlight
  PROVE  k.what \in {"resume", "compact", "dispose", "lateDispose", "open", "read"}
         /\ k.of \in Nat /\ k.aborted \in BOOLEAN
BY DEF InFlight

LEMMA NewCall ==
  ASSUME NEW what \in {"resume", "compact", "dispose", "lateDispose", "open", "read"}, NEW of \in Nat
  PROVE  /\ Call(what, of) \in InFlight /\ Call(what, of).what = what
         /\ Call(what, of).of = of /\ Call(what, of).aborted = FALSE
BY DEF Call, InFlight

\* What is in flight once the calls of one kind have been given up.
LEMMA AbandonedCalls ==
  ASSUME inflight \subseteq InFlight, NEW what
  PROVE  /\ Abandoned(what) \subseteq InFlight
         /\ \A k \in Abandoned(what) : \E j \in inflight :
              k.what = j.what /\ k.of = j.of /\ (k.what = what => k.aborted)
              /\ (k.what # what => k = j)
         /\ \A j \in inflight : \E k \in Abandoned(what) : k.what = j.what /\ k.of = j.of
<1>1. ASSUME NEW j \in inflight
      PROVE  /\ [j EXCEPT !.aborted = TRUE] \in InFlight
             /\ [j EXCEPT !.aborted = TRUE].what = j.what
             /\ [j EXCEPT !.aborted = TRUE].of = j.of
             /\ [j EXCEPT !.aborted = TRUE].aborted = TRUE
  BY DEF InFlight
<1> QED
  BY <1>1 DEF Abandoned

LEMMA BeginsInv ==
  ASSUME CallsInv, AttemptsAssumption, BeginsAttempt
  PROVE  CallsInv'
<1>1. agents = {} /\ Quiet /\ agents' = {} /\ attempt' = attempt + 1 /\ attempt' \in Nat
  BY DEF CallsInv, CallsTypeOK, BeginsAttempt, TryAgain
<1>2. CASE stage' = "ok" /\ UNCHANGED inflight
  BY <1>1, <1>2 DEF CallsInv, CallsTypeOK, BeginsAttempt, Quiet, Disposing
<1>3. CASE stage' = "compact" /\ inflight' = inflight \cup {Call("compact", 0)}
  <2>1. Call("compact", 0).what = "compact" /\ Call("compact", 0) \in InFlight
    BY NewCall
  <2>2. Quiet' /\ inflight' \subseteq InFlight
    BY <1>1, <1>3, <2>1 DEF Quiet, Touches, CallsInv, CallsTypeOK
  <2>3. retryable' = FALSE
    BY DEF BeginsAttempt
  <2> QED
    BY <1>1, <1>3, <2>2, <2>3 DEF CallsInv, CallsTypeOK, Disposing
<1>4. CASE stage' = "resume" /\ inflight' = inflight \cup {Call("resume", attempt')}
  <2>1. Call("resume", attempt').what = "resume" /\ Call("resume", attempt').of = attempt'
        /\ ~Call("resume", attempt').aborted /\ Call("resume", attempt') \in InFlight
    BY <1>1, NewCall
  <2>2. Only("resume")'
    BY <1>1, <1>4, <2>1 DEF Only, Quiet
  <2> QED
    BY <1>1, <1>4, <2>1, <2>2 DEF CallsInv, CallsTypeOK, BeginsAttempt, Disposing
<1> QED
  BY <1>2, <1>3, <1>4 DEF BeginsAttempt

LEMMA ResumedInv ==
  ASSUME CallsInv, NEW k \in inflight, Resumed(k)
  PROVE  CallsInv'
<1>1. /\ k \in InFlight /\ k.what = "resume" /\ agents' = {k.of} /\ k.of \in Nat
      /\ UNCHANGED <<attempt, retryable, awake, spoilt>> /\ agents = {} /\ attempt \in Nat
  BY CallFieldsOf DEF CallsInv, CallsTypeOK, Resumed
<1>2. CASE k.aborted
  <2> DEFINE d == Call("lateDispose", k.of)
  <2>1. d \in InFlight /\ d.what = "lateDispose" /\ d.of = k.of
    BY <1>1, NewCall
  <2>2. stage' = stage /\ inflight' = (inflight \ {k}) \cup {d}
    BY <1>2 DEF Resumed
  <2> HIDE DEF d
  <2>3. stage = "failed" /\ ~retryable
    BY <1>1, <1>2 DEF CallsInv, CallsTypeOK, Quiet, Touches, Only, Disposing
  <2> QED
    BY <1>1, <2>1, <2>2, <2>3 DEF CallsInv, CallsTypeOK, OnTheWayOut, Disposing
<1>3. CASE ~k.aborted
  <2>1. stage = "resume" /\ k.of = attempt
    BY <1>1, <1>3 DEF CallsInv, CallsTypeOK, Quiet, Touches, Only, Disposing
  <2>2. \A j \in inflight \ {k} : j.what \notin Touches
    <3>1. \A j \in inflight : j.what \in Touches => j = k
      BY <1>1, <1>3, <2>1 DEF CallsInv, CallsTypeOK, Only, InFlight
    <3> QED
      BY <3>1
  <2>3. CASE stage' = "compact" /\ inflight' = (inflight \ {k}) \cup {Call("compact", k.of)}
    <3>1. Call("compact", k.of).what = "compact" /\ Call("compact", k.of) \in InFlight
      BY <1>1, NewCall
    <3>2. inflight \subseteq InFlight /\ retryable \in BOOLEAN
      BY DEF CallsInv, CallsTypeOK
    <3>3. Quiet' /\ inflight' \subseteq InFlight
      BY <2>2, <2>3, <3>1, <3>2 DEF Quiet, Touches
    <3> QED
      BY <1>1, <2>1, <2>3, <3>2, <3>3 DEF CallsInv, CallsTypeOK, Disposing
  <2>4. CASE stage' = "skip" /\ inflight' = inflight \ {k}
    BY <1>1, <2>1, <2>2, <2>4 DEF CallsInv, CallsTypeOK, Quiet, Touches, Disposing
  <2> QED
    BY <1>3, <2>3, <2>4 DEF Resumed
<1> QED
  BY <1>2, <1>3

\* A call that has no agent to give ends, or its attempt gives it up.
LEMMA EndedCallInv ==
  ASSUME CallsInv, \/ \E k \in inflight : ResumeRefused(k) \/ LateCompact(k)
                   \/ ResumeTimesOut
  PROVE  CallsInv'
<1>1. CASE \E k \in inflight : LateCompact(k)
  BY <1>1 DEF LateCompact, CallsInv, CallsTypeOK, Quiet, Only, OnTheWayOut, Disposing, Touches
<1>2. CASE ResumeTimesOut
  <2>1. /\ agents' = {} /\ stage' = "failed" /\ retryable' = FALSE
        /\ inflight' = Abandoned("resume") /\ attempt' = attempt /\ Only("resume")
        /\ inflight \subseteq InFlight /\ attempt \in Nat
    BY <1>2 DEF ResumeTimesOut, CallsInv, CallsTypeOK
  <2>2. inflight' \subseteq InFlight /\ \A k \in inflight' : k.what \in {"resume", "dispose"} => k.aborted
    BY <2>1, AbandonedCalls DEF Only, Touches
  <2> QED
    BY <2>1, <2>2 DEF CallsInv, CallsTypeOK, OnTheWayOut, Disposing
<1>3. ASSUME NEW k \in inflight, ResumeRefused(k)
      PROVE  CallsInv'
  <2>1. /\ k \in InFlight /\ k.what = "resume" /\ inflight' = inflight \ {k}
        /\ UNCHANGED <<attempt, agents, spoilt>>
    BY <1>3 DEF ResumeRefused, CallsInv, CallsTypeOK
  <2>2. CASE k.aborted
    <3>1. UNCHANGED <<stage, retryable>>
      BY <1>3, <2>2 DEF ResumeRefused
    <3> QED
      BY <2>1, <3>1 DEF CallsInv, CallsTypeOK, Quiet, Only, OnTheWayOut, Disposing, Touches
  <2>3. CASE ~k.aborted
    <3>1. stage = "resume" /\ stage' = "failed" /\ retryable' = FALSE
      BY <1>3, <2>1, <2>3
      DEF ResumeRefused, CallsInv, CallsTypeOK, Quiet, Touches, Only, Disposing
    <3>2. \A j \in inflight' : j.what \notin Touches
      BY <2>1, <2>3, <3>1 DEF CallsInv, CallsTypeOK, Only, InFlight
    <3> QED
      BY <2>1, <3>1, <3>2 DEF CallsInv, CallsTypeOK, OnTheWayOut, Disposing, Touches
  <2> QED
    BY <2>2, <2>3
<1> QED
  BY <1>1, <1>2, <1>3

LEMMA CompactEndsInv ==
  ASSUME CallsInv, NEW ok \in BOOLEAN, CompactEnds(ok)
  PROVE  CallsInv'
<1>1. /\ stage \in {"compact", "skip"} /\ Quiet /\ agents \subseteq {attempt} /\ attempt \in Nat
      /\ inflight \subseteq InFlight /\ UNCHANGED <<attempt, agents, spoilt>>
      /\ stage' = AfterCompact(ok) /\ retryable' = ~ok
  BY DEF CallsInv, CallsTypeOK, CompactEnds
<1>2. Quiet' /\ inflight' \subseteq InFlight
  <2>1. inflight' \subseteq inflight \/ inflight' = Abandoned("compact")
    BY DEF CompactEnds
  <2> QED
    BY <1>1, <2>1, AbandonedCalls DEF Quiet
<1>3. /\ agents = {} => stage' = IF ok THEN "ok" ELSE "failed"
      /\ agents # {} => stage' = IF ok THEN "disposeOk" ELSE "disposeFailed"
  BY <1>1 DEF AfterCompact
<1> QED
  BY <1>1, <1>2, <1>3 DEF CallsInv, CallsTypeOK, Quiet, Only, Disposing

LEMMA DisposeInv ==
  ASSUME CallsInv, DisposeStarts \/ DisposeTimesOut
  PROVE  CallsInv'
<1>1. /\ Disposing /\ agents = {attempt} /\ Only("dispose") /\ attempt \in Nat
      /\ inflight \subseteq InFlight /\ UNCHANGED <<attempt, agents, spoilt>>
  BY DEF CallsInv, CallsTypeOK, DisposeStarts, DisposeTimesOut
<1>2. CASE DisposeStarts
  <2>1. Call("dispose", attempt).what = "dispose" /\ Call("dispose", attempt).of = attempt
        /\ ~Call("dispose", attempt).aborted /\ Call("dispose", attempt) \in InFlight
    BY <1>1, NewCall
  <2>2. inflight' = inflight \cup {Call("dispose", attempt)} /\ UNCHANGED <<stage, retryable>>
    BY <1>2 DEF DisposeStarts
  <2>3. Only("dispose")' /\ inflight' \subseteq InFlight
    BY <1>1, <2>1, <2>2 DEF Only
  <2>4. retryable \in BOOLEAN
    BY DEF CallsInv, CallsTypeOK
  <2> QED
    BY <1>1, <2>2, <2>3, <2>4 DEF CallsInv, CallsTypeOK, Disposing
<1>3. CASE DisposeTimesOut
  <2>1. inflight' = Abandoned("dispose") /\ stage' = "failed" /\ retryable' = FALSE
    BY <1>3 DEF DisposeTimesOut, TeardownFailed
  <2>2. \A k \in inflight' : k.what \in {"resume", "dispose"} => k.aborted
    BY <1>1, <2>1, AbandonedCalls DEF Only, Touches
  <2>3. \E k \in inflight' : k.what = "dispose" /\ k.of = attempt
    <3>1. PICK j \in inflight : j.what = "dispose" /\ ~j.aborted
      BY <1>3 DEF DisposeTimesOut, Waits
    <3>2. j.of = attempt
      BY <1>1, <3>1 DEF Only, Touches
    <3> QED
      BY <1>1, <2>1, <3>1, <3>2, AbandonedCalls
  <2>4. OnTheWayOut' /\ inflight' \subseteq InFlight
    BY <1>1, <2>1, <2>3, AbandonedCalls DEF OnTheWayOut
  <2> QED
    BY <1>1, <2>1, <2>2, <2>4 DEF CallsInv, CallsTypeOK, Disposing
<1> QED
  BY <1>2, <1>3

LEMMA DisposedInv ==
  ASSUME CallsInv, NEW k \in inflight, Disposed(k) \/ DisposeThrows(k)
  PROVE  CallsInv'
<1>1. /\ k \in InFlight /\ k.what \in {"dispose", "lateDispose"} /\ k.what \in Touches
      /\ inflight' = inflight \ {k} /\ attempt' = attempt /\ k.of \in Nat /\ attempt \in Nat
      /\ inflight' \subseteq InFlight
      /\ \/ agents' = agents \ {k.of} /\ spoilt' = spoilt
         \/ agents' = agents /\ spoilt' = spoilt \cup {k.of}
  BY CallFieldsOf DEF CallsInv, CallsTypeOK, Disposed, DisposeThrows, Touches
<1>2. CASE k.what = "dispose" /\ ~k.aborted
  <2>1. Disposing /\ agents = {attempt} /\ Only("dispose") /\ k.of = attempt
    BY <1>1, <1>2 DEF CallsInv, CallsTypeOK, Quiet, Only, Disposing, Touches
  <2>2. \A j \in inflight' : j.what \notin Touches
    <3>1. \A j \in inflight : j.what \in Touches => j = k
      BY <1>1, <1>2, <2>1 DEF CallsInv, CallsTypeOK, Only, InFlight
    <3> QED
      BY <1>1, <3>1
  <2>3. CASE Disposed(k)
    <3>1. agents' = {} /\ stage' \in {"ok", "failed"} /\ retryable' = retryable
      BY <1>2, <2>1, <2>3 DEF Disposed
    <3> QED
      BY <1>1, <2>2, <3>1 DEF CallsInv, CallsTypeOK, Quiet, OnTheWayOut, Disposing, Touches
  <2>4. CASE DisposeThrows(k)
    <3>1. agents' = {attempt} /\ attempt \in spoilt' /\ stage' = "failed" /\ retryable' = FALSE
      BY <1>2, <2>1, <2>4 DEF DisposeThrows
    <3> QED
      BY <1>1, <2>2, <3>1 DEF CallsInv, CallsTypeOK, OnTheWayOut, Disposing, Touches
  <2> QED
    BY <2>3, <2>4
<1>3. CASE ~(k.what = "dispose" /\ ~k.aborted)
  <2>1. UNCHANGED <<stage, retryable>>
    BY <1>3 DEF Disposed, DisposeThrows
  <2>2. stage = "failed" /\ ~retryable
    BY <1>1, <1>3 DEF CallsInv, CallsTypeOK, Quiet, Only, Disposing
  <2>3. OnTheWayOut'
    BY <1>1, <2>2 DEF CallsInv, OnTheWayOut
  <2> QED
    BY <1>1, <2>1, <2>2, <2>3 DEF CallsInv, CallsTypeOK, Disposing
<1> QED
  BY <1>2, <1>3

\* The reading of a persisted session touches none of it.
LEMMA ReadingInv ==
  ASSUME CallsInv, UNCHANGED <<attempt, stage, retryable, agents, spoilt>>,
         inflight' \subseteq InFlight,
         \A k \in inflight : k.what \in Touches => k \in inflight',
         \A k \in inflight' : k.what \in Touches => k \in inflight
  PROVE  CallsInv'
BY DEF CallsInv, CallsTypeOK, Quiet, Only, OnTheWayOut, Disposing, Touches

LEMMA ReadsInv ==
  ASSUME CallsInv, \/ Opens \/ OpenTimesOut \/ ReadEnds
                   \/ \E k \in inflight : Opened(k) \/ OpenRefused(k)
  PROVE  CallsInv'
<1>1. /\ UNCHANGED <<attempt, stage, retryable, agents, spoilt>> /\ inflight \subseteq InFlight
  BY DEF CallsInv, CallsTypeOK, Opens, OpenTimesOut, ReadEnds, Opened, OpenRefused
<1>2. /\ Call("open", 0) \in InFlight /\ Call("open", 0).what \notin Touches
      /\ Call("read", 0) \in InFlight /\ Call("read", 0).what \notin Touches
  BY NewCall DEF Touches
<1>3. CASE Opens \/ ReadEnds \/ \E k \in inflight : Opened(k) \/ OpenRefused(k)
  <2>1. /\ inflight' \subseteq InFlight
        /\ \A k \in inflight : k.what \in Touches => k \in inflight'
        /\ \A k \in inflight' : k.what \in Touches => k \in inflight
    BY <1>1, <1>2, <1>3 DEF Opens, ReadEnds, Opened, OpenRefused, Touches
  <2> QED
    BY <1>1, <2>1, ReadingInv
<1>4. CASE OpenTimesOut
  <2>1. inflight' = Abandoned("open")
    BY <1>4 DEF OpenTimesOut
  <2>2. /\ inflight' \subseteq InFlight
        /\ \A k \in inflight' : k.what \in Touches => k \in inflight
    BY <1>1, <2>1, AbandonedCalls DEF Touches
  <2>3. \A k \in inflight : k.what \in Touches => k \in inflight'
    BY <2>1 DEF Abandoned, Touches
  <2> QED
    BY <1>1, <2>2, <2>3, ReadingInv
<1> QED
  BY <1>3, <1>4

LEMMA CallsStep ==
  ASSUME CallsInv, CallsNext \/ UNCHANGED callVars
  PROVE  CallsInv'
<1>1. CASE BeginsAttempt \/ \E k \in inflight : Resumed(k)
  BY <1>1, BeginsInv, ResumedInv, AttemptsAssumption
<1>2. CASE ResumeTimesOut \/ \E k \in inflight : ResumeRefused(k) \/ LateCompact(k)
  BY <1>2, EndedCallInv
<1>3. CASE \E ok \in BOOLEAN : CompactEnds(ok)
  BY <1>3, CompactEndsInv
<1>4. CASE DisposeStarts \/ DisposeTimesOut \/ \E k \in inflight : Disposed(k) \/ DisposeThrows(k)
  BY <1>4, DisposeInv, DisposedInv
<1>5. CASE Wakes
  BY <1>5 DEF Wakes, CallsInv, CallsTypeOK, Quiet, Only, OnTheWayOut, Disposing
<1>6. CASE Opens \/ OpenTimesOut \/ ReadEnds \/ \E k \in inflight : Opened(k) \/ OpenRefused(k)
  BY <1>6, ReadsInv
<1>7. CASE UNCHANGED callVars
  BY <1>7 DEF callVars, CallsInv, CallsTypeOK, Quiet, Only, OnTheWayOut, Disposing
<1> QED
  BY <1>1, <1>2, <1>3, <1>4, <1>5, <1>6, <1>7 DEF CallsNext

THEOREM CallsHold == Spec => []CallsInv
<1>1. Init => CallsInv
  <2> SUFFICES ASSUME CallsInit PROVE CallsInv
    BY DEF Init
  <2>1. attempt = 0 /\ stage = "start" /\ retryable = FALSE /\ agents = {} /\ inflight = {}
    BY DEF CallsInit
  <2>2. CallsTypeOK /\ Quiet
    BY <2>1 DEF CallsTypeOK, Quiet
  <2> QED
    BY <2>1, <2>2 DEF CallsInv, Disposing
<1>2. CallsInv /\ [Next]_pluginVars => CallsInv'
  BY CallsStep DEF Next, pluginVars
<1> QED
  BY <1>1, <1>2, PTL DEF Spec

\* A session that is ready to be sent to, or is to be prepared again, has no
\* agent of compaction left in it and none that may still come up.
THEOREM PreparedIsClean == Spec => []NothingLeftBehind
<1>1. CallsInv => NothingLeftBehind
  BY DEF CallsInv, NothingLeftBehind, TryAgain, Quiet, Touches
<1> QED
  BY <1>1, CallsHold, PTL

\* An agent that outlives its attempt, by a timeout or an answer that is late,
\* is being disposed of, or its dispose has failed and the Run was blocked.
THEOREM LateAgentsGo == Spec => []LateAgentsAreReleased
<1>1. CallsInv => LateAgentsAreReleased
  BY DEF CallsInv, CallsTypeOK, LateAgentsAreReleased, TryAgain, OnTheWayOut, Disposing
<1> QED
  BY <1>1, CallsHold, PTL


-----------------------------------------------------------------------------
(* ParticipantIndex: turns in resolution, and what an inspection rests on. *)

Rows  == [members : SUBSET Members, exists : BOOLEAN, pending : BOOLEAN]
Turns == [no : Nat, sess : Family, pc : {"start", "locate", "read", "decide"}, facts : Rows]
Inspections ==
  [pc : {"none", "look", "listed", "lookAgain", "listedAgain"},
   agents : SUBSET (Family \X Nat), required : SUBSET Family, waiting : BOOLEAN,
   listed : SUBSET (Family \ {Root}), running : SUBSET Family,
   verdict : {"none", "unsafe", "waiting", "safe"}]

IndexTypeOK ==
  /\ gen \in [Family -> Nat] /\ exact \in [Family -> Nat]
  /\ route \in [Family -> {"none", "probe", "proof"}]
  /\ live \subseteq Family /\ busy \subseteq live /\ job \subseteq live
  /\ described \subseteq Family /\ parents \subseteq Family
  /\ row \in Rows /\ turns \subseteq Turns /\ inspection \in Inspections

OnlyMembersAreProven == \A s \in Family : route[s] = "proof" => s \in Members
\* Until its turn end is resolved the observation of a session is provisional.
HeldForATurn ==
  \A s \in Family \ Members :
    exact[s] # 0 /\ s \notin doubted => s \in provisional /\ \E t \in turns : t.sess = s

\* A session that ever came up is known below its parent, which came up too;
\* and below one that is live, a descriptor or the live parent is to be found.
Ancestry ==
  /\ Root \in described
  /\ \A s \in Family : gen[s] # 0 /\ Parent[s] # NoOne => s \in busy \cup parents /\ gen[Parent[s]] # 0
  /\ \A s \in live : gen[s] # 0 /\ (Parent[s] # NoOne => Parent[s] \in live \cup described)

\* Orphaned work is marked up to the inspected session.
OrphansAreMarked == Tree \cap orphaned # {} => Root \in tombstones

\* The second look asks Root, and whoever was required unless it has to wait.
Asked == {a[1] : a \in inspection.agents}
InspectionInv ==
  /\ inspection.pc # "none" => inspection.verdict = "none"
  /\ inspection.pc \in {"lookAgain", "listedAgain"} =>
       Root \in Asked /\ (~inspection.waiting => inspection.required \subseteq Asked)

IndexInv ==
  /\ IndexTypeOK /\ OnlyMembersAreProven /\ HeldForATurn
  /\ Ancestry /\ OrphansAreMarked /\ InspectionInv

LEMMA UpwardsFacts ==
  ASSUME TreeAssumption, NEW s \in Family, NEW known
  PROVE  /\ s \in Upwards(s, known) /\ Upwards(s, known) \subseteq Family
         /\ \A x \in Upwards(s, known) \cap known :
              Parent[x] # NoOne => Parent[x] \in Upwards(s, known)
<1>1. ASSUME NEW x \in Upwards(s, known) \cap known, Parent[x] # NoOne
      PROVE  Parent[x] \in Upwards(s, known)
  <2>1. x \in Family /\ Parent[x] \in Family
    BY <1>1 DEF Upwards, TreeAssumption
  <2>2. ASSUME NEW S \in ClosedUpwards(known), s \in S
        PROVE  Parent[x] \in S
    <3>1. x \in S \cap known
      BY <1>1, <2>2 DEF Upwards
    <3> QED
      BY <1>1, <3>1, <2>2 DEF ClosedUpwards
  <2> QED
    BY <2>1, <2>2 DEF Upwards
<1> QED
  BY <1>1 DEF Upwards

\* The way up stays in every set that the known parents do not leave.
LEMMA UpwardsIsLeast ==
  ASSUME NEW s \in Family, NEW known, NEW S \in SUBSET Family, s \in S,
         \A x \in S \cap known : Parent[x] \in S \cup {NoOne}
  PROVE  Upwards(s, known) \subseteq S
<1>1. S \in ClosedUpwards(known)
  BY DEF ClosedUpwards
<1> QED
  BY <1>1 DEF Upwards

LEMMA TreeGoesUp ==
  ASSUME TreeAssumption, NEW s \in Tree, s # Root
  PROVE  Parent[s] # NoOne /\ Parent[s] \in Tree
<1>1. s \in Family /\ Root \in Upwards(s, Family)
  BY DEF Tree
<1>2. Parent[s] # NoOne
  <2> SUFFICES ASSUME Parent[s] = NoOne PROVE FALSE
    OBVIOUS
  <2>1. Upwards(s, Family) \subseteq {s}
    <3> DEFINE S == {s}
    <3>1. S \in SUBSET Family /\ s \in S /\ \A x \in S \cap Family : Parent[x] \in S \cup {NoOne}
      BY <1>1
    <3> HIDE DEF S
    <3>2. Upwards(s, Family) \subseteq S
      BY <1>1, <3>1, UpwardsIsLeast
    <3> QED
      BY <3>2 DEF S
  <2> QED
    BY <1>1, <2>1
<1>3. Parent[s] \in Family
  BY <1>1, <1>2 DEF TreeAssumption
<1>4. Root \in Upwards(Parent[s], Family)
  <2> DEFINE U == Upwards(Parent[s], Family)
             S == U \cup {s}
  <2>1. Parent[s] \in U /\ U \subseteq Family
        /\ \A x \in U \cap Family : Parent[x] # NoOne => Parent[x] \in U
    BY <1>3, UpwardsFacts
  <2> HIDE DEF U
  <2>2. S \in SUBSET Family /\ s \in S /\ \A x \in S \cap Family : Parent[x] \in S \cup {NoOne}
    BY <1>1, <2>1
  <2> HIDE DEF S
  <2>3. Upwards(s, Family) \subseteq S
    BY <1>1, <2>2, UpwardsIsLeast
  <2> QED
    BY <1>1, <2>3 DEF S, U
<1> QED
  BY <1>2, <1>3, <1>4 DEF Tree

\* If a session of the tree is live, its way up through all that is known
\* reaches the inspected session.
LEMMA RootIsKnown ==
  ASSUME TreeAssumption, IndexTypeOK, Ancestry, NEW s \in Tree \cap live, NEW more
  PROVE  Root \in Upwards(s, parents \cup live \cup more)
<1> DEFINE seen == parents \cup live \cup more
           U == Upwards(s, seen)
           S == {x \in U : gen[x] # 0}
<1>1. s \in Family /\ gen[s] # 0 /\ Root \in Upwards(s, Family)
  BY DEF Tree, Ancestry
<1>2. s \in U /\ U \subseteq Family
      /\ \A x \in U \cap seen : Parent[x] # NoOne => Parent[x] \in U
  BY <1>1, UpwardsFacts
<1> HIDE DEF U
<1>3. \A x \in S : Parent[x] # NoOne => x \in seen /\ gen[Parent[x]] # 0
  BY <1>2 DEF Ancestry, IndexTypeOK
<1>4. S \in SUBSET Family /\ s \in S /\ \A x \in S \cap Family : Parent[x] \in S \cup {NoOne}
  BY <1>1, <1>2, <1>3
<1> HIDE DEF S
<1>5. Upwards(s, Family) \subseteq S
  BY <1>1, <1>4, UpwardsIsLeast
<1> QED
  BY <1>1, <1>5 DEF S, U

\* Every live session of the tree is found below what was listed, unless the way
\* up from it passes a described session that was not.
LEMMA LiveIsFound ==
  ASSUME TreeAssumption, IndexTypeOK, Ancestry, NEW s \in Tree \cap live,
         Upwards(s, Family) \cap Unlisted = {}
  PROVE  s \in LiveTree({Root} \cup inspection.listed)
<1> DEFINE ids == {Root} \cup inspection.listed
           U == Upwards(s, live \ ids)
           V == Upwards(s, Family)
           S == U \cap V \cap live \cap Tree
<1>1. s \in Family /\ Root \in V /\ Tree \subseteq Family
  BY DEF Tree
<1>2. s \in U /\ U \subseteq Family
      /\ \A x \in U \cap (live \ ids) : Parent[x] # NoOne => Parent[x] \in U
  BY <1>1, UpwardsFacts
<1>3. s \in V /\ V \subseteq Family
      /\ \A x \in V \cap Family : Parent[x] # NoOne => Parent[x] \in V
  BY <1>1, UpwardsFacts
<1>4. Root \in ids /\ \A x \in V \cap Tree \cap described : x \in live \cup ids
  BY DEF Unlisted
<1> HIDE DEF U, V, ids
<1>5. SUFFICES ASSUME U \cap ids = {} PROVE FALSE
  BY <1>1 DEF LiveTree, U, ids
<1>6. ASSUME NEW x \in S PROVE Parent[x] \in S
  <2>1. x \notin ids /\ x # Root /\ x \in Family
    BY <1>1, <1>4, <1>5, <1>6
  <2>2. Parent[x] # NoOne /\ Parent[x] \in Tree
    BY <1>6, <2>1, TreeGoesUp
  <2>3. Parent[x] \in U /\ Parent[x] \in V
    BY <1>2, <1>3, <1>6, <2>1, <2>2
  <2>4. Parent[x] \in live \cup described
    BY <1>6, <2>2 DEF Ancestry
  <2> QED
    BY <1>4, <1>5, <2>2, <2>3, <2>4
<1>7. S \in SUBSET Family /\ s \in S /\ \A x \in S \cap Family : Parent[x] \in S \cup {NoOne}
  BY <1>1, <1>2, <1>3, <1>6
<1> HIDE DEF S
<1>8. V \subseteq S
  BY <1>1, <1>7, UpwardsIsLeast DEF V
<1> QED
  BY <1>1, <1>4, <1>5, <1>8 DEF S

\* A move of the Host tells the index nothing.
LEMMA HostMoveInv ==
  ASSUME IndexInv, UNCHANGED <<orphaned, row, indexSide, inspection>>,
         gen' \in [Family -> Nat], live' \subseteq Family, busy' \subseteq live', job' \subseteq live',
         described' \subseteq Family, Ancestry'
  PROVE  IndexInv'
<1>1. IndexTypeOK'
  BY DEF IndexInv, IndexTypeOK, indexSide
<1>2. OnlyMembersAreProven' /\ HeldForATurn'
  BY DEF IndexInv, OnlyMembersAreProven, HeldForATurn, indexSide
<1>3. OrphansAreMarked' /\ InspectionInv'
  BY DEF IndexInv, OrphansAreMarked, InspectionInv, Asked, indexSide
<1> QED
  BY <1>1, <1>2, <1>3 DEF IndexInv

LEMMA MaterializesInv ==
  ASSUME IndexInv, TreeAssumption, NEW s \in Family, Materializes(s)
  PROVE  IndexInv'
<1>1. /\ gen \in [Family -> Nat] /\ gen' = [gen EXCEPT ![s] = @ + 1]
      /\ live' = live \cup {s} /\ busy' = busy \cup {s} /\ live \subseteq Family
      /\ busy \subseteq live /\ job \subseteq live /\ described \subseteq Family
      /\ UNCHANGED <<job, described, orphaned, row, indexSide, inspection, parents>>
      /\ (s = Root \/ Parent[s] \in busy) /\ Ancestry
  BY DEF Materializes, IndexInv, IndexTypeOK, indexSide
<1>2. /\ gen' \in [Family -> Nat] /\ gen'[s] # 0
      /\ \A x \in Family : gen[x] # 0 => gen'[x] # 0
      /\ \A x \in Family \ {s} : gen'[x] = gen[x]
  BY <1>1
<1>3. Parent[s] # NoOne => Parent[s] \in live /\ Parent[s] \in Family /\ gen[Parent[s]] # 0
  BY <1>1 DEF Ancestry, TreeAssumption
<1>4. \A x \in Family : Parent[x] # NoOne => Parent[x] \in Family
  BY DEF TreeAssumption
<1>5. Ancestry'
  BY <1>1, <1>2, <1>3, <1>4 DEF Ancestry
<1> QED
  BY <1>1, <1>2, <1>5, HostMoveInv

LEMMA HostInv ==
  ASSUME IndexInv, TreeAssumption, NEW s \in Family,
         \/ Describes(s) \/ Clears(s) \/ WakesUp(s) \/ StartsJob(s) \/ EndsJob(s) \/ TearsDown(s)
  PROVE  IndexInv'
<1>1. /\ gen \in [Family -> Nat] /\ live \subseteq Family /\ busy \subseteq live /\ job \subseteq live
      /\ described \subseteq Family /\ Ancestry
      /\ UNCHANGED <<gen, orphaned, row, indexSide, inspection, parents>>
  BY DEF Describes, Clears, WakesUp, StartsJob, EndsJob, TearsDown, IndexInv, IndexTypeOK, indexSide
<1>2. CASE Describes(s) \/ WakesUp(s) \/ StartsJob(s) \/ EndsJob(s)
  <2>1. /\ live' = live /\ described \subseteq described' /\ described' \subseteq Family
        /\ busy \subseteq busy' /\ busy' \subseteq live /\ job' \subseteq live
    BY <1>1, <1>2 DEF Describes, WakesUp, StartsJob, EndsJob
  <2>2. Ancestry'
    BY <1>1, <2>1 DEF Ancestry
  <2> QED
    BY <1>1, <2>1, <2>2, HostMoveInv
<1>3. CASE Clears(s)
  <2>1. /\ described' = described \ {s} /\ s # Root /\ UNCHANGED <<live, busy, job>>
        /\ s \notin live /\ \A x \in live : s \notin Upwards(x, Family)
    BY <1>3 DEF Clears
  <2>2. ASSUME NEW x \in live, Parent[x] # NoOne PROVE Parent[x] # s
    <3>1. x \in Upwards(x, Family) \cap Family
      BY <1>1, UpwardsFacts
    <3>2. Parent[x] \in Upwards(x, Family)
      BY <1>1, <2>2, <3>1, UpwardsFacts
    <3> QED
      BY <2>1, <3>2
  <2>3. Ancestry'
    BY <1>1, <2>1, <2>2 DEF Ancestry
  <2> QED
    BY <1>1, <2>1, <2>3, HostMoveInv
<1>4. CASE TearsDown(s)
  <2>1. /\ live' = live \ {s} /\ job' = job \ {s} /\ UNCHANGED <<busy, described>>
        /\ s \in described /\ s \notin busy
    BY <1>4 DEF TearsDown
  <2>2. Ancestry'
    BY <1>1, <2>1 DEF Ancestry
  <2> QED
    BY <1>1, <2>1, <2>2, HostMoveInv
<1> QED
  BY <1>2, <1>3, <1>4

\* The owner of orphaned work is below the inspected session, which is marked.
LEMMA OrphansInv ==
  ASSUME IndexInv, TreeAssumption, NEW s \in Family, Orphans(s)
  PROVE  IndexInv'
<1> DEFINE seen  == parents \cup live \cup {x \in Family : exact[x] # 0}
           above == Upwards(s, seen)
<1>1. /\ s \in (live \cap described \cap job) \ busy
      /\ orphaned' = orphaned \cup {s} /\ tombstones' = tombstones \cup above
      /\ parents' = parents \cup Recorded(above \cap seen)
      /\ live' = live \ {s} /\ job' = job \ {s}
      /\ UNCHANGED <<gen, busy, described, row, route, exact, provisional, turns, doubted,
                     inspection>>
  BY DEF Orphans
<1>2. /\ IndexTypeOK /\ Ancestry /\ OrphansAreMarked
  BY DEF IndexInv
<1>3. above \subseteq Family
  BY UpwardsFacts
<1>4. s \in Tree => Root \in above
  BY <1>1, <1>2, RootIsKnown
<1> HIDE DEF above
<1>5. Recorded(above \cap seen) \subseteq Family
  BY <1>3 DEF Recorded
<1> HIDE DEF seen
<1>6. IndexTypeOK'
  BY <1>1, <1>2, <1>5 DEF IndexTypeOK
<1>7. OnlyMembersAreProven' /\ HeldForATurn' /\ InspectionInv'
  BY <1>1 DEF IndexInv, OnlyMembersAreProven, HeldForATurn, InspectionInv, Asked
<1>8. Ancestry'
  BY <1>1, <1>2 DEF Ancestry
<1>9. OrphansAreMarked'
  BY <1>1, <1>2, <1>4 DEF OrphansAreMarked
<1> QED
  BY <1>6, <1>7, <1>8, <1>9 DEF IndexInv

LEMMA TurnEndsInv ==
  ASSUME IndexInv, TreeAssumption, NEW s \in Family, NEW max \in Nat, TurnEnds(s, max)
  PROVE  IndexInv'
<1>1. PICK n \in 1..max :
        turns' = turns \cup {[no |-> n, sess |-> s, pc |-> "start", facts |-> NoRow]}
  BY DEF TurnEnds
<1> DEFINE t == [no |-> n, sess |-> s, pc |-> "start", facts |-> NoRow]
<1>2. /\ s \in busy /\ busy' = busy \ {s} /\ exact' = [exact EXCEPT ![s] = gen[s]]
      /\ provisional' = provisional \cup {s} /\ parents' = parents \cup Recorded({s})
      /\ UNCHANGED <<gen, live, job, described, orphaned, row, route, tombstones, doubted,
                     inspection>>
  BY DEF TurnEnds
<1>3. t \in Turns /\ t.sess = s
  BY DEF Turns, NoRow, Rows
<1>4. turns' = turns \cup {t}
  BY <1>1
<1> HIDE DEF t
<1>5. IndexTypeOK /\ Ancestry /\ HeldForATurn
  BY DEF IndexInv
<1>6. Recorded({s}) \subseteq Family /\ (Parent[s] # NoOne => s \in Recorded({s}))
  BY DEF Recorded
<1>7. IndexTypeOK'
  BY <1>2, <1>3, <1>4, <1>5, <1>6 DEF IndexTypeOK
<1>8. \A x \in Family \ {s} : exact'[x] = exact[x]
  BY <1>2, <1>5 DEF IndexTypeOK
<1>9. HeldForATurn'
  BY <1>2, <1>3, <1>4, <1>5, <1>8 DEF HeldForATurn
<1>10. Ancestry'
  BY <1>2, <1>5, <1>6 DEF Ancestry
<1>11. OnlyMembersAreProven' /\ OrphansAreMarked' /\ InspectionInv'
  BY <1>2 DEF IndexInv, OnlyMembersAreProven, OrphansAreMarked, InspectionInv, Asked
<1> QED
  BY <1>7, <1>9, <1>10, <1>11 DEF IndexInv

\* What a probe, an admission or a step of resolveTurn has to keep.
LEMMA IndexMoveInv ==
  ASSUME IndexInv, UNCHANGED <<hostSide, tombstones, parents, inspection>>,
         exact' \in [Family -> Nat], route' \in [Family -> {"none", "probe", "proof"}],
         row' \in Rows, turns' \subseteq Turns, OnlyMembersAreProven', HeldForATurn'
  PROVE  IndexInv'
<1>1. IndexTypeOK'
  BY DEF IndexInv, IndexTypeOK, hostSide
<1>2. Ancestry' /\ OrphansAreMarked' /\ InspectionInv'
  BY DEF IndexInv, Ancestry, OrphansAreMarked, InspectionInv, Asked, hostSide
<1> QED
  BY <1>1, <1>2 DEF IndexInv

LEMMA RoutedFacts ==
  ASSUME IndexTypeOK, OnlyMembersAreProven, NEW s \in Family, NEW proof \in BOOLEAN,
         proof => s \in Members
  PROVE  /\ Routed(s, proof) \in [Family -> {"none", "probe", "proof"}]
         /\ \A x \in Family : Routed(s, proof)[x] = "proof" => x \in Members
BY DEF Routed, IndexTypeOK, OnlyMembersAreProven

LEMMA RoutesInv ==
  ASSUME IndexInv, TreeAssumption,
         \/ \E s \in Family : Probes(s) \/ Admits(s)
         \/ \E new \in Rows : RowChanges(new)
  PROVE  IndexInv'
<1>1. IndexTypeOK /\ OnlyMembersAreProven /\ HeldForATurn
  BY DEF IndexInv
<1>2. CASE \E s \in Family : Probes(s) \/ Admits(s)
  <2>1. PICK s \in Family : Probes(s) \/ Admits(s)
    BY <1>2
  <2>2. PICK proof \in BOOLEAN : route' = Routed(s, proof) /\ (proof => s \in Members)
    BY <2>1 DEF Probes, Admits
  <2>3. UNCHANGED <<hostSide, row, exact, provisional, tombstones, parents, turns, doubted, inspection>>
    BY <2>1 DEF Probes, Admits
  <2>4. route' \in [Family -> {"none", "probe", "proof"}] /\ OnlyMembersAreProven'
    BY <1>1, <2>2, RoutedFacts DEF OnlyMembersAreProven
  <2>5. HeldForATurn'
    BY <1>1, <2>3 DEF HeldForATurn
  <2> QED
    BY <1>1, <2>3, <2>4, <2>5, IndexMoveInv DEF IndexTypeOK
<1>3. CASE \E new \in Rows : RowChanges(new)
  <2>1. row' \in Rows /\ UNCHANGED <<hostSide, indexSide, inspection>>
    BY <1>3 DEF RowChanges
  <2>2. OnlyMembersAreProven' /\ HeldForATurn'
    BY <1>1, <2>1 DEF indexSide, OnlyMembersAreProven, HeldForATurn
  <2> QED
    BY <1>1, <2>1, <2>2, IndexMoveInv DEF IndexTypeOK, indexSide
<1> QED
  BY <1>2, <1>3

\* A step of resolveTurn that goes on leaves the turn end where it was.
LEMMA GoesOnInv ==
  ASSUME IndexInv, NEW t \in turns, NEW u \in Turns, u.sess = t.sess, Goes(t, u),
         UNCHANGED <<hostSide, row, route, exact, provisional, tombstones, parents, doubted, inspection>>
  PROVE  IndexInv'
<1>1. IndexTypeOK /\ OnlyMembersAreProven /\ HeldForATurn
  BY DEF IndexInv
<1>2. turns' = (turns \ {t}) \cup {u}
  BY DEF Goes
<1>3. HeldForATurn'
  BY <1>1, <1>2 DEF HeldForATurn
<1>4. OnlyMembersAreProven'
  BY <1>1 DEF OnlyMembersAreProven
<1> QED
  BY <1>1, <1>2, <1>3, <1>4, IndexMoveInv DEF IndexTypeOK

\* At the end of a resolution the observation is confirmed, of a session that
\* is a member or doubted, or it is released.
LEMMA IsOverInv ==
  ASSUME IndexInv, TreeAssumption, NEW t \in turns, Over(t),
         UNCHANGED <<hostSide, row, tombstones, parents, inspection>>,
         route' \in [Family -> {"none", "probe", "proof"}], OnlyMembersAreProven',
         doubted \subseteq doubted',
         \/ Confirmed(t.sess) /\ t.sess \in Members \cup doubted'
         \/ Released(t.sess)
  PROVE  IndexInv'
<1> DEFINE s == t.sess
<1>1. IndexTypeOK /\ HeldForATurn /\ turns' = turns \ {t}
  BY DEF IndexInv, Over
<1>2. s \in Family
  BY <1>1 DEF IndexTypeOK, Turns
<1>3. /\ provisional' = provisional \ {s} /\ exact' \in [Family -> Nat]
      /\ \A x \in Family \ {s} : exact'[x] = exact[x]
      /\ s \in Members \cup doubted' \/ (s \notin provisional /\ exact'[s] = exact[s]) \/ exact'[s] = 0
  BY <1>1, <1>2 DEF Confirmed, Released, IndexTypeOK
<1> HIDE DEF s
<1>4. HeldForATurn'
  <2> SUFFICES ASSUME NEW x \in Family \ Members, exact'[x] # 0, x \notin doubted'
               PROVE  x \in provisional' /\ \E v \in turns' : v.sess = x
    BY DEF HeldForATurn
  <2>1. x # s
    BY <1>1, <1>3 DEF HeldForATurn
  <2>2. x \in provisional /\ \E v \in turns : v.sess = x
    BY <1>1, <1>3, <2>1 DEF HeldForATurn
  <2> QED
    BY <1>1, <1>3, <2>1, <2>2 DEF s
<1> QED
  BY <1>1, <1>3, <1>4, IndexMoveInv DEF IndexTypeOK

LEMMA TurnFields ==
  ASSUME NEW t \in Turns
  PROVE  /\ t.sess \in Family /\ t.facts \in Rows /\ t.facts.members \subseteq Members
         /\ \A pc \in {"start", "locate", "read", "decide"} :
              [t EXCEPT !.pc = pc] \in Turns /\ [t EXCEPT !.pc = pc].sess = t.sess
         /\ \A facts \in Rows :
              /\ [t EXCEPT !.pc = "decide", !.facts = facts] \in Turns
              /\ [t EXCEPT !.pc = "decide", !.facts = facts].sess = t.sess
BY DEF Turns, Rows

LEMMA ResolutionInv ==
  ASSUME IndexInv, TreeAssumption, NEW t \in turns,
         \/ StartsResolving(t) \/ Locates(t) \/ ReadsRow(t) \/ ProbeFails(t) \/ Decides(t)
         \/ Resolves(t)
  PROVE  IndexInv'
<1>1. /\ t \in Turns /\ IndexTypeOK /\ OnlyMembersAreProven /\ t.sess \in Family
      /\ row \in Rows /\ NoRow \in Rows
      /\ route \in [Family -> {"none", "probe", "proof"}]
  BY TurnFields DEF IndexInv, IndexTypeOK, NoRow, Rows
<1>2. CASE StartsResolving(t)
  <2>1. CASE route[t.sess] = "proof"
    <3>1. t.sess \in Members
      BY <1>1, <2>1 DEF OnlyMembersAreProven
    <3>2. Over(t) /\ Confirmed(t.sess)
          /\ UNCHANGED <<hostSide, row, route, tombstones, parents, doubted, inspection>>
      BY <1>2, <2>1 DEF StartsResolving
    <3>3. OnlyMembersAreProven'
      BY <1>1, <3>2 DEF OnlyMembersAreProven
    <3> QED
      BY <1>1, <3>1, <3>2, <3>3, IsOverInv
  <2>2. CASE route[t.sess] # "proof"
    <3>1. PICK u : u = [t EXCEPT !.pc = IF route[t.sess] = "probe" THEN "read" ELSE "locate"]
      OBVIOUS
    <3>2. u \in Turns /\ u.sess = t.sess
      BY <1>1, <3>1, TurnFields
    <3>3. Goes(t, u) /\ UNCHANGED <<hostSide, row, route, exact, provisional, tombstones, parents,
                                    doubted, inspection>>
      BY <1>2, <2>2, <3>1 DEF StartsResolving
    <3> QED
      BY <3>2, <3>3, GoesOnInv
  <2> QED
    BY <2>1, <2>2
<1>3. CASE Locates(t) \/ ReadsRow(t)
  <2>1. PICK u \in Turns : u.sess = t.sess /\ Goes(t, u)
    <3>1. CASE ReadsRow(t)
      BY <1>1, <3>1, TurnFields DEF ReadsRow
    <3>2. CASE Locates(t)
      <4>1. CASE Goes(t, [t EXCEPT !.pc = "read"])
        BY <1>1, <4>1, TurnFields
      <4>2. CASE Goes(t, [t EXCEPT !.pc = "decide",
                            !.facts = IF row.exists /\ t.sess \in row.members THEN row ELSE NoRow])
        <5>1. PICK facts \in Rows : Goes(t, [t EXCEPT !.pc = "decide", !.facts = facts])
          BY <1>1, <4>2
        <5> QED
          BY <1>1, <5>1, TurnFields
      <4> QED
        BY <3>2, <4>1, <4>2 DEF Locates
    <3> QED
      BY <1>3, <3>1, <3>2
  <2>2. UNCHANGED <<hostSide, row, route, exact, provisional, tombstones, parents, doubted, inspection>>
    BY <1>3 DEF Locates, ReadsRow
  <2> QED
    BY <2>1, <2>2, GoesOnInv
<1>4. CASE ProbeFails(t) \/ Resolves(t)
  <2>1. /\ Over(t) /\ UNCHANGED <<hostSide, row, route, tombstones, parents, inspection>>
        /\ \/ Confirmed(t.sess) /\ doubted \subseteq doubted' /\ t.sess \in doubted'
           \/ Released(t.sess) /\ doubted' = doubted
    BY <1>1, <1>4, TurnFields DEF ProbeFails, Resolves
  <2>2. OnlyMembersAreProven'
    BY <1>1, <2>1 DEF OnlyMembersAreProven
  <2>3. doubted \subseteq doubted'
    BY <2>1
  <2>4. \/ Confirmed(t.sess) /\ t.sess \in Members \cup doubted'
        \/ Released(t.sess)
    BY <2>1
  <2>5. route' \in [Family -> {"none", "probe", "proof"}]
    BY <1>1, <2>1
  <2> QED
    BY <2>1, <2>2, <2>3, <2>4, <2>5, IsOverInv
<1>5. CASE Decides(t)
  <2> DEFINE s == t.sess
  <2>1. Over(t) /\ UNCHANGED <<hostSide, row, tombstones, parents, inspection>>
    BY <1>5 DEF Decides
  <2>2. CASE MayAwait(t.facts, s)
    <3>1. /\ Confirmed(s)
          /\ route' = IF AdmittedIn(t.facts, s) THEN Routed(s, TRUE) ELSE route
          /\ doubted' = IF AdmittedIn(t.facts, s) THEN doubted ELSE doubted \cup {s}
      BY <1>5, <2>2 DEF Decides
    <3>2. AdmittedIn(t.facts, s) => s \in Members
      BY <1>1, TurnFields DEF AdmittedIn
    <3>3. route' \in [Family -> {"none", "probe", "proof"}] /\ OnlyMembersAreProven'
      BY <1>1, <3>1, <3>2, RoutedFacts DEF OnlyMembersAreProven
    <3>4. s \in Members \cup doubted' /\ doubted \subseteq doubted'
      BY <3>1, <3>2
    <3> QED
      BY <2>1, <3>1, <3>3, <3>4, IsOverInv
  <2>3. CASE ~MayAwait(t.facts, s)
    <3>1. Released(s) /\ UNCHANGED <<route, doubted>>
      BY <1>5, <2>3 DEF Decides
    <3>2. OnlyMembersAreProven'
      BY <1>1, <3>1 DEF OnlyMembersAreProven
    <3> QED
      BY <1>1, <2>1, <3>1, <3>2, IsOverInv
  <2> QED
    BY <2>2, <2>3
<1> QED
  BY <1>2, <1>3, <1>4, <1>5

LEMMA SaysFacts ==
  ASSUME NEW verdict \in {"unsafe", "waiting", "safe"}, Says(verdict)
  PROVE  /\ inspection' \in Inspections /\ inspection'.pc = "none"
         /\ inspection'.verdict = verdict
BY DEF Says, Idle, Inspections

\* An inspection reads the index and records only parents.
LEMMA InspectionMoveInv ==
  ASSUME IndexInv, Unaffected, parents \subseteq parents', parents' \subseteq Family,
         inspection' \in Inspections, InspectionInv'
  PROVE  IndexInv'
<1>1. IndexTypeOK' /\ OnlyMembersAreProven' /\ HeldForATurn' /\ OrphansAreMarked'
  BY DEF IndexInv, IndexTypeOK, OnlyMembersAreProven, HeldForATurn, OrphansAreMarked,
         Unaffected, hostSide
<1>2. Ancestry'
  BY DEF IndexInv, Ancestry, Unaffected, hostSide
<1> QED
  BY <1>1, <1>2 DEF IndexInv

LEMMA RecordedInFamily ==
  ASSUME IndexTypeOK
  PROVE  Recorded(inspection.listed \cup live) \subseteq Family
BY DEF IndexTypeOK, Recorded, Inspections

\* Whom a first look, if it does not refuse, leaves for the second.
LEMMA FirstLookInv ==
  ASSUME IndexInv, TreeAssumption, FirstLook
  PROVE  IndexInv' /\ (Says("unsafe") \/ inspection'.pc = "lookAgain")
<1> DEFINE listed   == inspection.listed
           required == Required({Root} \cup listed)
           restless == {s \in required : ~AtRest(s, Candidate(s))}
           next == [Idle EXCEPT
                      !.pc = "lookAgain", !.required = required, !.waiting = restless # {},
                      !.agents = {<<s, Candidate(s)>> : s \in required \ restless}]
<1>1. /\ Unaffected /\ parents' = parents \cup Recorded(listed \cup live)
      /\ \/ Says("unsafe")
         \/ restless \subseteq listed /\ inspection' = next
  BY DEF FirstLook
<1>2. /\ IndexTypeOK /\ Root \in Family
      /\ listed \subseteq Family \ {Root} /\ inspection.running \subseteq Family
  BY DEF IndexInv, IndexTypeOK, Inspections, TreeAssumption
<1>3. parents \subseteq parents' /\ parents' \subseteq Family
  BY <1>1, <1>2, RecordedInFamily DEF IndexTypeOK
<1>4. CASE Says("unsafe")
  <2>1. inspection' \in Inspections /\ InspectionInv'
    BY <1>4, SaysFacts DEF InspectionInv
  <2> QED
    BY <1>1, <1>3, <1>4, <2>1, InspectionMoveInv
<1>5. CASE restless \subseteq listed /\ inspection' = next
  <2>1. required \subseteq Family /\ Root \in required /\ Root \notin listed
    BY <1>2 DEF Required, IndexTypeOK
  <2>2. \A s \in Family : Candidate(s) \in Nat
    BY <1>2 DEF Candidate, IndexTypeOK
  <2> HIDE DEF required, restless, listed
  <2>3. \A a \in {<<s, Candidate(s)>> : s \in required \ restless} : a \in Family \X Nat
    BY <2>1, <2>2
  <2>4. /\ next \in Inspections /\ next.pc = "lookAgain" /\ next.verdict = "none"
        /\ next.required = required /\ next.waiting = (restless # {})
        /\ next.agents = {<<s, Candidate(s)>> : s \in required \ restless}
    BY <2>1, <2>3 DEF Inspections, Idle
  <2> HIDE DEF next
  <2>5. \A s \in required \ restless : s \in Asked'
    <3> SUFFICES ASSUME NEW s \in required \ restless PROVE s \in Asked'
      OBVIOUS
    <3>1. <<s, Candidate(s)>> \in inspection'.agents
      BY <1>5, <2>4
    <3>2. <<s, Candidate(s)>>[1] = s
      OBVIOUS
    <3> QED
      BY <3>1, <3>2 DEF Asked
  <2>6. Root \in required \ restless
    BY <1>5, <2>1
  <2>7. InspectionInv'
    BY <1>5, <2>4, <2>5, <2>6 DEF InspectionInv
  <2> QED
    BY <1>1, <1>3, <1>5, <2>4, <2>7, InspectionMoveInv
<1> QED
  BY <1>1, <1>4, <1>5

\* A list that has arrived is used later.
LEMMA ListsInv ==
  ASSUME IndexInv, TreeAssumption, Lists
  PROVE  /\ IndexInv' /\ inspection'.pc \in {"listed", "listedAgain"}
         /\ inspection'.verdict = inspection.verdict
<1>1. PICK pc, listed, running :
        /\ pc = IF inspection.pc = "look" THEN "listed" ELSE "listedAgain"
        /\ listed = Descendants /\ running = Descendants \cap busy
        /\ inspection' = [inspection EXCEPT !.pc = pc, !.listed = listed, !.running = running]
  BY DEF Lists
<1>2. /\ inspection.pc \in {"look", "lookAgain"} /\ Unaffected /\ parents' = parents
      /\ IndexTypeOK /\ InspectionInv
  BY DEF Lists, IndexInv
<1>3. listed \in SUBSET (Family \ {Root}) /\ running \in SUBSET Family
  BY <1>1, <1>2 DEF Descendants, IndexTypeOK
<1>4. /\ inspection' \in Inspections /\ inspection'.pc = pc
      /\ inspection'.agents = inspection.agents /\ inspection'.required = inspection.required
      /\ inspection'.waiting = inspection.waiting /\ inspection'.verdict = inspection.verdict
  BY <1>1, <1>2, <1>3 DEF IndexTypeOK, Inspections
<1>5. InspectionInv'
  BY <1>1, <1>2, <1>4 DEF InspectionInv, Asked
<1>6. parents \subseteq parents' /\ parents' \subseteq Family
  BY <1>2 DEF IndexTypeOK
<1> QED
  BY <1>1, <1>2, <1>4, <1>5, <1>6, InspectionMoveInv

LEMMA InspectionsInv ==
  ASSUME IndexInv, TreeAssumption, Asks \/ Lists \/ ListFails \/ FirstLook \/ SecondLook
  PROVE  IndexInv'
<1>1. IndexTypeOK /\ Root \in Family
  BY DEF IndexInv, TreeAssumption
<1>2. CASE Asks
  <2>1. Unaffected /\ parents' = parents /\ parents \subseteq Family
    BY <1>1, <1>2 DEF Asks, IndexTypeOK
  <2>2. inspection' \in Inspections /\ InspectionInv'
    <3>1. CASE Says("unsafe")
      BY <3>1, SaysFacts DEF InspectionInv
    <3>2. CASE inspection' = [Idle EXCEPT !.pc = "look", !.agents = {<<Root, Candidate(Root)>>}]
      <4>1. Candidate(Root) \in Nat
        BY <1>1 DEF Candidate, IndexTypeOK
      <4>2. PICK asked \in SUBSET (Family \X Nat) :
              inspection' = [Idle EXCEPT !.pc = "look", !.agents = asked]
        <5>1. {<<Root, Candidate(Root)>>} \in SUBSET (Family \X Nat)
          BY <1>1, <4>1
        <5> QED
          BY <3>2, <5>1
      <4>3. /\ inspection'.pc = "look" /\ inspection'.verdict = "none"
            /\ inspection' \in Inspections
        BY <4>2 DEF Idle, Inspections
      <4> QED
        BY <4>3 DEF InspectionInv
    <3> QED
      BY <1>2, <3>1, <3>2 DEF Asks
  <2> QED
    BY <2>1, <2>2, InspectionMoveInv
<1>3. CASE ListFails \/ SecondLook
  <2>1. Unaffected /\ \/ parents' = parents
                      \/ parents' = parents \cup Recorded(inspection.listed \cup live)
    BY <1>3 DEF ListFails, SecondLook
  <2>2. parents \subseteq parents' /\ parents' \subseteq Family
    BY <1>1, <2>1, RecordedInFamily DEF IndexTypeOK
  <2>3. PICK verdict \in {"unsafe", "waiting", "safe"} : Says(verdict)
    BY <1>3 DEF ListFails, SecondLook
  <2>4. inspection' \in Inspections /\ InspectionInv'
    BY <2>3, SaysFacts DEF InspectionInv
  <2> QED
    BY <2>1, <2>2, <2>4, InspectionMoveInv
<1> QED
  BY <1>2, <1>3, FirstLookInv, ListsInv

LEMMA IndexStep ==
  ASSUME IndexInv, TreeAssumption, ResolveNext \/ InspectNext \/ UNCHANGED indexVars
  PROVE  IndexInv'
<1>1. CASE UNCHANGED indexVars
  BY <1>1 DEF indexVars, hostSide, indexSide, IndexInv, IndexTypeOK, OnlyMembersAreProven, HeldForATurn,
              Ancestry, OrphansAreMarked, InspectionInv, Asked
<1>2. ASSUME NEW sessions \in SUBSET Family, NEW max \in Nat, HostNext(sessions, max)
      PROVE  IndexInv'
  <2>1. PICK s \in Family : Materializes(s) \/ WakesUp(s) \/ TurnEnds(s, max)
    BY <1>2 DEF HostNext
  <2> QED
    BY <2>1, MaterializesInv, HostInv, TurnEndsInv
<1>3. CASE ResolveNext
  <2>1. Near \subseteq Family /\ MaxTurns \in Nat
    BY DEF Near, TreeAssumption
  <2>2. \A members \in SUBSET Members : \A exists, waits \in BOOLEAN :
          [members |-> IF exists THEN members ELSE {}, exists |-> exists,
           pending |-> exists /\ waits] \in Rows
    BY DEF Rows
  <2>3. \/ HostNext(Near, MaxTurns)
        \/ \E s \in Family : Probes(s) \/ Admits(s)
        \/ \E new \in Rows : RowChanges(new)
        \/ \E t \in turns :
             StartsResolving(t) \/ Locates(t) \/ ReadsRow(t) \/ ProbeFails(t) \/ Decides(t)
    BY <1>3, <2>1, <2>2 DEF ResolveNext
  <2> QED
    BY <1>2, <2>1, <2>3, RoutesInv, ResolutionInv
<1>4. CASE InspectNext
  BY <1>2, <1>4, HostInv, OrphansInv, ResolutionInv, InspectionsInv DEF InspectNext
<1> QED
  BY <1>1, <1>3, <1>4

THEOREM IndexHolds == Spec => []IndexInv
<1>1. Init => IndexInv
  <2> SUFFICES ASSUME IndexInit PROVE IndexInv
    BY DEF Init
  <2>1. IndexTypeOK
    BY TreeAssumption DEF IndexInit, IndexTypeOK, NoRow, Rows, Idle, Inspections
  <2>2. OnlyMembersAreProven /\ HeldForATurn /\ Ancestry /\ OrphansAreMarked
    BY DEF IndexInit, OnlyMembersAreProven, HeldForATurn, Ancestry, OrphansAreMarked
  <2>3. InspectionInv
    BY DEF IndexInit, InspectionInv, Idle
  <2> QED
    BY <2>1, <2>2, <2>3 DEF IndexInv
<1>2. IndexInv /\ [Next]_pluginVars => IndexInv'
  BY IndexStep, TreeAssumption DEF Next, pluginVars
<1> QED
  BY <1>1, <1>2, PTL DEF Spec

\* The Agent of a session that no work order refers to is held no longer than
\* the turn end that made it known, unless a failed probe protects it.
THEOREM UnrelatedGo == Spec => []UnrelatedAreReleased
<1>1. IndexInv => UnrelatedAreReleased
  BY DEF IndexInv, HeldForATurn, UnrelatedAreReleased
<1> QED
  BY <1>1, IndexHolds, PTL

\* The second look calls safe only what is at rest, as far as its list leads.
LEMMA SecondLookIsRight ==
  ASSUME IndexInv, TreeAssumption, SecondLook, inspection'.verdict \in {"safe", "waiting"}
  PROVE  /\ Tree \cap orphaned = {}
         /\ inspection'.verdict = "safe" =>
              \A s \in Tree \cap (busy \cup job) : Upwards(s, Family) \cap Unlisted # {}
<1> DEFINE settled == \A a \in inspection.agents :
                        /\ SameGeneration(a[1], a[2]) /\ AtRest(a[1], a[2])
                        /\ a[1] \notin tombstones /\ a[1] \notin job
           refused == inspection.listed \cap tombstones # {} \/ ~NoNewcomers(inspection.required)
           verdict == IF refused \/ ~settled THEN "unsafe"
                      ELSE IF inspection.waiting THEN "waiting" ELSE "safe"
<1>1. Says(verdict) /\ inspection.pc = "listedAgain" /\ IndexTypeOK /\ Ancestry
      /\ OrphansAreMarked /\ InspectionInv
  BY DEF SecondLook, IndexInv
<1>2. verdict \in {"unsafe", "waiting", "safe"} /\ inspection'.verdict = verdict
  BY <1>1, SaysFacts
<1>3. ~refused /\ settled /\ (verdict = "safe" => ~inspection.waiting)
  BY <1>2
<1> HIDE DEF verdict, refused
<1>4. PICK a \in inspection.agents : a[1] = Root
  BY <1>1 DEF InspectionInv, Asked
<1>5. Root \notin tombstones
  BY <1>3, <1>4
<1>6. ASSUME verdict = "safe", NEW s \in Tree \cap (busy \cup job),
             Upwards(s, Family) \cap Unlisted = {}
      PROVE  FALSE
  <2>1. s \in live /\ s \in Family
    BY <1>1, <1>6 DEF IndexTypeOK
  <2>2. s \in LiveTree({Root} \cup inspection.listed)
    BY <1>1, <1>6, <2>1, LiveIsFound
  <2>3. s \in inspection.required
    BY <1>3, <2>1, <2>2 DEF refused, NoNewcomers
  <2>4. PICK b \in inspection.agents : b[1] = s
    BY <1>1, <1>3, <1>6, <2>3 DEF InspectionInv, Asked
  <2>5. gen[s] = b[2] /\ AtRest(s, b[2]) /\ s \notin job
    BY <1>3, <2>1, <2>4 DEF SameGeneration
  <2> QED
    BY <1>6, <2>1, <2>5 DEF AtRest, IsCurrent
<1> QED
  BY <1>1, <1>2, <1>5, <1>6 DEF OrphansAreMarked

\* The claim of SafeIsQuiet about one step.
LEMMA SafeStep ==
  ASSUME IndexInv, TreeAssumption, ResolveNext \/ InspectNext,
         inspection'.verdict \in {"safe", "waiting"}, inspection.verdict = "none"
  PROVE  /\ Tree \cap orphaned = {}
         /\ inspection'.verdict = "safe" =>
              \A s \in Tree \cap (busy \cup job) : Upwards(s, Family) \cap Unlisted # {}
<1>1. CASE SecondLook
  BY <1>1, SecondLookIsRight
<1>2. CASE Asks
  <2>1. \/ Says("unsafe")
        \/ inspection' = [Idle EXCEPT !.pc = "look", !.agents = {<<Root, Candidate(Root)>>}]
    BY <1>2 DEF Asks
  <2>2. ~Says("unsafe")
    BY SaysFacts
  <2> QED
    BY <2>1, <2>2 DEF Idle
<1>3. CASE ListFails
  BY <1>3, SaysFacts DEF ListFails
<1>4. CASE FirstLook \/ Lists
  <2>1. IndexInv' /\ ~Says("unsafe")
    BY <1>4, FirstLookInv, ListsInv, SaysFacts
  <2>2. inspection'.pc # "none"
    BY <1>4, <2>1, FirstLookInv, ListsInv
  <2> QED
    BY <2>1, <2>2 DEF IndexInv, InspectionInv
<1>5. CASE UNCHANGED inspection
  BY <1>5
<1>6. \/ SecondLook \/ Asks \/ Lists \/ ListFails \/ FirstLook \/ UNCHANGED inspection
  BY DEF ResolveNext, InspectNext, HostNext, Materializes, WakesUp, TurnEnds, Probes, Admits, RowChanges,
         StartsResolving, Locates, ReadsRow, ProbeFails, Decides, Resolves,
         Describes, Clears, StartsJob, EndsJob, TearsDown, Orphans
<1> QED
  BY <1>1, <1>2, <1>3, <1>4, <1>5, <1>6

\* Whatever came up, ended or vanished between the two looks of safeToInspect and
\* while either list of descendants was on its way, a session is called safe only
\* when no Agent of its tree is at work or has a job, but for one below a session
\* that is described and was not listed; and it is called safe, or waiting for a
\* descendant, only if no work of its tree was ever orphaned.
THEOREM SafeMeansQuiet == Spec => SafeIsQuiet
<1> DEFINE A == inspection'.verdict \in {"safe", "waiting"} /\ inspection.verdict = "none"
                => /\ Tree \cap orphaned = {}
                   /\ inspection'.verdict = "safe" =>
                        \A s \in Tree \cap (busy \cup job) : Upwards(s, Family) \cap Unlisted # {}
<1>1. IndexInv /\ [Next]_pluginVars => [A]_indexVars
  BY SafeStep, TreeAssumption DEF Next, pluginVars
<1>2. [][A]_indexVars => SafeIsQuiet
  BY PTL DEF SafeIsQuiet
<1> HIDE DEF A
<1> QED
  BY <1>1, <1>2, IndexHolds, PTL DEF Spec

-----------------------------------------------------------------------------
(* DispatchLifecycle: what the maps, the tasks and the Host agree on.      *)

IsMap(m, V) ==
  /\ m \in Seq(Sessions \X V)
  /\ \A i, j \in DOMAIN m : m[i][1] = m[j][1] => i = j

Tasks ==
  [pc : {"consume"}, sess : Sessions, reg : Nat, cand : {None}]
    \cup [pc : {"settle"}, sess : Sessions, reg : Nat,
          cand : [disp : Nat \ {0}, end : EpochEnds, outcome : {"completed", "failed", "unknown"}]]

LifecycleTypeOK ==
  /\ epoch \in [Sessions -> Nat] /\ state \in [Sessions -> {"none", "live"} \cup Stops]
  /\ target \in Seq(Sessions) /\ ranIn \in [1..Len(target) -> Nat]
  /\ ended \subseteq EpochEnds
  /\ IsMap(epochs, Nat \ {0}) /\ IsMap(pending, Registrations)
  /\ IsMap(buffered, BufferedEnds) /\ IsMap(outcomes, Outcomes)
  /\ attached \subseteq [sess : Sessions, epoch : Nat \cup {None}, outcome : {None, "completed", "failed"}]
  /\ registrations \in Nat /\ disposed \in BOOLEAN
  /\ awaited \in {None, Len(target)} /\ published \subseteq 1..Len(target)
  /\ awaited # None => Len(target) > 0
  /\ tasks \subseteq Tasks /\ lost \subseteq Sessions
  /\ noted \in Nat \cup {None} /\ forgotten \subseteq {"retired", "credited"}

\* An end of epoch e of session s, if it is the latest, is how s ended.
HowItEnded(s, e, stop) == e <= epoch[s] /\ (e = epoch[s] => state[s] = stop)
Completed(s, e) == \E a \in attached : a.sess = s /\ a.epoch = e /\ a.outcome = "completed"

\* The Host: what has not begun yet has no epoch; a dispatch ran in an epoch
\* that has been; an end to announce is an end that was.
HostIsSound ==
  /\ \A s \in Sessions : state[s] = "none" <=> epoch[s] = 0
  /\ \A d \in 1..Len(target) : ranIn[d] <= epoch[target[d]]
  /\ \A end \in ended : HowItEnded(end.sess, end.epoch, end.stop)

\* The maps know the current epoch, or one of their entries was dropped.
MapsFollow ==
  /\ disposed => epochs = <<>> /\ pending = <<>> /\ buffered = <<>> /\ outcomes = <<>>
  /\ \A s \in Keys(epochs) : Value(epochs, s) = epoch[s]
  /\ ~disposed => \A s \in Sessions \ lost : epoch[s] > 0 => s \in Keys(epochs)
  /\ \A s \in Keys(buffered) :
       LET b == Value(buffered, s)
       IN  HowItEnded(s, b.epoch, b.stop) /\ (b.old => s \in lost)
  /\ \A s \in Keys(outcomes) :
       Value(outcomes, s).outcome = "completed" => Completed(s, Value(outcomes, s).epoch)

\* A registration is of a published dispatch to its session, the awaited one's of
\* the epoch noted; the end it holds is of its epoch.
RegistrationsFit ==
  \A s \in Keys(pending) :
    LET r == Value(pending, s)
    IN  /\ r.sess = s /\ r.disp \in published /\ target[r.disp] = s /\ r.reg <= registrations
        /\ r.disp = awaited => r.epoch = noted
        /\ r.end # None => /\ r.end.sess = s /\ (r.epoch = None \/ r.end.epoch = r.epoch)
                           /\ HowItEnded(s, r.end.epoch, r.end.stop)

\* What a task holds was true of its registration when it looked.
TasksFit ==
  \A t \in tasks :
    /\ t.reg <= registrations
    /\ t.pc = "settle" =>
         /\ t.cand.disp \in published /\ target[t.cand.disp] = t.sess
         /\ t.cand.disp = awaited => IF noted = None THEN t.cand.outcome # "completed"
                                     ELSE t.cand.end.epoch = noted
         /\ HowItEnded(t.sess, t.cand.end.epoch, t.cand.end.stop)
         /\ t.cand.outcome = "completed" => Completed(t.sess, t.cand.end.epoch)
         /\ t.sess \in Keys(pending) /\ Value(pending, t.sess).reg = t.reg
              => t.cand.disp = Value(pending, t.sess).disp

\* The epoch of the registration has been, and without one the first epoch of
\* the session takes the message.
NotedFits(s) ==
  IF noted = None THEN (epoch[s] = 0 /\ ranIn[awaited] = 0) \/ ranIn[awaited] = 1
  ELSE noted \in Nat \ {0} /\ noted <= epoch[s]

\* The registration of the awaited dispatch is good for the epoch of its session:
\* that has the message or may take it, and nothing says that it has completed.
Held(s) ==
  /\ noted \in {None, epoch[s]} /\ ranIn[awaited] \in {0, epoch[s]} /\ state[s] # "completed"
  /\ noted # None => ~Completed(s, noted)

Coming(s) == \E end \in ended : end.sess = s /\ end.epoch = epoch[s]
InBuffer(s) == s \in Keys(buffered) /\ Value(buffered, s).epoch = epoch[s]
AtWork(s) ==
  LET r == Value(pending, s)
  IN  \E t \in tasks : t.sess = s /\ t.reg = r.reg /\ (t.pc = "consume" => r.end # None)
HasFailed(s) == ranIn[awaited] = epoch[s] /\ state[s] = "error"

\* The dispatch the engine awaits.  Before it is published, the end of a failed
\* epoch is with the Host or in the buffer; afterwards it is registered, and the
\* end is with the Host or a task is at it.
Watched(s) ==
  IF awaited \notin published
  THEN HasFailed(s) => Coming(s) \/ InBuffer(s)
  ELSE /\ NotedFits(s)
       /\ Held(s) => s \in Keys(pending) /\ Value(pending, s).disp = awaited
       /\ Held(s) /\ HasFailed(s) => Coming(s) \/ AtWork(s)

AwaitedIsWatched ==
  awaited # None /\ ~disposed /\ forgotten = {} =>
    \A s \in Sessions \ lost : s = target[awaited] => Watched(s)

LifecycleInv ==
  /\ LifecycleTypeOK /\ HostIsSound /\ MapsFollow /\ RegistrationsFit /\ TasksFit
  /\ AwaitedIsWatched

LEMMA MapEntry ==
  ASSUME NEW V, NEW m, IsMap(m, V), NEW i \in DOMAIN m
  PROVE  /\ m[i] = <<m[i][1], m[i][2]>> /\ m[i][1] \in Sessions /\ m[i][2] \in V
         /\ m[i][1] \in Keys(m) /\ Value(m, m[i][1]) = m[i][2]
<1>1. m[i] \in Sessions \X V
  BY DEF IsMap
<1>2. m[i] = <<m[i][1], m[i][2]>> /\ m[i][1] \in Sessions /\ m[i][2] \in V
  BY <1>1
<1>3. m[i][1] \in Keys(m)
  BY DEF Keys
<1> DEFINE j == CHOOSE k \in DOMAIN m : m[k][1] = m[i][1]
<1>4. j \in DOMAIN m /\ m[j][1] = m[i][1]
  OBVIOUS
<1>5. j = i
  BY <1>4 DEF IsMap
<1>6. Value(m, m[i][1]) = m[j][2]
  BY <1>3 DEF Value
<1> QED
  BY <1>2, <1>3, <1>5, <1>6

LEMMA MapKey ==
  ASSUME NEW V, NEW m, IsMap(m, V), NEW s \in Keys(m)
  PROVE  /\ s \in Sessions /\ Value(m, s) \in V
         /\ \E i \in DOMAIN m : m[i] = <<s, Value(m, s)>> /\ m[i][1] = s
<1>1. PICK i \in DOMAIN m : m[i][1] = s
  BY DEF Keys
<1> QED
  BY <1>1, MapEntry

LEMMA NoKey ==
  ASSUME NEW m, NEW s
  PROVE  Value(m, s) # None => s \in Keys(m)
BY DEF Value

\* What of m is still in m1.
Shrinks(m, m1, V) ==
  /\ IsMap(m1, V) /\ Keys(m1) \subseteq Keys(m)
  /\ \A s \in Keys(m1) : Value(m1, s) = Value(m, s)

LEMMA FewerEntries ==
  ASSUME NEW V, NEW m, NEW m1, IsMap(m, V), IsMap(m1, V),
         \A i \in DOMAIN m1 : \E j \in DOMAIN m : m1[i] = m[j]
  PROVE  Shrinks(m, m1, V)
<1> SUFFICES ASSUME NEW s \in Keys(m1)
             PROVE  s \in Keys(m) /\ Value(m1, s) = Value(m, s)
  BY DEF Shrinks
<1>1. PICK i \in DOMAIN m1 : m1[i] = <<s, Value(m1, s)>> /\ m1[i][1] = s
  BY MapKey
<1>2. PICK j \in DOMAIN m : m1[i] = m[j]
  OBVIOUS
<1>3. m[j][1] = s /\ m[j][2] = Value(m1, s)
  BY <1>1, <1>2
<1> QED
  BY <1>3, MapEntry

LEMMA MapWith ==
  ASSUME NEW V, NEW m, IsMap(m, V), NEW s \in Sessions, NEW v \in V
  PROVE  /\ IsMap(With(m, s, v), V) /\ Keys(With(m, s, v)) = Keys(m) \cup {s}
         /\ Value(With(m, s, v), s) = v
         /\ \A x \in Keys(m) \ {s} : Value(With(m, s, v), x) = Value(m, x)
<1> DEFINE w == With(m, s, v)
<1>1. CASE s \in Keys(m)
  <2>1. w = [i \in DOMAIN m |-> IF m[i][1] = s THEN <<s, v>> ELSE m[i]]
    BY <1>1 DEF With
  <2>2. /\ w \in Seq(Sessions \X V) /\ DOMAIN w = DOMAIN m
        /\ \A i \in DOMAIN m : w[i][1] = m[i][1]
        /\ \A i \in DOMAIN m : w[i] = IF m[i][1] = s THEN <<s, v>> ELSE m[i]
    BY <2>1, MapEntry DEF IsMap
  <2> HIDE DEF w
  <2>3. IsMap(w, V)
    BY <2>2 DEF IsMap
  <2>4. Keys(w) = Keys(m)
    BY <2>2 DEF Keys
  <2>5. \A x \in Keys(w) : \E i \in DOMAIN m : w[i] = <<x, Value(w, x)>> /\ w[i][1] = x
    BY <2>2, <2>3, MapKey
  <2>6. Value(w, s) = v
    BY <1>1, <2>2, <2>4, <2>5
  <2>7. ASSUME NEW x \in Keys(m) \ {s} PROVE Value(w, x) = Value(m, x)
    <3>1. PICK i \in DOMAIN m : w[i] = <<x, Value(w, x)>> /\ w[i][1] = x
      BY <2>4, <2>5
    <3>2. m[i][1] = x /\ m[i] = w[i]
      BY <2>2, <3>1
    <3> QED
      BY <3>1, <3>2, MapEntry
  <2> QED
    BY <1>1, <2>3, <2>4, <2>6, <2>7 DEF w
<1>2. CASE s \notin Keys(m)
  <2>1. w = Append(m, <<s, v>>)
    BY <1>2 DEF With
  <2>2. m \in Seq(Sessions \X V) /\ Len(m) \in Nat /\ DOMAIN m = 1..Len(m)
    BY DEF IsMap
  <2>3. /\ w \in Seq(Sessions \X V) /\ DOMAIN w = 1..(Len(m) + 1)
        /\ \A i \in DOMAIN m : w[i] = m[i]
        /\ w[Len(m) + 1] = <<s, v>>
    BY <2>1, <2>2
  <2> HIDE DEF w
  <2>4. \A i \in DOMAIN m : m[i][1] # s
    BY <1>2 DEF Keys
  <2>5. \A i \in DOMAIN w : i \in DOMAIN m \/ i = Len(m) + 1
    BY <2>2, <2>3
  <2>6. IsMap(w, V)
    <3>1. w[Len(m) + 1][1] = s
      BY <2>3
    <3> QED
      BY <2>3, <2>4, <2>5, <3>1 DEF IsMap
  <2>7. /\ \A i \in DOMAIN m : i \in DOMAIN w /\ w[i][1] = m[i][1] /\ w[i][2] = m[i][2]
        /\ Len(m) + 1 \in DOMAIN w /\ w[Len(m) + 1][1] = s /\ w[Len(m) + 1][2] = v
    BY <2>2, <2>3
  <2>8. Keys(w) = Keys(m) \cup {s}
    BY <2>5, <2>7 DEF Keys
  <2>9. Value(w, s) = v
    BY <2>6, <2>7, MapEntry
  <2>10. ASSUME NEW x \in Keys(m) \ {s} PROVE Value(w, x) = Value(m, x)
    <3>1. PICK i \in DOMAIN m : m[i] = <<x, Value(m, x)>> /\ m[i][1] = x
      BY MapKey
    <3> QED
      BY <2>6, <2>7, <3>1, MapEntry
  <2> QED
    BY <2>6, <2>8, <2>9, <2>10 DEF w
<1> QED
  BY <1>1, <1>2

LEMMA LeastNumber ==
  ASSUME NEW T \in SUBSET Nat, T # {}
  PROVE  \E x \in T : \A y \in T : x <= y
<1> DEFINE R == OpToRel(<, Nat)
<1>1. IsWellFoundedOn(R, Nat)
  BY NatLessThanWellFounded
<1> HIDE DEF R
<1>2. PICK x \in T : \A y \in T : ~(<<y, x>> \in R)
  BY <1>1, WFMin
<1>3. ASSUME NEW y \in T, y < x PROVE <<y, x>> \in R
  <2>1. <<y, x>> \in Nat \X Nat /\ <<y, x>>[1] = y /\ <<y, x>>[2] = x
    OBVIOUS
  <2> QED
    BY <1>3, <2>1 DEF R, OpToRel
<1>4. \A y \in T : ~(y < x)
  BY <1>2, <1>3
<1> QED
  BY <1>4

\* The prefix of m kept so far, and the recursion by which it is computed.
KeptBefore(m, keep, f, n) ==
  f[n] = IF n = 0 THEN <<>> ELSE IF n \in keep THEN Append(f[n - 1], m[n]) ELSE f[n - 1]

LEMMA KeptUnfolds ==
  ASSUME NEW m, NEW keep, Len(m) \in Nat
  PROVE  \E f : Kept(m, keep) = f[Len(m)] /\ \A n \in 0..Len(m) : KeptBefore(m, keep, f, n)
<1> DEFINE L == Len(m)
           At(f, n) == IF n = 0 THEN <<>> ELSE IF n \in keep THEN Append(f[n - 1], m[n]) ELSE f[n - 1]
           Found(f, k) == \A n \in 0..k : f[n] = At(f, n)
           Missing == {k \in 0..L : ~\E f : Found(f, k)}
           kept == CHOOSE f : f = [n \in 0..L |-> At(f, n)]
<1>1. Kept(m, keep) = kept[L]
  BY DEF Kept
<1>2. Missing = {}
  <2> SUFFICES ASSUME Missing # {} PROVE FALSE
    OBVIOUS
  <2>1. PICK k \in Missing : \A y \in Missing : k <= y
    <3>1. Missing \in SUBSET Nat
      OBVIOUS
    <3> HIDE DEF Missing
    <3> QED
      BY <3>1, LeastNumber
  <2>2. CASE k = 0
    <3> DEFINE f == [n \in {0} |-> <<>>]
    <3>1. Found(f, k)
      BY <2>2
    <3> QED
      BY <2>1, <3>1
  <2>3. CASE k # 0
    <3>1. k \in Nat /\ k - 1 \in 0..L /\ k - 1 \notin Missing
      <4>1. k \in 0..L /\ L \in Nat
        BY <2>1
      <4> HIDE DEF Missing, L
      <4> QED
        BY <2>1, <2>3, <4>1
    <3>2. PICK f : Found(f, k - 1)
      BY <3>1
    <3> DEFINE g == [n \in 0..k |-> IF n = k THEN At(f, k) ELSE f[n]]
    <3>3. \A n \in 0..(k - 1) : g[n] = f[n] /\ At(g, n) = At(f, n)
      <4> SUFFICES ASSUME NEW n \in 0..(k - 1) PROVE g[n] = f[n] /\ At(g, n) = At(f, n)
        OBVIOUS
      <4>1. n \in 0..k /\ n # k /\ (n # 0 => n - 1 \in 0..k /\ n - 1 # k)
        BY <3>1
      <4> QED
        BY <4>1
    <3>4. g[k] = At(g, k)
      <4>1. k \in 0..k /\ k - 1 \in 0..k /\ k - 1 # k
        BY <3>1
      <4> QED
        BY <4>1
    <3>5. Found(g, k)
      <4> SUFFICES ASSUME NEW n \in 0..k, n # k PROVE g[n] = At(g, n)
        BY <3>4
      <4>1. n \in 0..(k - 1)
        BY <3>1
      <4> QED
        BY <3>2, <3>3, <4>1
    <3> QED
      BY <2>1, <3>5
  <2> QED
    BY <2>2, <2>3
<1>3. PICK f : Found(f, L)
  <2>1. L \in 0..L
    OBVIOUS
  <2> QED
    BY <1>2, <2>1
<1> DEFINE w == [n \in 0..L |-> f[n]]
<1>4. w = [n \in 0..L |-> At(w, n)]
  <2>1. ASSUME NEW n \in 0..L PROVE w[n] = At(w, n)
    <3>1. n # 0 => n - 1 \in 0..L
      OBVIOUS
    <3> QED
      BY <1>3, <3>1
  <2> QED
    BY <2>1
<1>5. kept = [n \in 0..L |-> At(kept, n)]
  BY <1>4
<1> HIDE DEF kept
<1>6. \A n \in 0..L : KeptBefore(m, keep, kept, n)
  BY <1>5 DEF KeptBefore
<1> QED
  BY <1>1, <1>6

\* Kept, position by position: every entry of the result is one of those to
\* keep, and each of these has its place in it.
KeptSoFar(V, m, keep, k, n) ==
  /\ IsMap(k, V)
  /\ \A i \in DOMAIN k : \E j \in keep : j <= n /\ k[i] = m[j]
  /\ \A j \in keep : j <= n => \E i \in DOMAIN k : k[i] = m[j]

LEMMA KeptOneMore ==
  ASSUME NEW V, NEW m, IsMap(m, V), NEW keep \in SUBSET DOMAIN m, NEW n \in 1..Len(m),
         NEW k, KeptSoFar(V, m, keep, k, n - 1)
  PROVE  KeptSoFar(V, m, keep, IF n \in keep THEN Append(k, m[n]) ELSE k, n)
<1>1. Len(m) \in Nat /\ DOMAIN m = 1..Len(m) /\ k \in Seq(Sessions \X V)
  BY DEF IsMap, KeptSoFar
<1>2. \A j \in keep : j \in Nat /\ (j <= n <=> j <= n - 1 \/ j = n)
  BY <1>1
<1>3. CASE n \notin keep
  BY <1>2, <1>3 DEF KeptSoFar
<1>4. CASE n \in keep
  <2> DEFINE w == Append(k, m[n])
  <2>1. m[n] \in Sessions \X V
    BY <1>1 DEF IsMap
  <2>2. Len(k) \in Nat /\ DOMAIN k = 1..Len(k)
    BY <1>1
  <2>3. /\ w \in Seq(Sessions \X V) /\ DOMAIN w = 1..(Len(k) + 1)
        /\ \A i \in DOMAIN k : w[i] = k[i]
        /\ w[Len(k) + 1] = m[n]
    BY <1>1, <2>1, <2>2
  <2> HIDE DEF w
  <2>4. \A i \in DOMAIN w : i \in DOMAIN k \/ i = Len(k) + 1
    BY <2>2, <2>3
  <2>5. \A i \in DOMAIN k : k[i][1] # m[n][1]
    <3> SUFFICES ASSUME NEW i \in DOMAIN k PROVE k[i][1] # m[n][1]
      OBVIOUS
    <3>1. PICK j \in keep : j <= n - 1 /\ k[i] = m[j]
      BY DEF KeptSoFar
    <3>2. j # n /\ j \in DOMAIN m /\ n \in DOMAIN m
      BY <1>1, <1>2, <3>1
    <3> QED
      BY <3>1, <3>2 DEF IsMap
  <2>6. IsMap(w, V)
    <3>1. \A i, j \in DOMAIN k : k[i][1] = k[j][1] => i = j
      BY DEF KeptSoFar, IsMap
    <3> QED
      BY <2>3, <2>4, <2>5, <3>1 DEF IsMap
  <2>7. \A i \in DOMAIN w : \E j \in keep : j <= n /\ w[i] = m[j]
    <3> SUFFICES ASSUME NEW i \in DOMAIN w PROVE \E j \in keep : j <= n /\ w[i] = m[j]
      OBVIOUS
    <3>1. CASE i \in DOMAIN k
      BY <1>2, <2>3, <3>1 DEF KeptSoFar
    <3>2. CASE i = Len(k) + 1
      BY <1>2, <1>4, <2>3, <3>2
    <3> QED
      BY <2>4, <3>1, <3>2
  <2>8. \A j \in keep : j <= n => \E i \in DOMAIN w : w[i] = m[j]
    <3> SUFFICES ASSUME NEW j \in keep, j <= n PROVE \E i \in DOMAIN w : w[i] = m[j]
      OBVIOUS
    <3>1. CASE j = n
      <4>1. Len(k) + 1 \in DOMAIN w
        BY <2>2, <2>3
      <4> QED
        BY <2>3, <3>1, <4>1
    <3>2. CASE j <= n - 1
      <4>1. PICK i \in DOMAIN k : k[i] = m[j]
        BY <3>2 DEF KeptSoFar
      <4>2. i \in DOMAIN w
        BY <2>2, <2>3
      <4> QED
        BY <2>3, <4>1, <4>2
    <3> QED
      BY <1>2, <3>1, <3>2
  <2> QED
    BY <1>4, <2>6, <2>7, <2>8 DEF KeptSoFar, w
<1> QED
  BY <1>3, <1>4

LEMMA KeptEntries ==
  ASSUME NEW V, NEW m, IsMap(m, V), NEW keep \in SUBSET DOMAIN m
  PROVE  KeptSoFar(V, m, keep, Kept(m, keep), Len(m))
<1>1. Len(m) \in Nat /\ DOMAIN m = 1..Len(m)
  BY DEF IsMap
<1>2. PICK f : Kept(m, keep) = f[Len(m)] /\ \A n \in 0..Len(m) : KeptBefore(m, keep, f, n)
  BY <1>1, KeptUnfolds
<1> DEFINE Wrong == {n \in 0..Len(m) : ~KeptSoFar(V, m, keep, f[n], n)}
<1>3. Wrong = {}
  <2> SUFFICES ASSUME Wrong # {} PROVE FALSE
    OBVIOUS
  <2>1. PICK n \in Wrong : \A y \in Wrong : n <= y
    <3>1. Wrong \in SUBSET Nat
      OBVIOUS
    <3> HIDE DEF Wrong
    <3> QED
      BY <3>1, LeastNumber
  <2>2. n \in 0..Len(m) /\ n \in Nat /\ 0 \in 0..Len(m)
    BY <1>1, <2>1
  <2>3. CASE n = 0
    <3>1. f[0] = <<>>
      BY <1>2, <2>2 DEF KeptBefore
    <3>2. IsMap(<<>>, V)
      BY DEF IsMap
    <3>3. \A j \in keep : ~(j <= 0)
      BY <1>1
    <3>4. KeptSoFar(V, m, keep, f[0], 0)
      BY <3>1, <3>2, <3>3 DEF KeptSoFar
    <3> QED
      BY <2>1, <2>3, <3>4
  <2>4. CASE n # 0
    <3>1. n \in 1..Len(m) /\ n - 1 \in 0..Len(m) /\ n - 1 \notin Wrong
      <4> HIDE DEF Wrong
      <4> QED
        BY <1>1, <2>1, <2>2, <2>4
    <3>2. KeptSoFar(V, m, keep, f[n - 1], n - 1)
      BY <3>1
    <3>3. f[n] = IF n \in keep THEN Append(f[n - 1], m[n]) ELSE f[n - 1]
      BY <1>2, <2>2, <2>4 DEF KeptBefore
    <3>4. KeptSoFar(V, m, keep, f[n], n)
      BY <3>1, <3>2, <3>3, KeptOneMore
    <3> QED
      BY <2>1, <3>4
  <2> QED
    BY <2>3, <2>4
<1> QED
  BY <1>1, <1>2, <1>3

LEMMA MapKept ==
  ASSUME NEW V, NEW m, IsMap(m, V), NEW keep \in SUBSET DOMAIN m
  PROVE  Shrinks(m, Kept(m, keep), V) /\ Keys(Kept(m, keep)) = {m[j][1] : j \in keep}
<1> DEFINE k == Kept(m, keep)
<1>1. /\ IsMap(k, V) /\ DOMAIN m = 1..Len(m) /\ Len(m) \in Nat
      /\ \A i \in DOMAIN k : \E j \in keep : k[i] = m[j]
      /\ \A j \in keep : j <= Len(m) => \E i \in DOMAIN k : k[i] = m[j]
  <2>1. m \in Seq(Sessions \X V)
    BY DEF IsMap
  <2>2. DOMAIN m = 1..Len(m) /\ Len(m) \in Nat
    BY <2>1
  <2>3. KeptSoFar(V, m, keep, k, Len(m))
    BY KeptEntries
  <2> QED
    BY <2>2, <2>3 DEF KeptSoFar
<1>2. \A j \in keep : j <= Len(m)
  BY <1>1
<1> HIDE DEF k
<1>3. Shrinks(m, k, V)
  BY <1>1, FewerEntries
<1>4. Keys(k) = {m[j][1] : j \in keep}
  BY <1>1, <1>2 DEF Keys
<1> QED
  BY <1>3, <1>4 DEF k

LEMMA MapWithout ==
  ASSUME NEW V, NEW m, IsMap(m, V), NEW s
  PROVE  Shrinks(m, Without(m, s), V) /\ Keys(Without(m, s)) = Keys(m) \ {s}
<1> DEFINE keep == {i \in DOMAIN m : m[i][1] # s}
<1>1. Without(m, s) = Kept(m, keep) /\ keep \in SUBSET DOMAIN m
  BY DEF Without
<1>2. {m[j][1] : j \in keep} = Keys(m) \ {s}
  BY DEF Keys
<1> HIDE DEF keep
<1> QED
  BY <1>1, <1>2, MapKept

LEMMA MapSwept ==
  ASSUME NEW V, NEW m, IsMap(m, V)
  PROVE  /\ Shrinks(m, Swept(m), V)
         /\ Keys(Swept(m)) = {s \in Keys(m) : ~Value(m, s).old}
<1> DEFINE keep == {i \in DOMAIN m : ~m[i][2].old}
<1>1. Swept(m) = Kept(m, keep) /\ keep \in SUBSET DOMAIN m
  BY DEF Swept
<1>2. {m[j][1] : j \in keep} = {s \in Keys(m) : ~Value(m, s).old}
  <2>1. ASSUME NEW j \in keep PROVE m[j][1] \in Keys(m) /\ ~Value(m, m[j][1]).old
    BY MapEntry
  <2>2. ASSUME NEW s \in Keys(m), ~Value(m, s).old PROVE \E j \in keep : m[j][1] = s
    <3>1. PICK i \in DOMAIN m : m[i] = <<s, Value(m, s)>> /\ m[i][1] = s
      BY MapKey
    <3>2. i \in keep
      BY <2>2, <3>1, MapEntry
    <3> QED
      BY <3>1, <3>2
  <2> QED
    BY <2>1, <2>2
<1> HIDE DEF keep
<1> QED
  BY <1>1, <1>2, MapKept

LEMMA MapTail ==
  ASSUME NEW V, NEW m, IsMap(m, V), m # <<>>
  PROVE  Shrinks(m, Tail(m), V)
<1>1. m \in Seq(Sessions \X V) /\ Len(m) \in Nat \ {0} /\ DOMAIN m = 1..Len(m)
  BY DEF IsMap
<1>2. /\ Tail(m) \in Seq(Sessions \X V) /\ DOMAIN Tail(m) = 1..(Len(m) - 1)
      /\ \A i \in 1..(Len(m) - 1) : Tail(m)[i] = m[i + 1] /\ i + 1 \in DOMAIN m
  BY <1>1
<1>3. IsMap(Tail(m), V)
  <2> SUFFICES ASSUME NEW i \in DOMAIN Tail(m), NEW j \in DOMAIN Tail(m),
                      Tail(m)[i][1] = Tail(m)[j][1]
               PROVE  i = j
    BY <1>2 DEF IsMap
  <2>1. m[i + 1][1] = m[j + 1][1] /\ i + 1 \in DOMAIN m /\ j + 1 \in DOMAIN m
    BY <1>2
  <2>2. i + 1 = j + 1
    BY <2>1 DEF IsMap
  <2> QED
    BY <1>2, <2>2
<1> QED
  BY <1>2, <1>3, FewerEntries

LEMMA MapRoom ==
  ASSUME NEW V, NEW m, IsMap(m, V), NEW max \in Nat \ {0}, NEW s
  PROVE  Shrinks(m, Room(m, max, s), V) /\ (s \in Keys(m) => Room(m, max, s) = m)
<1>1. Shrinks(m, m, V)
  BY DEF Shrinks
<1>2. CASE Len(m) < max \/ s \in Keys(m)
  BY <1>1, <1>2 DEF Room
<1>3. CASE ~(Len(m) < max \/ s \in Keys(m))
  <2>1. m # <<>>
    BY <1>3
  <2> QED
    BY <1>3, <2>1, MapTail DEF Room
<1> QED
  BY <1>2, <1>3

\* HowItEnded after the step.
StillHowItEnded(s, e, stop) == e <= epoch'[s] /\ (e = epoch'[s] => state'[s] = stop)

\* The step makes no end untrue and takes no result back.
FactsStay ==
  /\ \A x \in Sessions, e \in Nat \ {0}, stop \in Stops :
       HowItEnded(x, e, stop) => StillHowItEnded(x, e, stop)
  /\ \A x, e : Completed(x, e) => Completed(x, e)'

LEMMA MapTypes ==
  ASSUME LifecycleTypeOK
  PROVE  /\ \A s \in Keys(epochs) : s \in Sessions /\ Value(epochs, s) \in Nat \ {0}
         /\ \A s \in Keys(pending) : s \in Sessions /\ Value(pending, s) \in Registrations
         /\ \A s \in Keys(buffered) : s \in Sessions /\ Value(buffered, s) \in BufferedEnds
         /\ \A s \in Keys(outcomes) : s \in Sessions /\ Value(outcomes, s) \in Outcomes
BY MapKey DEF LifecycleTypeOK

LEMMA EmptyMap ==
  ASSUME NEW V
  PROVE  IsMap(<<>>, V) /\ Keys(<<>>) = {}
BY DEF IsMap, Keys

LEMMA InitLifecycleInv ==
  ASSUME LifecycleInit
  PROVE  LifecycleInv
<1>1. LifecycleTypeOK
  <2>1. target = <<>> /\ ranIn = <<>> /\ Len(target) = 0
    BY DEF LifecycleInit
  <2>2. target \in Seq(Sessions) /\ ranIn \in [1..Len(target) -> Nat]
    BY <2>1
  <2>3. /\ epoch \in [Sessions -> Nat] /\ state \in [Sessions -> {"none", "live"} \cup Stops]
        /\ awaited = None /\ published = {} /\ tasks = {} /\ lost = {} /\ ended = {}
        /\ attached = {} /\ registrations \in Nat /\ disposed \in BOOLEAN
        /\ noted = 0 /\ forgotten = {}
    BY DEF LifecycleInit
  <2> QED
    BY <2>2, <2>3, EmptyMap DEF LifecycleInit, LifecycleTypeOK
<1>2. HostIsSound
  BY DEF LifecycleInit, HostIsSound
<1>3. MapsFollow
  BY EmptyMap DEF LifecycleInit, MapsFollow
<1>4. RegistrationsFit /\ TasksFit /\ AwaitedIsWatched
  BY EmptyMap DEF LifecycleInit, RegistrationsFit, TasksFit, AwaitedIsWatched
<1> QED
  BY <1>1, <1>2, <1>3, <1>4 DEF LifecycleInv

\* What is registered, and what a task holds, stays true while no dispatch is
\* added and none is registered.
LEMMA RegistrationsStay ==
  ASSUME LifecycleInv, UNCHANGED target, published \subseteq published',
         registrations <= registrations', registrations' \in Nat,
         awaited' = None \/ UNCHANGED <<awaited, noted>>,
         Shrinks(pending, pending', Registrations), FactsStay
  PROVE  RegistrationsFit'
<1>1. LifecycleTypeOK /\ RegistrationsFit
  BY DEF LifecycleInv
<1> SUFFICES ASSUME NEW x \in Keys(pending')
             PROVE LET r == Value(pending', x)
    IN  /\ r.sess = x /\ r.disp \in published' /\ target[r.disp] = x /\ r.reg <= registrations'
        /\ r.disp = awaited' => r.epoch = noted'
        /\ r.end # None => /\ r.end.sess = x /\ (r.epoch = None \/ r.end.epoch = r.epoch)
                           /\ StillHowItEnded(x, r.end.epoch, r.end.stop)
  BY DEF RegistrationsFit, HowItEnded, StillHowItEnded
<1> DEFINE r == Value(pending, x)
<1>2. x \in Keys(pending) /\ Value(pending', x) = r
  BY DEF Shrinks
<1>3. x \in Sessions /\ r \in Registrations
  BY <1>1, <1>2, MapTypes
<1>4. /\ r.sess = x /\ r.disp \in published /\ target[r.disp] = x /\ r.reg <= registrations
      /\ r.disp = awaited => r.epoch = noted
      /\ r.end # None => /\ r.end.sess = x /\ (r.epoch = None \/ r.end.epoch = r.epoch)
                         /\ HowItEnded(x, r.end.epoch, r.end.stop)
  BY <1>1, <1>2 DEF RegistrationsFit
<1> HIDE DEF r
<1>5. r.end # None => r.end.epoch \in Nat \ {0} /\ r.end.stop \in Stops
  BY <1>3 DEF Registrations, EpochEnds
<1>6. r.reg \in Nat /\ registrations \in Nat /\ r.disp # None
  BY <1>1, <1>3, LifecycleAssumption DEF Registrations, LifecycleTypeOK
<1>7. r.reg <= registrations'
  BY <1>4, <1>6
<1> QED
  BY <1>2, <1>3, <1>4, <1>5, <1>6, <1>7 DEF FactsStay

LEMMA TasksStay ==
  ASSUME LifecycleInv, UNCHANGED target, published \subseteq published',
         registrations <= registrations', registrations' \in Nat,
         awaited' = None \/ UNCHANGED <<awaited, noted>>,
         Shrinks(pending, pending', Registrations), FactsStay,
         tasks' \subseteq tasks
  PROVE  TasksFit'
<1>1. LifecycleTypeOK /\ TasksFit
  BY DEF LifecycleInv
<1> SUFFICES ASSUME NEW t \in tasks'
             PROVE  /\ t.reg <= registrations'
                    /\ t.pc = "settle" =>
                        /\ t.cand.disp \in published' /\ target[t.cand.disp] = t.sess
                        /\ t.cand.disp = awaited' => IF noted' = None THEN t.cand.outcome # "completed"
                                                     ELSE t.cand.end.epoch = noted'
                        /\ StillHowItEnded(t.sess, t.cand.end.epoch, t.cand.end.stop)
                        /\ t.cand.outcome = "completed" => Completed(t.sess, t.cand.end.epoch)'
                        /\ t.sess \in Keys(pending') /\ Value(pending', t.sess).reg = t.reg
                             => t.cand.disp = Value(pending', t.sess).disp
  BY DEF TasksFit, HowItEnded, StillHowItEnded, Completed
<1>2. t \in tasks /\ t \in Tasks
  BY <1>1 DEF LifecycleTypeOK
<1>3. t.reg <= registrations'
  BY <1>1, <1>2 DEF TasksFit, LifecycleTypeOK, Tasks
<1>4. ASSUME t.pc = "settle"
      PROVE  /\ t.cand.disp \in published /\ target[t.cand.disp] = t.sess
             /\ t.cand.disp = awaited => IF noted = None THEN t.cand.outcome # "completed"
                                         ELSE t.cand.end.epoch = noted
             /\ HowItEnded(t.sess, t.cand.end.epoch, t.cand.end.stop)
             /\ t.cand.outcome = "completed" => Completed(t.sess, t.cand.end.epoch)
             /\ t.sess \in Keys(pending) /\ Value(pending, t.sess).reg = t.reg
                  => t.cand.disp = Value(pending, t.sess).disp
             /\ t.sess \in Sessions /\ t.cand.end.epoch \in Nat \ {0} /\ t.cand.end.stop \in Stops
             /\ t.cand.disp # None
  BY <1>1, <1>2, <1>4, LifecycleAssumption DEF TasksFit, Tasks, EpochEnds
<1>5. t.sess \in Keys(pending') => t.sess \in Keys(pending) /\ Value(pending', t.sess) = Value(pending, t.sess)
  BY DEF Shrinks
<1>6. ASSUME t.pc = "settle", t.cand.outcome = "completed"
      PROVE  Completed(t.sess, t.cand.end.epoch)'
  BY <1>4, <1>6 DEF FactsStay
<1> HIDE DEF Completed
<1> QED
  BY <1>3, <1>4, <1>5, <1>6 DEF FactsStay

LEMMA PendingStays ==
  ASSUME LifecycleTypeOK
  PROVE  Shrinks(pending, pending, Registrations)
BY DEF LifecycleTypeOK, Shrinks

\* The awaited dispatch is a published one or the latest, and its session is one.
LEMMA AwaitedSession ==
  ASSUME LifecycleTypeOK, awaited # None
  PROVE  awaited \in 1..Len(target) /\ awaited = Len(target) /\ target[awaited] \in Sessions
<1>1. target \in Seq(Sessions) /\ Len(target) \in Nat /\ awaited = Len(target) /\ Len(target) > 0
  BY DEF LifecycleTypeOK
<1> QED
  BY <1>1

\* A step that leaves the dispatch, its epoch and what is known of it alone.
LEMMA WatchStays ==
  ASSUME LifecycleInv, awaited # None, ~disposed, forgotten = {},
         NEW x \in Sessions \ lost, x = target[awaited],
         UNCHANGED <<awaited, noted>>, awaited \in published' <=> awaited \in published,
         ranIn'[awaited] = ranIn[awaited], epoch'[x] = epoch[x], state'[x] = state[x],
         FactsStay,
         awaited \notin published /\ Coming(x) => Coming(x)' \/ InBuffer(x)',
         awaited \notin published /\ InBuffer(x) => InBuffer(x)',
         awaited \in published /\ x \in Keys(pending) /\ Value(pending, x).disp = awaited /\ Held(x)
           => /\ x \in Keys(pending') /\ Value(pending', x).disp = awaited
              /\ Coming(x) \/ AtWork(x) => Coming(x)' \/ AtWork(x)'
  PROVE  Watched(x)'
<1>1. Watched(x)
  BY DEF LifecycleInv, AwaitedIsWatched
<1>2. Held(x)' => Held(x)
  <2>1. \A e : Completed(x, e) => Completed(x, e)'
    BY DEF FactsStay
  <2>2. Completed(x, noted)' <=> \E a \in attached' : a.sess = x /\ a.epoch = noted' /\ a.outcome = "completed"
    BY DEF Completed
  <2>3. Completed(x, noted) => Completed(x, noted)'
    <3> PICK e : e = noted
      OBVIOUS
    <3>1. Completed(x, e)' => \E a \in attached' : a.sess = x /\ a.epoch = e /\ a.outcome = "completed"
      BY DEF Completed
    <3> QED
      BY <2>1, <2>2, <3>1
  <2> QED
    BY <2>3 DEF Held
<1>3. (NotedFits(x)' <=> NotedFits(x)) /\ (HasFailed(x)' <=> HasFailed(x))
  BY DEF NotedFits, HasFailed
<1> QED
  BY <1>1, <1>2, <1>3 DEF Watched

LEMMA StartsInv ==
  ASSUME LifecycleInv, NEW s \in Sessions, Starts(s)
  PROVE  LifecycleInv'
<1> DEFINE room == Room(epochs, PendingMax, s)
<1>1. LifecycleTypeOK /\ HostIsSound /\ MapsFollow /\ AwaitedIsWatched
  BY DEF LifecycleInv
<1>2. /\ target \in Seq(Sessions) /\ Len(target) \in Nat /\ DOMAIN target = 1..Len(target)
      /\ ranIn \in [1..Len(target) -> Nat] /\ epoch \in [Sessions -> Nat]
      /\ \A d \in 1..Len(target) : target[d] \in Sessions
  BY <1>1 DEF LifecycleTypeOK
<1>3. /\ epoch' \in [Sessions -> Nat] /\ epoch'[s] = epoch[s] + 1
      /\ \A x \in Sessions \ {s} : epoch'[x] = epoch[x] /\ state'[x] = state[x]
      /\ state' \in [Sessions -> {"none", "live"} \cup Stops] /\ state'[s] = "live" /\ state[s] # "live"
      /\ \A x \in Sessions : epoch[x] <= epoch'[x]
  <2>1. epoch' = [epoch EXCEPT ![s] = @ + 1] /\ state' = [state EXCEPT ![s] = "live"] /\ state[s] # "live"
    BY DEF Starts, Live
  <2> QED
    BY <1>1, <1>2, <2>1 DEF LifecycleTypeOK
<1>4. /\ ranIn' \in [1..Len(target) -> Nat]
      /\ \A d \in 1..Len(target) : ranIn[d] # 0 \/ target[d] # s => ranIn'[d] = ranIn[d]
      /\ \A d \in 1..Len(target) : target[d] = s /\ ranIn[d] = 0 => ranIn'[d] = epoch[s] + 1
  <2>1. ranIn' = [d \in DOMAIN ranIn |-> IF d \in Inbox(s) THEN epoch'[s] ELSE ranIn[d]]
    BY DEF Starts
  <2>2. \A d \in 1..Len(target) : d \in Inbox(s) <=> target[d] = s /\ ranIn[d] = 0
    BY <1>2 DEF Inbox
  <2> QED
    BY <1>2, <1>3, <2>1, <2>2
<1>5. /\ UNCHANGED <<target, ended, pending, buffered, outcomes, attached, registrations,
                     disposed, awaited, published, tasks, noted, forgotten>>
      /\ lost' = lost \cup (Keys(epochs) \ Keys(room))
      /\ epochs' = IF disposed THEN epochs ELSE With(room, s, epoch'[s])
  BY DEF Starts
<1>6. /\ IsMap(room, Nat \ {0}) /\ Keys(room) \subseteq Keys(epochs)
      /\ \A x \in Keys(room) : Value(room, x) = Value(epochs, x)
  BY <1>1, MapRoom, LifecycleAssumption DEF LifecycleTypeOK, Shrinks
<1> HIDE DEF room
<1>7. /\ IsMap(epochs', Nat \ {0})
      /\ disposed => epochs' = epochs
      /\ ~disposed => /\ Keys(epochs') = Keys(room) \cup {s} /\ Value(epochs', s) = epoch'[s]
                      /\ \A x \in Keys(room) \ {s} : Value(epochs', x) = Value(epochs, x)
  <2>1. epoch'[s] \in Nat \ {0}
    BY <1>2, <1>3
  <2> QED
    BY <1>1, <1>5, <1>6, <2>1, MapWith DEF LifecycleTypeOK
<1>8. lost' \subseteq Sessions /\ lost \subseteq lost'
  BY <1>1, <1>5, MapTypes DEF LifecycleTypeOK
<1>9. LifecycleTypeOK'
  BY <1>1, <1>3, <1>4, <1>5, <1>7, <1>8 DEF LifecycleTypeOK
<1>10. ASSUME NEW x \in Sessions, NEW e \in Nat, NEW stop, HowItEnded(x, e, stop)
       PROVE  StillHowItEnded(x, e, stop)
  <2>1. e <= epoch[x] /\ (e = epoch[x] => state[x] = stop) /\ epoch[x] \in Nat
    BY <1>2, <1>10 DEF HowItEnded
  <2>2. CASE x = s
    <3>1. e <= epoch'[x] /\ e # epoch'[x]
      BY <1>3, <2>1, <2>2
    <3> QED
      BY <3>1 DEF StillHowItEnded
  <2>3. CASE x # s
    <3>1. epoch'[x] = epoch[x] /\ state'[x] = state[x]
      BY <1>3, <2>3
    <3> QED
      BY <2>1, <3>1 DEF StillHowItEnded
  <2> QED
    BY <2>2, <2>3
<1>11. HostIsSound'
  <2>1. ASSUME NEW x \in Sessions PROVE state'[x] = "none" <=> epoch'[x] = 0
    <3>1. (state[x] = "none" <=> epoch[x] = 0) /\ epoch[x] \in Nat
      BY <1>1, <1>2 DEF HostIsSound
    <3>2. CASE x = s
      <4>1. state'[x] = "live" /\ epoch'[x] = epoch[x] + 1
        BY <1>3, <3>2
      <4> QED
        BY <3>1, <4>1
    <3>3. CASE x # s
      <4>1. epoch'[x] = epoch[x] /\ state'[x] = state[x]
        BY <1>3, <3>3
      <4> QED
        BY <3>1, <4>1
    <3> QED
      BY <3>2, <3>3
  <2>2. \A d \in 1..Len(target) : ranIn'[d] <= epoch'[target[d]]
    <3> SUFFICES ASSUME NEW d \in 1..Len(target) PROVE ranIn'[d] <= epoch'[target[d]]
      OBVIOUS
    <3>1. target[d] \in Sessions /\ ranIn[d] <= epoch[target[d]] /\ ranIn[d] \in Nat
      BY <1>1, <1>2 DEF HostIsSound
    <3>2. /\ epoch[target[d]] \in Nat /\ epoch'[target[d]] \in Nat
          /\ epoch[target[d]] <= epoch'[target[d]] /\ epoch'[s] = epoch[s] + 1
      BY <1>2, <1>3, <3>1
    <3>3. ranIn'[d] = ranIn[d] \/ (target[d] = s /\ ranIn'[d] = epoch[s] + 1)
      BY <1>4
    <3> QED
      BY <3>1, <3>2, <3>3
  <2>3. \A end \in ended : StillHowItEnded(end.sess, end.epoch, end.stop)
    BY <1>1, <1>10 DEF HostIsSound, LifecycleTypeOK, EpochEnds
  <2> QED
    BY <1>5, <2>1, <2>2, <2>3 DEF HostIsSound, HowItEnded, StillHowItEnded
<1>12. FactsStay
  <2>1. \A x, e : Completed(x, e) => Completed(x, e)'
    BY <1>5 DEF Completed
  <2> QED
    BY <1>10, <2>1 DEF FactsStay
<1>13. MapsFollow'
  <2>1. disposed' => epochs' = <<>> /\ pending' = <<>> /\ buffered' = <<>> /\ outcomes' = <<>>
    BY <1>1, <1>5, <1>7 DEF MapsFollow
  <2>2. \A x \in Keys(epochs') : Value(epochs', x) = epoch'[x]
    BY <1>1, <1>2, <1>3, <1>5, <1>6, <1>7, EmptyMap, MapTypes DEF MapsFollow
  <2>3. ~disposed' => \A x \in Sessions \ lost' : epoch'[x] > 0 => x \in Keys(epochs')
    BY <1>1, <1>2, <1>3, <1>5, <1>6, <1>7 DEF MapsFollow
  <2>4. \A x \in Keys(buffered) :
          LET b == Value(buffered, x)
          IN  StillHowItEnded(x, b.epoch, b.stop) /\ (b.old => x \in lost')
    BY <1>1, <1>8, <1>10, MapTypes DEF MapsFollow, BufferedEnds
  <2> QED
    BY <1>1, <1>5, <2>1, <2>2, <2>3, <2>4 DEF MapsFollow, HowItEnded, StillHowItEnded, Completed
<1>14. RegistrationsFit' /\ TasksFit'
  BY <1>1, <1>5, <1>12, PendingStays, RegistrationsStay, TasksStay DEF LifecycleTypeOK
<1>15. AwaitedIsWatched'
  <2> SUFFICES ASSUME awaited # None, ~disposed, forgotten = {},
                      NEW x \in Sessions \ lost', x = target[awaited]
               PROVE  Watched(x)'
    BY <1>5 DEF AwaitedIsWatched
  <2>1. awaited \in 1..Len(target) /\ x \notin lost /\ Watched(x) /\ ranIn[awaited] \in Nat
    BY <1>1, <1>2, <1>8, AwaitedSession DEF AwaitedIsWatched
  <2>2. CASE x # s
    <3>1. epoch'[x] = epoch[x] /\ state'[x] = state[x] /\ ranIn'[awaited] = ranIn[awaited]
      BY <1>3, <1>4, <2>1, <2>2
    <3>2. (Coming(x)' <=> Coming(x)) /\ (InBuffer(x)' <=> InBuffer(x)) /\ (AtWork(x)' <=> AtWork(x))
      BY <1>5, <3>1 DEF Coming, InBuffer, AtWork
    <3> QED
      BY <1>5, <1>12, <2>1, <3>1, <3>2, WatchStays
  <2>3. CASE x = s
    <3>1. ~HasFailed(x)'
      BY <1>3, <2>3 DEF HasFailed
    <3>2. CASE awaited \notin published
      BY <1>5, <3>1, <3>2 DEF Watched
    <3>3. CASE awaited \in published
      <4>1. NotedFits(x) /\ (Held(x) => x \in Keys(pending) /\ Value(pending, x).disp = awaited)
        BY <2>1, <3>3 DEF Watched
      <4>2. epoch[x] \in Nat /\ epoch'[x] = epoch[x] + 1 /\ ranIn[awaited] <= epoch[x]
        BY <1>1, <1>2, <1>3, <2>1, <2>3 DEF HostIsSound
      <4>3. (ranIn[awaited] # 0 => ranIn'[awaited] = ranIn[awaited])
            /\ (ranIn[awaited] = 0 => ranIn'[awaited] = epoch[x] + 1)
        BY <1>4, <2>1, <2>3
      <4>4. NotedFits(x)'
        BY <1>5, <4>1, <4>2, <4>3, LifecycleAssumption DEF NotedFits
      <4>5. ASSUME Held(x)' PROVE Held(x)
        <5>1. noted \in {None, epoch[x] + 1} /\ ranIn'[awaited] \in {0, epoch[x] + 1}
          BY <1>5, <4>2, <4>5 DEF Held
        <5>2. noted = None
          BY <4>1, <4>2, <5>1 DEF NotedFits
        <5>3. epoch[x] = 0 /\ ranIn[awaited] = 0
          BY <4>1, <4>2, <4>3, <5>1, <5>2 DEF NotedFits
        <5>4. state[x] # "completed"
          BY <1>1, <5>3 DEF HostIsSound
        <5> QED
          BY <5>2, <5>3, <5>4 DEF Held
      <4> QED
        BY <1>5, <3>1, <3>3, <4>1, <4>4, <4>5 DEF Watched
    <3> QED
      BY <3>2, <3>3
  <2> QED
    BY <2>2, <2>3
<1> QED
  BY <1>9, <1>11, <1>13, <1>14, <1>15 DEF LifecycleInv

LEMMA TakesInv ==
  ASSUME LifecycleInv, NEW s \in Sessions, Takes(s)
  PROVE  LifecycleInv'
<1>1. LifecycleTypeOK /\ HostIsSound /\ MapsFollow /\ AwaitedIsWatched
  BY DEF LifecycleInv
<1>2. /\ target \in Seq(Sessions) /\ Len(target) \in Nat /\ DOMAIN target = 1..Len(target)
      /\ ranIn \in [1..Len(target) -> Nat] /\ epoch \in [Sessions -> Nat]
      /\ \A d \in 1..Len(target) : target[d] \in Sessions
  BY <1>1 DEF LifecycleTypeOK
<1>3. /\ UNCHANGED <<epoch, state, target, ended, epochs, pending, buffered, outcomes, attached,
                     registrations, disposed, awaited, published, tasks, lost, noted, forgotten>>
      /\ state[s] = "live"
  BY DEF Takes, Live, mapVars, excuses
<1>4. /\ ranIn' \in [1..Len(target) -> Nat]
      /\ \A d \in 1..Len(target) : ranIn[d] # 0 \/ target[d] # s => ranIn'[d] = ranIn[d]
      /\ \A d \in 1..Len(target) : target[d] = s /\ ranIn[d] = 0 => ranIn'[d] = epoch[s]
  <2>1. ranIn' = [d \in DOMAIN ranIn |-> IF d \in Inbox(s) THEN epoch[s] ELSE ranIn[d]]
    BY DEF Takes
  <2>2. \A d \in 1..Len(target) : d \in Inbox(s) <=> target[d] = s /\ ranIn[d] = 0
    BY <1>2 DEF Inbox
  <2> QED
    BY <1>2, <2>1, <2>2
<1>5. LifecycleTypeOK'
  BY <1>1, <1>3, <1>4 DEF LifecycleTypeOK
<1>6. HostIsSound'
  <2>1. \A d \in 1..Len(target) : ranIn'[d] <= epoch[target[d]]
    BY <1>1, <1>2, <1>4 DEF HostIsSound
  <2> QED
    BY <1>1, <1>3, <2>1 DEF HostIsSound, HowItEnded
<1>7. MapsFollow' /\ FactsStay
  BY <1>1, <1>3 DEF MapsFollow, FactsStay, HowItEnded, StillHowItEnded, Completed
<1>8. RegistrationsFit' /\ TasksFit'
  BY <1>1, <1>3, <1>7, PendingStays, RegistrationsStay, TasksStay DEF LifecycleTypeOK
<1>9. AwaitedIsWatched'
  <2> SUFFICES ASSUME awaited # None, ~disposed, forgotten = {},
                      NEW x \in Sessions \ lost, x = target[awaited]
               PROVE  Watched(x)'
    BY <1>3 DEF AwaitedIsWatched
  <2>1. awaited \in 1..Len(target) /\ Watched(x) /\ ranIn[awaited] \in Nat
    BY <1>1, <1>2, AwaitedSession DEF AwaitedIsWatched
  <2>2. CASE x # s
    <3>1. ranIn'[awaited] = ranIn[awaited]
      BY <1>4, <2>1, <2>2
    <3>2. (Coming(x)' <=> Coming(x)) /\ (InBuffer(x)' <=> InBuffer(x)) /\ (AtWork(x)' <=> AtWork(x))
      BY <1>3 DEF Coming, InBuffer, AtWork
    <3> QED
      BY <1>3, <1>7, <2>1, <3>1, <3>2, WatchStays
  <2>3. CASE x = s
    <3>1. ~HasFailed(x)'
      BY <1>3, <2>3 DEF HasFailed
    <3>2. CASE awaited \notin published
      BY <1>3, <3>1, <3>2 DEF Watched
    <3>3. CASE awaited \in published
      <4>1. NotedFits(x) /\ (Held(x) => x \in Keys(pending) /\ Value(pending, x).disp = awaited)
        BY <2>1, <3>3 DEF Watched
      <4>2. epoch[x] \in Nat /\ epoch[x] # 0
        BY <1>1, <1>2, <1>3, <2>3 DEF HostIsSound
      <4>3. (ranIn[awaited] # 0 => ranIn'[awaited] = ranIn[awaited])
            /\ (ranIn[awaited] = 0 => ranIn'[awaited] = epoch[x])
        BY <1>4, <2>1, <2>3
      <4>4. NotedFits(x)'
        BY <1>3, <4>1, <4>2, <4>3 DEF NotedFits
      <4>5. Held(x)' => Held(x)
        BY <1>3, <4>2, <4>3 DEF Held, Completed
      <4> QED
        BY <1>3, <3>1, <3>3, <4>1, <4>4, <4>5 DEF Watched
    <3> QED
      BY <3>2, <3>3
  <2> QED
    BY <2>2, <2>3
<1> QED
  BY <1>5, <1>6, <1>7, <1>8, <1>9 DEF LifecycleInv

LEMMA EndsInv ==
  ASSUME LifecycleInv, NEW s \in Sessions, NEW stop \in Stops, Ends(s, stop)
  PROVE  LifecycleInv'
<1> DEFINE end == [sess |-> s, epoch |-> epoch[s], stop |-> stop]
<1>1. LifecycleTypeOK /\ HostIsSound /\ MapsFollow /\ AwaitedIsWatched
  BY DEF LifecycleInv
<1>2. /\ state[s] = "live" /\ ~disposed /\ state' = [state EXCEPT ![s] = stop] /\ ended' = ended \cup {end}
      /\ UNCHANGED <<epoch, target, ranIn, epochs, pending, buffered, outcomes, attached,
                     registrations, disposed, awaited, published, tasks, lost, noted, forgotten>>
  BY DEF Ends, Live, mapVars, excuses
<1>3. epoch \in [Sessions -> Nat] /\ epoch[s] \in Nat \ {0}
  BY <1>1, <1>2 DEF LifecycleTypeOK, HostIsSound
<1>4. /\ state' \in [Sessions -> {"none", "live"} \cup Stops] /\ state'[s] = stop
      /\ \A x \in Sessions \ {s} : state'[x] = state[x]
  BY <1>1, <1>2 DEF LifecycleTypeOK
<1>5. stop # "live" /\ stop # "none" /\ end \in EpochEnds
  BY <1>3 DEF Stops, EpochEnds
<1>6. LifecycleTypeOK'
  BY <1>1, <1>2, <1>4, <1>5 DEF LifecycleTypeOK
<1>7. FactsStay
  BY <1>2, <1>4 DEF FactsStay, HowItEnded, StillHowItEnded, Stops, Completed
<1>8. HostIsSound'
  <2>1. \A x \in Sessions : state'[x] = "none" <=> epoch[x] = 0
    BY <1>1, <1>2, <1>3, <1>4, <1>5 DEF HostIsSound
  <2>2. StillHowItEnded(end.sess, end.epoch, end.stop)
    BY <1>2, <1>3, <1>4 DEF StillHowItEnded
  <2>3. \A e \in ended' : StillHowItEnded(e.sess, e.epoch, e.stop)
    BY <1>1, <1>2, <1>7, <2>2 DEF HostIsSound, LifecycleTypeOK, EpochEnds, FactsStay
  <2> QED
    BY <1>1, <1>2, <2>1, <2>3 DEF HostIsSound, HowItEnded, StillHowItEnded
<1>9. MapsFollow'
  <2>1. \A x \in Keys(buffered) :
          LET b == Value(buffered, x)
          IN  StillHowItEnded(x, b.epoch, b.stop) /\ (b.old => x \in lost)
    BY <1>1, <1>7, MapTypes DEF MapsFollow, BufferedEnds, FactsStay
  <2> QED
    BY <1>1, <1>2, <2>1 DEF MapsFollow, HowItEnded, StillHowItEnded, Completed
<1>10. RegistrationsFit' /\ TasksFit'
  BY <1>1, <1>2, <1>7, PendingStays, RegistrationsStay, TasksStay DEF LifecycleTypeOK
<1>11. AwaitedIsWatched'
  <2> SUFFICES ASSUME awaited # None, forgotten = {},
                      NEW x \in Sessions \ lost, x = target[awaited]
               PROVE  Watched(x)'
    BY <1>2 DEF AwaitedIsWatched
  <2>1. Watched(x)
    BY <1>1, <1>2 DEF AwaitedIsWatched
  <2>2. CASE x # s
    <3>1. state'[x] = state[x]
      BY <1>4, <2>2
    <3>2. (Coming(x) => Coming(x)') /\ (InBuffer(x)' <=> InBuffer(x)) /\ (AtWork(x)' <=> AtWork(x))
      BY <1>2 DEF Coming, InBuffer, AtWork
    <3> QED
      BY <1>2, <1>7, <3>1, <3>2, WatchStays
  <2>3. CASE x = s
    <3>1. end \in ended' /\ end.sess = s /\ end.epoch = epoch[s]
      BY <1>2
    <3>2. Coming(x)'
      BY <1>2, <2>3, <3>1 DEF Coming
    <3>3. NotedFits(x)' <=> NotedFits(x)
      BY <1>2 DEF NotedFits
    <3>4. Held(x)' => Held(x)
      BY <1>2, <2>3 DEF Held, Completed
    <3> QED
      BY <1>2, <2>1, <3>2, <3>3, <3>4 DEF Watched
  <2> QED
    BY <2>2, <2>3
<1> QED
  BY <1>6, <1>8, <1>9, <1>10, <1>11 DEF LifecycleInv

LEMMA SameKeys ==
  ASSUME NEW V, NEW m, NEW m1, IsMap(m, V), IsMap(m1, V), DOMAIN m1 = DOMAIN m,
         \A i \in DOMAIN m : m1[i][1] = m[i][1]
  PROVE  /\ Keys(m1) = Keys(m)
         /\ \A s \in Keys(m) : \E i \in DOMAIN m : Value(m, s) = m[i][2] /\ Value(m1, s) = m1[i][2]
<1>1. Keys(m1) = Keys(m)
  BY DEF Keys
<1>2. ASSUME NEW s \in Keys(m)
      PROVE \E i \in DOMAIN m : Value(m, s) = m[i][2] /\ Value(m1, s) = m1[i][2]
  <2>1. PICK i \in DOMAIN m : m[i] = <<s, Value(m, s)>> /\ m[i][1] = s
    BY MapKey
  <2>2. Value(m1, m1[i][1]) = m1[i][2] /\ Value(m, m[i][1]) = m[i][2]
    BY MapEntry
  <2> QED
    BY <2>1, <2>2
<1> QED
  BY <1>1, <1>2

LEMMA MapAged ==
  ASSUME NEW m, IsMap(m, BufferedEnds),
         NEW aged, DOMAIN aged = DOMAIN m,
         \A i \in DOMAIN m : aged[i] = <<m[i][1], [m[i][2] EXCEPT !.old = TRUE]>>,
         m \in Seq(Sessions \X BufferedEnds) => aged \in Seq(Sessions \X BufferedEnds)
  PROVE  /\ IsMap(aged, BufferedEnds) /\ Keys(aged) = Keys(m)
         /\ \A s \in Keys(m) : /\ Value(aged, s).epoch = Value(m, s).epoch
                               /\ Value(aged, s).stop = Value(m, s).stop
<1>1. ASSUME NEW i \in DOMAIN m
      PROVE  /\ aged[i][1] = m[i][1]
             /\ aged[i][2].epoch = m[i][2].epoch /\ aged[i][2].stop = m[i][2].stop
  <2> DEFINE w == [m[i][2] EXCEPT !.old = TRUE]
  <2>1. m[i][2] \in BufferedEnds
    BY MapEntry
  <2>2. w.epoch = m[i][2].epoch /\ w.stop = m[i][2].stop
    BY <2>1 DEF BufferedEnds
  <2>3. aged[i] = <<m[i][1], w>>
    OBVIOUS
  <2> HIDE DEF w
  <2>4. aged[i][1] = m[i][1] /\ aged[i][2] = w
    BY <2>3
  <2> QED
    BY <2>2, <2>4
<1>2. IsMap(aged, BufferedEnds)
  BY <1>1 DEF IsMap
<1>3. /\ Keys(aged) = Keys(m)
      /\ \A s \in Keys(m) : \E i \in DOMAIN m : Value(m, s) = m[i][2] /\ Value(aged, s) = aged[i][2]
  BY <1>1, <1>2, SameKeys
<1> QED
  BY <1>1, <1>2, <1>3

LEMMA ExpiresInv ==
  ASSUME LifecycleInv, Expires
  PROVE  LifecycleInv'
<1>1. LifecycleTypeOK /\ HostIsSound /\ MapsFollow /\ AwaitedIsWatched
  BY DEF LifecycleInv
<1>2. /\ lost' = lost \cup Keys(buffered) /\ (\E i \in DOMAIN buffered : TRUE)
      /\ UNCHANGED <<epoch, state, target, ranIn, ended, epochs, pending, outcomes, attached,
                     registrations, disposed, awaited, published, tasks, noted, forgotten>>
  BY DEF Expires, hostVars
<1>3. /\ IsMap(buffered', BufferedEnds) /\ Keys(buffered') = Keys(buffered)
      /\ \A s \in Keys(buffered) : /\ Value(buffered', s).epoch = Value(buffered, s).epoch
                                   /\ Value(buffered', s).stop = Value(buffered, s).stop
  <2>1. IsMap(buffered, BufferedEnds) /\ DOMAIN buffered = 1..Len(buffered) /\ Len(buffered) \in Nat
    BY <1>1 DEF LifecycleTypeOK, IsMap
  <2>2. buffered' = [i \in DOMAIN buffered |-> <<buffered[i][1], [buffered[i][2] EXCEPT !.old = TRUE]>>]
    BY DEF Expires
  <2>3. ASSUME NEW i \in DOMAIN buffered
        PROVE  <<buffered[i][1], [buffered[i][2] EXCEPT !.old = TRUE]>> \in Sessions \X BufferedEnds
    <3>1. buffered[i][1] \in Sessions /\ buffered[i][2] \in BufferedEnds
      BY <2>1, MapEntry
    <3>2. [buffered[i][2] EXCEPT !.old = TRUE] \in BufferedEnds
      BY <3>1 DEF BufferedEnds
    <3> QED
      BY <3>1, <3>2
  <2>4. buffered' \in Seq(Sessions \X BufferedEnds)
    BY <2>1, <2>2, <2>3
  <2> QED
    BY <2>1, <2>2, <2>4, MapAged
<1>4. ~disposed
  BY <1>1, <1>2 DEF MapsFollow
<1>5. LifecycleTypeOK'
  BY <1>1, <1>2, <1>3, MapTypes DEF LifecycleTypeOK
<1>6. HostIsSound' /\ FactsStay
  BY <1>1, <1>2 DEF HostIsSound, FactsStay, HowItEnded, StillHowItEnded, Completed
<1>7. MapsFollow'
  <2>1. \A x \in Keys(buffered') :
          LET b == Value(buffered', x)
          IN  StillHowItEnded(x, b.epoch, b.stop) /\ (b.old => x \in lost')
    BY <1>1, <1>2, <1>3 DEF MapsFollow, HowItEnded, StillHowItEnded
  <2> QED
    BY <1>1, <1>2, <1>4, <2>1 DEF MapsFollow, HowItEnded, StillHowItEnded, Completed
<1>8. RegistrationsFit' /\ TasksFit'
  BY <1>1, <1>2, <1>6, PendingStays, RegistrationsStay, TasksStay DEF LifecycleTypeOK
<1>9. AwaitedIsWatched'
  <2> SUFFICES ASSUME awaited # None, forgotten = {},
                      NEW x \in Sessions \ lost', x = target[awaited]
               PROVE  Watched(x)'
    BY <1>2 DEF AwaitedIsWatched
  <2>1. x \notin lost /\ ~InBuffer(x)
    BY <1>2 DEF InBuffer
  <2>2. (Coming(x)' <=> Coming(x)) /\ (AtWork(x)' <=> AtWork(x))
    BY <1>2 DEF Coming, AtWork
  <2> QED
    BY <1>2, <1>4, <1>6, <2>1, <2>2, WatchStays
<1> QED
  BY <1>5, <1>6, <1>7, <1>8, <1>9 DEF LifecycleInv

LEMMA ResultSettlesInv ==
  ASSUME LifecycleInv, NEW a \in attached, NEW outcome \in {"completed", "failed"},
         ResultSettles(a, outcome)
  PROVE  LifecycleInv'
<1> DEFINE b == [a EXCEPT !.outcome = outcome]
           v == [epoch |-> a.epoch, outcome |-> outcome]
           room == Room(outcomes, BufferMax, a.sess)
<1>1. LifecycleTypeOK /\ HostIsSound /\ MapsFollow /\ AwaitedIsWatched
  BY DEF LifecycleInv
<1>2. /\ a.outcome = None /\ attached' = (attached \ {a}) \cup {b}
      /\ outcomes' = IF disposed THEN outcomes ELSE With(room, a.sess, v)
      /\ UNCHANGED <<epoch, state, target, ranIn, ended, epochs, pending, buffered,
                     registrations, disposed, awaited, published, tasks, lost, noted, forgotten>>
  BY DEF ResultSettles, hostVars, excuses
<1>3. /\ a.sess \in Sessions /\ a.epoch \in Nat \cup {None}
      /\ b \in [sess : Sessions, epoch : Nat \cup {None}, outcome : {None, "completed", "failed"}]
      /\ b.sess = a.sess /\ b.epoch = a.epoch /\ b.outcome = outcome
  BY <1>1 DEF LifecycleTypeOK
<1>4. v \in Outcomes /\ v.outcome = outcome /\ v.epoch = a.epoch
  BY <1>3 DEF Outcomes
<1>5. IsMap(room, Outcomes) /\ Keys(room) \subseteq Keys(outcomes)
      /\ \A x \in Keys(room) : Value(room, x) = Value(outcomes, x)
  BY <1>1, MapRoom, LifecycleAssumption DEF LifecycleTypeOK, Shrinks
<1> HIDE DEF b, v, room
<1>6. /\ IsMap(outcomes', Outcomes)
      /\ disposed => outcomes' = outcomes
      /\ ~disposed => /\ Keys(outcomes') = Keys(room) \cup {a.sess} /\ Value(outcomes', a.sess) = v
                      /\ \A x \in Keys(room) \ {a.sess} : Value(outcomes', x) = Value(outcomes, x)
  BY <1>1, <1>2, <1>3, <1>4, <1>5, MapWith DEF LifecycleTypeOK
<1>7. FactsStay
  BY <1>2, LifecycleAssumption DEF FactsStay, HowItEnded, StillHowItEnded, Completed
<1>8. LifecycleTypeOK'
  BY <1>1, <1>2, <1>3, <1>6 DEF LifecycleTypeOK
<1>9. HostIsSound'
  BY <1>1, <1>2 DEF HostIsSound, HowItEnded
<1>10. MapsFollow'
  <2>1. ASSUME NEW x \in Keys(outcomes'), Value(outcomes', x).outcome = "completed"
        PROVE  \E c \in attached' : c.sess = x /\ c.epoch = Value(outcomes', x).epoch /\ c.outcome = "completed"
    <3>1. CASE ~disposed /\ x = a.sess
      BY <1>2, <1>3, <1>4, <1>6, <2>1, <3>1
    <3>2. CASE disposed \/ x # a.sess
      <4>1. x \in Keys(outcomes) /\ Value(outcomes', x) = Value(outcomes, x)
        BY <1>5, <1>6, <3>2
      <4> QED
        BY <1>1, <1>2, <2>1, <4>1, LifecycleAssumption DEF MapsFollow, Completed
    <3> QED
      BY <3>1, <3>2
  <2>2. disposed => outcomes' = <<>>
    BY <1>1, <1>6 DEF MapsFollow
  <2> QED
    BY <1>1, <1>2, <2>1, <2>2 DEF MapsFollow, HowItEnded, Completed
<1>11. RegistrationsFit' /\ TasksFit'
  BY <1>1, <1>2, <1>7, PendingStays, RegistrationsStay, TasksStay DEF LifecycleTypeOK
<1>12. AwaitedIsWatched'
  <2> SUFFICES ASSUME awaited # None, ~disposed, forgotten = {},
                      NEW x \in Sessions \ lost, x = target[awaited]
               PROVE  Watched(x)'
    BY <1>2 DEF AwaitedIsWatched
  <2>1. (Coming(x)' <=> Coming(x)) /\ (InBuffer(x)' <=> InBuffer(x)) /\ (AtWork(x)' <=> AtWork(x))
    BY <1>2 DEF Coming, InBuffer, AtWork
  <2> QED
    BY <1>2, <1>7, <2>1, WatchStays
<1> QED
  BY <1>8, <1>9, <1>10, <1>11, <1>12 DEF LifecycleInv

LEMMA DisposesInv ==
  ASSUME LifecycleInv, Disposes
  PROVE  LifecycleInv'
<1>1. LifecycleTypeOK /\ HostIsSound /\ TasksFit
  BY DEF LifecycleInv
<1>2. /\ epochs' = <<>> /\ pending' = <<>> /\ buffered' = <<>> /\ outcomes' = <<>> /\ disposed' = TRUE
      /\ UNCHANGED <<epoch, state, target, ranIn, ended, attached, registrations, awaited,
                     published, tasks, lost, noted, forgotten>>
  BY DEF Disposes, hostVars, excuses
<1>3. LifecycleTypeOK'
  BY <1>1, <1>2, EmptyMap DEF LifecycleTypeOK
<1>4. HostIsSound'
  BY <1>1, <1>2 DEF HostIsSound, HowItEnded
<1>5. MapsFollow' /\ RegistrationsFit' /\ AwaitedIsWatched'
  BY <1>1, <1>2, EmptyMap DEF MapsFollow, RegistrationsFit, AwaitedIsWatched
<1>6. TasksFit'
  BY <1>1, <1>2, EmptyMap DEF TasksFit, HowItEnded, Completed
<1> QED
  BY <1>3, <1>4, <1>5, <1>6 DEF LifecycleInv

LEMMA SendsInv ==
  ASSUME LifecycleInv, NEW s \in Sessions, Sends(s)
  PROVE  LifecycleInv'
<1> DEFINE d == Len(target) + 1
<1>1. LifecycleTypeOK /\ HostIsSound /\ MapsFollow /\ RegistrationsFit /\ TasksFit
  BY DEF LifecycleInv
<1>2. /\ awaited = None /\ ~disposed /\ awaited' = d
      /\ target' = Append(target, s) /\ ranIn' = Append(ranIn, 0)
      /\ UNCHANGED <<epoch, state, ended, epochs, pending, buffered, outcomes, attached,
                     registrations, disposed, published, tasks, lost, noted, forgotten>>
  BY DEF Sends, Latest, mapVars, excuses
<1>3. /\ target \in Seq(Sessions) /\ Len(target) \in Nat /\ epoch \in [Sessions -> Nat]
      /\ ranIn \in [1..Len(target) -> Nat]
  BY <1>1 DEF LifecycleTypeOK
<1>4. /\ target' \in Seq(Sessions) /\ Len(target') = d /\ target'[d] = s
      /\ \A x \in 1..Len(target) : target'[x] = target[x]
  BY <1>2, <1>3
<1>5. ranIn \in Seq(Nat) /\ Len(ranIn) = Len(target)
  BY <1>3
<1>6. /\ ranIn' \in [1..d -> Nat] /\ ranIn'[d] = 0
      /\ \A x \in 1..Len(target) : ranIn'[x] = ranIn[x]
  <2>1. ranIn' \in Seq(Nat) /\ Len(ranIn') = d
    BY <1>2, <1>5
  <2>2. ranIn'[d] = 0 /\ \A x \in 1..Len(target) : ranIn'[x] = ranIn[x]
    BY <1>2, <1>3, <1>5
  <2> HIDE DEF d
  <2> QED
    BY <2>1, <2>2
<1>7. d \in Nat /\ 1..d = 1..Len(target) \cup {d} /\ d \notin 1..Len(target) /\ d > 0
  BY <1>3
<1> HIDE DEF d
<1>8. published \subseteq 1..Len(target) /\ d \notin published
  BY <1>1, <1>7 DEF LifecycleTypeOK
<1>9. LifecycleTypeOK'
  BY <1>1, <1>2, <1>4, <1>6, <1>7 DEF LifecycleTypeOK
<1>10. HostIsSound'
  <2>1. \A x \in 1..d : target'[x] \in Sessions /\ ranIn'[x] <= epoch[target'[x]]
    <3>1. ASSUME NEW x \in 1..Len(target)
          PROVE  target'[x] \in Sessions /\ ranIn'[x] <= epoch[target'[x]]
      <4>1. target'[x] = target[x] /\ ranIn'[x] = ranIn[x]
        BY <1>4, <1>6
      <4>3. target[x] \in Sessions
        BY <1>3
      <4>2. ranIn[x] <= epoch[target[x]]
        BY <1>1 DEF HostIsSound
      <4> QED
        BY <4>1, <4>2, <4>3
    <3>2. target'[d] \in Sessions /\ ranIn'[d] <= epoch[target'[d]]
      BY <1>3, <1>4, <1>6
    <3> QED
      BY <1>7, <3>1, <3>2
  <2> QED
    BY <1>1, <1>2, <1>4, <2>1 DEF HostIsSound, HowItEnded
<1>11. MapsFollow'
  BY <1>1, <1>2 DEF MapsFollow, HowItEnded, Completed
<1>12. RegistrationsFit'
  BY <1>1, <1>2, <1>4, <1>8 DEF RegistrationsFit, HowItEnded
<1>13. TasksFit'
  BY <1>1, <1>2, <1>4, <1>8 DEF TasksFit, HowItEnded, Completed
<1>14. AwaitedIsWatched'
  <2> SUFFICES ASSUME NEW x \in Sessions, x = target'[d] PROVE Watched(x)'
    BY <1>2, <1>4 DEF AwaitedIsWatched
  <2>1. ~HasFailed(x)'
    BY <1>1, <1>2, <1>4, <1>6 DEF HostIsSound, HasFailed
  <2> QED
    BY <1>2, <1>8, <2>1 DEF Watched
<1> QED
  BY <1>9, <1>10, <1>11, <1>12, <1>13, <1>14 DEF LifecycleInv

\* A dispatch is done with, or published without a registration: what remains
\* fits as before.
LEMMA DoneWith ==
  ASSUME LifecycleInv, awaited' = None \/ UNCHANGED <<awaited, noted>>, noted' \in {0, noted},
         forgotten' \subseteq {"retired", "credited"}, tasks' \subseteq tasks,
         Shrinks(pending, pending', Registrations), disposed => pending' = pending,
         published \subseteq published', published' \subseteq 1..Len(target), attached \subseteq attached',
         attached' \subseteq [sess : Sessions, epoch : Nat \cup {None}, outcome : {None, "completed", "failed"}],
         UNCHANGED <<epoch, state, target, ranIn, ended, epochs, buffered, outcomes,
                     registrations, disposed, lost>>,
         AwaitedIsWatched'
  PROVE  LifecycleInv'
<1>1. LifecycleTypeOK /\ HostIsSound /\ MapsFollow
  BY DEF LifecycleInv
<1>2. LifecycleTypeOK'
  BY <1>1 DEF LifecycleTypeOK, Shrinks
<1>3. HostIsSound' /\ MapsFollow' /\ FactsStay
  BY <1>1 DEF HostIsSound, MapsFollow, FactsStay, HowItEnded, StillHowItEnded, Completed
<1>4. RegistrationsFit' /\ TasksFit'
  BY <1>1, <1>3, RegistrationsStay, TasksStay DEF LifecycleTypeOK
<1> QED
  BY <1>2, <1>3, <1>4 DEF LifecycleInv

LEMMA SettledByTurnInv ==
  ASSUME LifecycleInv, SettledByTurn
  PROVE  LifecycleInv'
<1>1. LifecycleTypeOK
  BY DEF LifecycleInv
<1>2. pending' = pending \/ pending' = Without(pending, target[awaited])
  BY DEF SettledByTurn, Invalidated
<1>3. Shrinks(pending, pending', Registrations)
  BY <1>1, <1>2, PendingStays, MapWithout DEF LifecycleTypeOK
<1>4. AwaitedIsWatched'
  BY DEF SettledByTurn, NoLongerAwaited, AwaitedIsWatched
<1> QED
  BY <1>1, <1>3, <1>4, DoneWith DEF SettledByTurn, NoLongerAwaited, hostVars, LifecycleTypeOK

LEMMA BlockedInv ==
  ASSUME LifecycleInv, Blocked
  PROVE  LifecycleInv'
<1>1. LifecycleTypeOK /\ Shrinks(pending, pending', Registrations)
  BY PendingStays DEF LifecycleInv, Blocked, mapVars
<1>2. AwaitedIsWatched'
  BY DEF Blocked, NoLongerAwaited, AwaitedIsWatched
<1> QED
  BY <1>1, <1>2, DoneWith DEF Blocked, NoLongerAwaited, hostVars, mapVars, LifecycleTypeOK

LEMMA NoKeysNoEntries ==
  ASSUME NEW V, NEW m, IsMap(m, V), Keys(m) = {}
  PROVE  m = <<>>
<1>1. m \in Seq(Sessions \X V)
  BY DEF IsMap
<1>2. Len(m) \in Nat /\ DOMAIN m = 1..Len(m)
  BY <1>1
<1>3. \A i \in DOMAIN m : m[i][1] \in Keys(m)
  BY DEF Keys
<1>4. Len(m) = 0
  BY <1>2, <1>3
<1> QED
  BY <1>1, <1>4

\* A retired session keeps no registration; had it been the awaited one's, that
\* is remembered.
LEMMA RetiredInv ==
  ASSUME LifecycleInv, NEW s \in Sessions, Retired(s),
         awaited \in published' <=> awaited \in published,
         published \subseteq published', published' \subseteq 1..Len(target), attached \subseteq attached',
         attached' \subseteq [sess : Sessions, epoch : Nat \cup {None}, outcome : {None, "completed", "failed"}],
         UNCHANGED <<epoch, state, target, ranIn, ended, epochs, buffered, outcomes,
                     registrations, disposed, awaited, tasks, lost, noted>>
  PROVE  LifecycleInv'
<1>1. LifecycleTypeOK /\ MapsFollow
  BY DEF LifecycleInv
<1>2. Shrinks(pending, pending', Registrations) /\ Keys(pending') = Keys(pending) \ {s}
  BY <1>1, MapWithout DEF LifecycleTypeOK, Retired
<1>3. disposed => pending' = pending
  BY <1>1, <1>2, EmptyMap, NoKeysNoEntries DEF MapsFollow, Shrinks
<1>4. forgotten \subseteq forgotten' /\ forgotten' \subseteq {"retired", "credited"}
      /\ (s \in Keys(pending) /\ Value(pending, s).disp = awaited => forgotten' # {})
  BY <1>1 DEF Retired, LifecycleTypeOK
<1>5. FactsStay
  BY DEF FactsStay, HowItEnded, StillHowItEnded, Completed
<1>6. AwaitedIsWatched'
  <2> SUFFICES ASSUME awaited # None, ~disposed, forgotten' = {},
                      NEW x \in Sessions \ lost, x = target[awaited]
               PROVE  Watched(x)'
    BY DEF AwaitedIsWatched
  <2>1. forgotten = {}
    BY <1>4
  <2>2. (Coming(x)' <=> Coming(x)) /\ (InBuffer(x)' <=> InBuffer(x))
    BY DEF Coming, InBuffer
  <2>3. ASSUME x \in Keys(pending), Value(pending, x).disp = awaited
        PROVE  /\ x \in Keys(pending') /\ Value(pending', x) = Value(pending, x)
               /\ AtWork(x)' <=> AtWork(x)
    <3>1. x \in Keys(pending') /\ Value(pending', x) = Value(pending, x)
      BY <1>2, <1>4, <2>3 DEF Shrinks
    <3> QED
      BY <3>1 DEF AtWork
  <2> QED
    BY <1>5, <2>1, <2>2, <2>3, WatchStays
<1> QED
  BY <1>2, <1>3, <1>4, <1>5, <1>6, DoneWith

LEMMA RetiresInv ==
  ASSUME LifecycleInv, NEW d \in DOMAIN target, Retires(d)
  PROVE  LifecycleInv'
<1>1. LifecycleTypeOK
  BY DEF LifecycleInv
<1>2. target[d] \in Sessions
  BY <1>1 DEF LifecycleTypeOK
<1> QED
  BY <1>1, <1>2, RetiredInv DEF Retires, hostVars, LifecycleTypeOK

LEMMA ConsumesInv ==
  ASSUME LifecycleInv, NEW t \in tasks, Consumes(t)
  PROVE  LifecycleInv'
<1> DEFINE entry == Value(pending, t.sess)
           observed == Value(outcomes, t.sess)
           outcome == IF observed # None /\ entry.epoch # None /\ observed.epoch = entry.epoch
                      THEN observed.outcome ELSE "unknown"
           u == [t EXCEPT !.pc = "settle",
                          !.cand = [disp |-> entry.disp, end |-> entry.end, outcome |-> outcome]]
           goes == ~disposed /\ entry # None /\ entry.reg = t.reg /\ entry.end # None
<1>1. LifecycleTypeOK /\ HostIsSound /\ MapsFollow /\ RegistrationsFit /\ TasksFit /\ AwaitedIsWatched
  BY DEF LifecycleInv
<1>2. /\ t.pc = "consume" /\ tasks' = (tasks \ {t}) \cup (IF goes THEN {u} ELSE {})
      /\ UNCHANGED <<epoch, state, target, ranIn, ended, epochs, pending, buffered, outcomes,
                     attached, registrations, disposed, awaited, published, lost, noted, forgotten>>
  BY DEF Consumes, SameRegistration, hostVars, mapVars, excuses
<1>3. t \in [pc : {"consume"}, sess : Sessions, reg : Nat, cand : {None}]
  BY <1>1, <1>2 DEF LifecycleTypeOK, Tasks
<1>4. ASSUME goes
      PROVE  /\ t.sess \in Keys(pending) /\ entry \in Registrations
             /\ entry.disp \in published /\ target[entry.disp] = t.sess
             /\ entry.disp = awaited => entry.epoch = noted
             /\ entry.end \in EpochEnds /\ HowItEnded(t.sess, entry.end.epoch, entry.end.stop)
             /\ entry.epoch = None \/ entry.end.epoch = entry.epoch
  <2>1. t.sess \in Keys(pending)
    BY <1>4, NoKey
  <2>2. entry \in Registrations
    BY <1>1, <2>1, MapTypes
  <2>3. entry.end \in EpochEnds
    BY <1>4, <2>2 DEF Registrations
  <2> QED
    BY <1>1, <1>4, <2>1, <2>2, <2>3 DEF RegistrationsFit
<1>5. /\ outcome \in {"completed", "failed", "unknown"}
      /\ outcome = "completed" => entry.epoch # None /\ Completed(t.sess, entry.epoch)
  <2>1. CASE observed # None
    <3>1. t.sess \in Keys(outcomes)
      BY <2>1, NoKey
    <3>2. observed \in Outcomes /\ (observed.outcome = "completed" => Completed(t.sess, observed.epoch))
      BY <1>1, <3>1, MapTypes DEF MapsFollow
    <3> QED
      BY <3>2 DEF Outcomes
  <2>2. CASE observed = None
    BY <2>2
  <2> QED
    BY <2>1, <2>2
<1> HIDE DEF outcome
<1>6. /\ u.pc = "settle" /\ u.sess = t.sess /\ u.reg = t.reg
      /\ u.cand = [disp |-> entry.disp, end |-> entry.end, outcome |-> outcome]
  BY <1>3
<1>7. goes => u \in Tasks
  <2> SUFFICES ASSUME goes PROVE u \in Tasks
    OBVIOUS
  <2>1. [disp |-> entry.disp, end |-> entry.end, outcome |-> outcome]
          \in [disp : Nat \ {0}, end : EpochEnds, outcome : {"completed", "failed", "unknown"}]
    BY <1>4, <1>5 DEF Registrations
  <2> QED
    BY <1>3, <2>1 DEF Tasks
<1>8. /\ u.cand.disp = entry.disp /\ u.cand.end = entry.end /\ u.cand.outcome = outcome
  BY <1>6
<1> HIDE DEF u
<1>9. LifecycleTypeOK'
  BY <1>1, <1>2, <1>7 DEF LifecycleTypeOK
<1>10. HostIsSound' /\ MapsFollow' /\ RegistrationsFit' /\ FactsStay
  BY <1>1, <1>2 DEF HostIsSound, MapsFollow, RegistrationsFit, FactsStay, HowItEnded, StillHowItEnded,
                    Completed
<1>11. TasksFit'
  <2> SUFFICES ASSUME NEW v \in tasks'
               PROVE  /\ v.reg <= registrations
                      /\ v.pc = "settle" =>
                          /\ v.cand.disp \in published /\ target[v.cand.disp] = v.sess
                          /\ v.cand.disp = awaited => IF noted = None THEN v.cand.outcome # "completed"
                                                      ELSE v.cand.end.epoch = noted
                          /\ HowItEnded(v.sess, v.cand.end.epoch, v.cand.end.stop)
                          /\ v.cand.outcome = "completed" => Completed(v.sess, v.cand.end.epoch)
                          /\ v.sess \in Keys(pending) /\ Value(pending, v.sess).reg = v.reg
                               => v.cand.disp = Value(pending, v.sess).disp
    BY <1>2 DEF TasksFit, HowItEnded, Completed
  <2>1. CASE v \in tasks
    BY <1>1, <2>1 DEF TasksFit
  <2>2. CASE goes /\ v = u
    <3>1. u.reg <= registrations
      BY <1>1, <1>6 DEF TasksFit
    <3> HIDE DEF goes, entry
    <3>2. outcome = "completed" => entry.end.epoch = entry.epoch /\ Completed(t.sess, entry.end.epoch)
      BY <1>4, <1>5, <2>2
    <3> QED
      BY <1>4, <1>5, <1>6, <1>8, <2>2, <3>1, <3>2 DEF entry
  <2> QED
    BY <1>2, <2>1, <2>2
<1>12. AwaitedIsWatched'
  <2> SUFFICES ASSUME awaited # None, ~disposed, forgotten = {},
                      NEW x \in Sessions \ lost, x = target[awaited]
               PROVE  Watched(x)'
    BY <1>2 DEF AwaitedIsWatched
  <2>1. (Coming(x)' <=> Coming(x)) /\ (InBuffer(x)' <=> InBuffer(x))
    BY <1>2 DEF Coming, InBuffer
  <2>2. ASSUME x \in Keys(pending), AtWork(x) PROVE AtWork(x)'
    <3> DEFINE r == Value(pending, x)
    <3>1. PICK v \in tasks : v.sess = x /\ v.reg = r.reg /\ (v.pc = "consume" => r.end # None)
      BY <2>2 DEF AtWork
    <3> SUFFICES \E w \in tasks' : w.sess = x /\ w.reg = r.reg /\ (w.pc = "consume" => r.end # None)
      BY <1>2 DEF AtWork
    <3>2. CASE v # t
      BY <1>2, <3>1, <3>2
    <3>3. CASE v = t
      <4>1. r \in Registrations /\ r # None
        BY <1>1, <2>2, MapTypes, LifecycleAssumption
      <4>2. goes
        BY <1>2, <3>1, <3>3, <4>1
      <4>3. u \in tasks'
        BY <1>2, <4>2
      <4> QED
        BY <1>6, <3>1, <3>3, <4>3
    <3> QED
      BY <3>2, <3>3
  <2> QED
    BY <1>2, <1>10, <2>1, <2>2, WatchStays
<1> QED
  BY <1>9, <1>10, <1>11, <1>12 DEF LifecycleInv

LEMMA SettlesInv ==
  ASSUME LifecycleInv, NEW t \in tasks, Settles(t)
  PROVE  LifecycleInv'
<1> DEFINE entry  == Value(pending, t.sess)
           blocks == awaited = t.cand.disp /\ Failure(t.cand)
           takes  == entry # None /\ entry.reg = t.reg /\ ~disposed
<1>1. LifecycleTypeOK /\ MapsFollow /\ RegistrationsFit /\ TasksFit /\ AwaitedIsWatched
  BY DEF LifecycleInv
<1>2. /\ t.pc = "settle" /\ tasks' = tasks \ {t}
      /\ blocks => awaited' = None /\ noted' = 0 /\ forgotten' = {}
      /\ ~blocks => awaited' = awaited /\ noted' = noted /\ forgotten' = forgotten
      /\ pending' = IF takes THEN Without(pending, t.sess) ELSE pending
      /\ UNCHANGED <<epoch, state, target, ranIn, ended, epochs, buffered, outcomes, attached,
                     registrations, disposed, published, lost>>
  BY DEF Settles, StillAwaited, NoLongerAwaited, hostVars
<1>3. Shrinks(pending, pending', Registrations) /\ (takes => Keys(pending') = Keys(pending) \ {t.sess})
  BY <1>1, <1>2, PendingStays, MapWithout DEF LifecycleTypeOK
<1>4. /\ t.cand \in [disp : Nat \ {0}, end : EpochEnds, outcome : {"completed", "failed", "unknown"}]
      /\ t.cand.end.epoch \in Nat \ {0}
  BY <1>1, <1>2 DEF LifecycleTypeOK, Tasks, EpochEnds
<1>5. /\ t.cand.disp = awaited => IF noted = None THEN t.cand.outcome # "completed"
                                  ELSE t.cand.end.epoch = noted
      /\ HowItEnded(t.sess, t.cand.end.epoch, t.cand.end.stop)
      /\ t.cand.outcome = "completed" => Completed(t.sess, t.cand.end.epoch)
      /\ t.sess \in Keys(pending) /\ entry.reg = t.reg => t.cand.disp = entry.disp
  BY <1>1, <1>2 DEF TasksFit
<1> HIDE DEF takes, blocks
<1>6. FactsStay
  BY <1>2 DEF FactsStay, HowItEnded, StillHowItEnded, Completed
<1>7. AwaitedIsWatched'
  <2>1. CASE blocks
    BY <1>2, <2>1 DEF AwaitedIsWatched
  <2>2. CASE ~blocks
    <3> SUFFICES ASSUME awaited # None, ~disposed, forgotten = {},
                        NEW x \in Sessions \ lost, x = target[awaited]
                 PROVE  Watched(x)'
      BY <1>2, <2>2 DEF AwaitedIsWatched
    <3> DEFINE r == Value(pending, x)
    <3>1. (Coming(x)' <=> Coming(x)) /\ (InBuffer(x)' <=> InBuffer(x))
      BY <1>2 DEF Coming, InBuffer
    <3>2. ASSUME awaited \in published, x \in Keys(pending), r.disp = awaited, Held(x),
                 x = t.sess, r.reg = t.reg
          PROVE  FALSE
      <4>1. t.cand.disp = awaited
        BY <1>5, <3>2
      <4>2. epoch[x] \in Nat /\ t.cand.end.epoch <= epoch[x] /\ NotedFits(x)
        BY <1>1, <1>5, <3>2 DEF LifecycleTypeOK, HowItEnded, AwaitedIsWatched, Watched
      <4>3. t.cand.end.epoch = epoch[x]
        BY <1>4, <1>5, <3>2, <4>1, <4>2 DEF NotedFits, Held
      <4>4. t.cand.end.stop = state[x]
        BY <1>5, <3>2, <4>3 DEF HowItEnded
      <4>5. t.cand.outcome # "completed" /\ state[x] # "completed"
        BY <1>5, <3>2, <4>1 DEF Held
      <4> QED
        BY <2>2, <4>1, <4>4, <4>5 DEF blocks, Failure
    <3>3. ASSUME awaited \in published, x \in Keys(pending), r.disp = awaited, Held(x)
          PROVE  /\ x \in Keys(pending') /\ Value(pending', x) = r
                 /\ AtWork(x) => AtWork(x)'
      <4>1. x # t.sess \/ r.reg # t.reg
        BY <3>2, <3>3
      <4>2. x \in Keys(pending')
        BY <1>2, <1>3, <3>3, <4>1 DEF takes
      <4>3. Value(pending', x) = r
        BY <1>3, <4>2 DEF Shrinks
      <4> HIDE DEF r
      <4>4. AtWork(x) => AtWork(x)'
        BY <1>2, <4>1, <4>3 DEF AtWork, r
      <4> QED
        BY <4>2, <4>3, <4>4
    <3> QED
      BY <1>2, <1>6, <2>2, <3>1, <3>3, WatchStays
  <2> QED
    BY <2>1, <2>2
<1>8. /\ awaited' = None \/ UNCHANGED <<awaited, noted>>
      /\ noted' \in {0, noted} /\ forgotten' \subseteq {"retired", "credited"}
      /\ tasks' \subseteq tasks /\ (disposed => pending' = pending)
  BY <1>1, <1>2 DEF takes, LifecycleTypeOK
<1> QED
  BY <1>1, <1>2, <1>3, <1>7, <1>8, DoneWith DEF LifecycleTypeOK

LEMMA RegisteredInv ==
  ASSUME LifecycleInv, ~disposed, NEW d \in DOMAIN target \ published, awaited = d, Registered(d),
         published' = published \cup {d}, attached \subseteq attached',
         attached' \subseteq [sess : Sessions, epoch : Nat \cup {None}, outcome : {None, "completed", "failed"}],
         UNCHANGED <<epoch, state, target, ranIn, ended, disposed, awaited>>
  PROVE  LifecycleInv'
<1> DEFINE s == target[d]
           swept == Swept(buffered)
           room  == Room(pending, PendingMax, s)
           e0    == [reg |-> registrations + 1, sess |-> s, disp |-> d, epoch |-> Value(epochs, s), end |-> None]
           prior == Value(swept, s)
           found == prior # None /\ SameEpoch(e0, prior)
           end   == IF found THEN [sess |-> s, epoch |-> prior.epoch, stop |-> prior.stop] ELSE None
           e     == [e0 EXCEPT !.end = end]
<1>1. LifecycleTypeOK /\ HostIsSound /\ MapsFollow /\ RegistrationsFit /\ TasksFit /\ AwaitedIsWatched
  BY DEF LifecycleInv
<1>2. /\ target \in Seq(Sessions) /\ Len(target) \in Nat /\ d \in 1..Len(target) /\ d # None
      /\ s \in Sessions /\ ranIn \in [1..Len(target) -> Nat] /\ registrations \in Nat
  BY <1>1, LifecycleAssumption DEF LifecycleTypeOK
<1>3. /\ registrations' = registrations + 1
      /\ pending' = With(room, s, e)
      /\ buffered' = Without(swept, s)
      /\ tasks' = IF found THEN tasks \cup {Task(e0)} ELSE tasks
      /\ lost' = lost \cup (Keys(pending) \ Keys(room))
      /\ noted' = Value(epochs, s) /\ forgotten' = forgotten
      /\ epochs' = epochs /\ outcomes' = outcomes
  BY DEF Registered
<1>4. FactsStay
  BY DEF FactsStay, HowItEnded, StillHowItEnded, Completed
<1>5. /\ Shrinks(buffered, swept, BufferedEnds)
      /\ Keys(swept) = {x \in Keys(buffered) : ~Value(buffered, x).old}
  BY <1>1, MapSwept DEF LifecycleTypeOK
<1>6. /\ IsMap(buffered', BufferedEnds) /\ Keys(buffered') \subseteq Keys(buffered)
      /\ \A x \in Keys(buffered') : Value(buffered', x) = Value(buffered, x)
  <2>1. Shrinks(swept, buffered', BufferedEnds)
    BY <1>3, <1>5, MapWithout DEF Shrinks
  <2> QED
    BY <1>5, <2>1 DEF Shrinks
<1>7. Shrinks(pending, room, Registrations)
  BY <1>1, MapRoom, LifecycleAssumption DEF LifecycleTypeOK
<1>8. Value(epochs, s) \in Nat \cup {None} /\ (Value(epochs, s) # None => Value(epochs, s) \in Nat \ {0})
  BY <1>1, NoKey, MapTypes
<1>9. ASSUME found
      PROVE  /\ s \in Keys(buffered) /\ prior = Value(buffered, s) /\ prior \in BufferedEnds
             /\ prior.epoch = Value(epochs, s) /\ HowItEnded(s, prior.epoch, prior.stop)
  <2>1. s \in Keys(swept)
    BY <1>9, NoKey
  <2>2. s \in Keys(buffered) /\ prior = Value(buffered, s)
    BY <1>5, <2>1 DEF Shrinks
  <2>3. prior \in BufferedEnds /\ HowItEnded(s, prior.epoch, prior.stop)
    BY <1>1, <2>2, MapTypes DEF MapsFollow
  <2> QED
    BY <1>9, <2>2, <2>3 DEF SameEpoch
<1>10. end \in EpochEnds \cup {None} /\ (end # None => found)
       /\ (found => /\ end # None /\ end.sess = s /\ end.epoch = Value(epochs, s)
                    /\ HowItEnded(s, end.epoch, end.stop))
  <2>1. CASE found
    <3>1. end = [sess |-> s, epoch |-> prior.epoch, stop |-> prior.stop]
      BY <2>1
    <3>2. end.sess = s /\ end.epoch = prior.epoch /\ end.stop = prior.stop
      BY <3>1
    <3>3. end \in EpochEnds
      BY <1>2, <1>9, <2>1, <3>1 DEF EpochEnds, BufferedEnds
    <3> HIDE DEF end, prior, found, s
    <3> QED
      BY <1>9, <2>1, <3>2, <3>3, LifecycleAssumption
  <2>2. CASE ~found
    BY <2>2
  <2> QED
    BY <2>1, <2>2
<1>11. /\ e.reg = registrations + 1 /\ e.sess = s /\ e.disp = d /\ e.epoch = Value(epochs, s) /\ e.end = end
       /\ Task(e0).pc = "consume" /\ Task(e0).sess = s /\ Task(e0).reg = registrations + 1
  BY DEF Task
<1>12. e \in Registrations /\ Task(e0) \in Tasks
  <2>1. e = [reg |-> registrations + 1, sess |-> s, disp |-> d, epoch |-> Value(epochs, s), end |-> end]
    OBVIOUS
  <2>2. Task(e0) = [pc |-> "consume", sess |-> s, reg |-> registrations + 1, cand |-> None]
    BY DEF Task
  <2>3. d \in Nat \ {0} /\ registrations + 1 \in Nat
    BY <1>2
  <2> HIDE DEF end, s, found, e, e0
  <2> QED
    BY <1>2, <1>8, <1>10, <2>1, <2>2, <2>3 DEF Registrations, Tasks
<1> HIDE DEF e, end, found, prior, e0
<1>13. /\ IsMap(pending', Registrations) /\ Keys(pending') = Keys(room) \cup {s}
       /\ Value(pending', s) = e
       /\ \A x \in Keys(room) \ {s} : Value(pending', x) = Value(pending, x)
  BY <1>2, <1>3, <1>7, <1>12, MapWith DEF Shrinks
<1>14. Keys(room) \subseteq Keys(pending) /\ Keys(pending) \subseteq Sessions
  BY <1>1, <1>7, MapTypes DEF Shrinks
<1> HIDE DEF room, swept
<1>15. lost \subseteq lost' /\ lost' \subseteq Sessions
  BY <1>1, <1>2, <1>3, <1>14 DEF LifecycleTypeOK
<1> HIDE DEF s
<1>16. published' \subseteq 1..Len(target) /\ d \notin published /\ d \in published'
  BY <1>1, <1>2 DEF LifecycleTypeOK
<1>17. LifecycleTypeOK'
  BY <1>1, <1>2, <1>3, <1>6, <1>8, <1>12, <1>13, <1>15, <1>16 DEF LifecycleTypeOK
<1>18. HostIsSound' /\ MapsFollow'
  <2>1. \A x \in Keys(buffered') :
          LET b == Value(buffered', x)
          IN  HowItEnded(x, b.epoch, b.stop) /\ (b.old => x \in lost')
    BY <1>1, <1>6, <1>15 DEF MapsFollow
  <2> QED
    BY <1>1, <1>3, <1>15, <2>1 DEF HostIsSound, MapsFollow, HowItEnded, Completed
<1>19. RegistrationsFit'
  <2> SUFFICES ASSUME NEW x \in Keys(pending')
               PROVE LET r == Value(pending', x)
      IN  /\ r.sess = x /\ r.disp \in published' /\ target[r.disp] = x /\ r.reg <= registrations'
          /\ r.disp = d => r.epoch = noted'
          /\ r.end # None => /\ r.end.sess = x /\ (r.epoch = None \/ r.end.epoch = r.epoch)
                             /\ HowItEnded(x, r.end.epoch, r.end.stop)
    BY DEF RegistrationsFit, HowItEnded
  <2>1. CASE x = s
    <3>1. target[d] = s
      BY DEF s
    <3> QED
      BY <1>2, <1>3, <1>10, <1>11, <1>13, <1>16, <2>1, <3>1
  <2>2. CASE x # s
    <3>1. x \in Keys(pending) /\ Value(pending', x) = Value(pending, x)
      BY <1>13, <1>14, <2>2
    <3> DEFINE r == Value(pending, x)
    <3>2. r \in Registrations /\ x \in Sessions
      BY <1>1, <3>1, MapTypes
    <3>3. /\ r.sess = x /\ r.disp \in published /\ target[r.disp] = x /\ r.reg <= registrations
          /\ r.end # None => /\ r.end.sess = x /\ (r.epoch = None \/ r.end.epoch = r.epoch)
                             /\ HowItEnded(x, r.end.epoch, r.end.stop)
      BY <1>1, <3>1 DEF RegistrationsFit
    <3> HIDE DEF r
    <3>4. r.reg <= registrations' /\ r.disp # d
      BY <1>2, <1>3, <1>16, <3>2, <3>3 DEF Registrations
    <3> QED
      BY <3>1, <3>3, <3>4 DEF r
  <2> QED
    BY <2>1, <2>2
<1>20. TasksFit'
  <2> SUFFICES ASSUME NEW t \in tasks'
               PROVE  /\ t.reg <= registrations'
                      /\ t.pc = "settle" =>
                          /\ t.cand.disp \in published' /\ target[t.cand.disp] = t.sess
                          /\ t.cand.disp # d
                          /\ HowItEnded(t.sess, t.cand.end.epoch, t.cand.end.stop)
                          /\ t.cand.outcome = "completed" => Completed(t.sess, t.cand.end.epoch)
                          /\ t.sess \in Keys(pending') /\ Value(pending', t.sess).reg = t.reg
                               => t.cand.disp = Value(pending', t.sess).disp
    BY DEF TasksFit, HowItEnded, Completed
  <2>1. CASE t \in tasks
    <3>1. t.reg \in Nat /\ t.reg <= registrations
      BY <1>1, <2>1 DEF TasksFit, LifecycleTypeOK, Tasks
    <3>2. t.reg <= registrations' /\ t.reg # registrations + 1
      BY <1>2, <1>3, <3>1
    <3>3. t.sess \in Keys(pending') /\ Value(pending', t.sess).reg = t.reg
            => t.sess \in Keys(pending) /\ Value(pending', t.sess) = Value(pending, t.sess)
      BY <1>11, <1>13, <1>14, <3>2
    <3> QED
      BY <1>1, <1>16, <2>1, <3>2, <3>3 DEF TasksFit
  <2>2. CASE t = Task(e0)
    BY <1>2, <1>3, <1>11, <2>2
  <2> QED
    BY <1>3, <2>1, <2>2
<1>21. AwaitedIsWatched'
  <2> SUFFICES ASSUME NEW x \in Sessions \ lost', x = s, forgotten = {} PROVE Watched(x)'
    BY <1>3 DEF AwaitedIsWatched, s
  <2>1. /\ s \notin lost /\ Watched(x) /\ epoch[s] \in Nat /\ ranIn[d] \in Nat
        /\ ranIn[d] <= epoch[s] /\ target[d] = s
    BY <1>1, <1>2, <1>15 DEF AwaitedIsWatched, LifecycleTypeOK, HostIsSound, s
  <2>2. IF Value(epochs, s) = None THEN epoch[s] = 0 ELSE Value(epochs, s) = epoch[s]
    <3>1. s \in Keys(epochs) => Value(epochs, s) = epoch[s] /\ Value(epochs, s) # None
      BY <1>1, <2>1, LifecycleAssumption DEF MapsFollow
    <3>2. s \notin Keys(epochs) => epoch[s] = 0 /\ Value(epochs, s) = None
      BY <1>1, <1>2, <2>1 DEF MapsFollow, Value
    <3> QED
      BY <3>1, <3>2
  <2>3. NotedFits(x)'
    BY <1>3, <1>8, <2>1, <2>2 DEF NotedFits
  <2>4. s \in Keys(pending') /\ Value(pending', s).disp = awaited'
    BY <1>11, <1>13
  <2>5. ASSUME HasFailed(x)' PROVE Coming(x)' \/ AtWork(x)'
    <3>1. HasFailed(x) /\ state[s] = "error" /\ ranIn[d] = epoch[s]
      BY <2>5 DEF HasFailed
    <3>2. epoch[s] # 0
      BY <1>1, <1>2, <3>1 DEF HostIsSound
    <3>3. CASE Coming(x)
      BY <3>3 DEF Coming
    <3>4. CASE InBuffer(x)
      <4>1. s \in Keys(buffered) /\ Value(buffered, s).epoch = epoch[s]
        BY <3>4 DEF InBuffer
      <4>2. s \in Keys(swept)
        BY <1>1, <1>5, <2>1, <4>1 DEF MapsFollow
      <4>3. prior = Value(buffered, s) /\ prior \in BufferedEnds
        BY <1>1, <1>5, <4>1, <4>2, MapTypes DEF Shrinks, prior, swept
      <4>4. SameEpoch(e0, prior)
        BY <2>2, <3>2, <4>1, <4>3 DEF SameEpoch, e0
      <4>5. found
        BY <4>3, <4>4, LifecycleAssumption DEF found
      <4>6. Task(e0) \in tasks' /\ e.end # None
        BY <1>3, <1>10, <1>11, <4>5
      <4> QED
        BY <1>11, <1>13, <4>6 DEF AtWork
    <3> QED
      BY <1>16, <2>1, <3>1, <3>3, <3>4 DEF Watched
  <2> QED
    BY <1>16, <2>3, <2>4, <2>5 DEF Watched
<1> QED
  BY <1>17, <1>18, <1>19, <1>20, <1>21 DEF LifecycleInv

LEMMA PublishesInv ==
  ASSUME LifecycleInv, NEW d \in DOMAIN target, Publishes(d)
  PROVE  LifecycleInv'
<1> DEFINE s == target[d]
<1>1. LifecycleTypeOK
  BY DEF LifecycleInv
<1>2. /\ d \in 1..Len(target) /\ d \notin published /\ s \in Sessions
      /\ published' = published \cup {d}
      /\ UNCHANGED <<epoch, state, target, ranIn, ended, disposed, awaited>>
      /\ attached \subseteq attached'
  BY <1>1 DEF LifecycleTypeOK, Publishes, hostVars
<1>3. attached' \subseteq [sess : Sessions, epoch : Nat \cup {None}, outcome : {None, "completed", "failed"}]
  <2>1. Value(epochs, s) \in Nat \cup {None}
    BY <1>1, NoKey, MapTypes
  <2>2. attached' = attached \/ attached' = attached \cup {[sess |-> s, epoch |-> Value(epochs, s), outcome |-> None]}
    BY DEF Publishes
  <2> HIDE DEF s
  <2> QED
    BY <1>1, <1>2, <2>1, <2>2 DEF LifecycleTypeOK
<1>4. published' \subseteq 1..Len(target) /\ published \subseteq published'
  BY <1>1, <1>2 DEF LifecycleTypeOK
<1>5. CASE UNCHANGED <<epochs, pending, buffered, outcomes, registrations, tasks, lost, noted, forgotten>>
           /\ (awaited # d \/ disposed)
  <2>1. FactsStay
    BY <1>2 DEF FactsStay, HowItEnded, StillHowItEnded, Completed
  <2>2. AwaitedIsWatched'
    <3> SUFFICES ASSUME awaited # None, ~disposed, forgotten = {},
                        NEW x \in Sessions \ lost, x = target[awaited]
                 PROVE  Watched(x)'
      BY <1>2, <1>5 DEF AwaitedIsWatched
    <3>1. (Coming(x)' <=> Coming(x)) /\ (InBuffer(x)' <=> InBuffer(x)) /\ (AtWork(x)' <=> AtWork(x))
      BY <1>2, <1>5 DEF Coming, InBuffer, AtWork
    <3> QED
      BY <1>2, <1>5, <2>1, <3>1, WatchStays
  <2> QED
    BY <1>1, <1>2, <1>3, <1>4, <1>5, <2>2, PendingStays, DoneWith DEF LifecycleTypeOK
<1>6. CASE awaited # d /\ Retired(s) /\ UNCHANGED <<epochs, buffered, outcomes, registrations, tasks, lost, noted>>
  BY <1>2, <1>3, <1>4, <1>6, RetiredInv
<1>7. CASE awaited = d /\ ~disposed /\ Registered(d)
  BY <1>2, <1>3, <1>7, RegisteredInv
<1> QED
  BY <1>5, <1>6, <1>7 DEF Publishes, Registered, mapVars, excuses

\* The buffer after an end was put into it: that end is there, unless what made
\* place for it was lost.
LEMMA BufferedEnd ==
  ASSUME LifecycleTypeOK, NEW end \in EpochEnds
  PROVE  LET s == end.sess
             b == Buffered(buffered, s, end)
         IN  /\ IsMap(b, BufferedEnds) /\ Keys(b) \subseteq Keys(buffered) \cup {s}
             /\ s \in Keys(buffered) \cup Keys(b)
             /\ s \in Keys(b) => Value(b, s) = [epoch |-> end.epoch, stop |-> end.stop, old |-> FALSE]
             /\ \A x \in Keys(b) \ {s} :
                  Value(b, x) = Value(buffered, x) /\ ~Value(buffered, x).old
<1> DEFINE s == end.sess
           w == [epoch |-> end.epoch, stop |-> end.stop, old |-> FALSE]
           swept == Swept(buffered)
           kept == With(swept, s, w)
           b == Buffered(buffered, s, end)
<1>1. s \in Sessions /\ w \in BufferedEnds
  BY DEF EpochEnds, BufferedEnds
<1>2. /\ IsMap(swept, BufferedEnds) /\ Keys(swept) \subseteq Keys(buffered)
      /\ \A x \in Keys(swept) : Value(swept, x) = Value(buffered, x) /\ ~Value(buffered, x).old
  BY MapSwept DEF LifecycleTypeOK, Shrinks
<1>3. b = IF Len(kept) > BufferMax THEN Tail(kept) ELSE kept
  BY DEF Buffered
<1>4. s \notin Keys(swept) => kept = Append(swept, <<s, w>>)
  BY DEF With
<1> HIDE DEF w, swept, s
<1>5. /\ IsMap(kept, BufferedEnds) /\ Keys(kept) = Keys(swept) \cup {s} /\ Value(kept, s) = w
      /\ \A x \in Keys(swept) \ {s} : Value(kept, x) = Value(swept, x)
  BY <1>1, <1>2, MapWith
<1> HIDE DEF kept, b
<1>6. Shrinks(kept, b, BufferedEnds)
  <2>1. CASE Len(kept) > BufferMax
    <3>1. kept # <<>>
      <4>1. Len(<<>>) = 0
        OBVIOUS
      <4> QED
        BY <2>1, <4>1, LifecycleAssumption
    <3> QED
      BY <1>3, <1>5, <2>1, <3>1, MapTail
  <2>2. CASE ~(Len(kept) > BufferMax)
    BY <1>3, <1>5, <2>2 DEF Shrinks
  <2> QED
    BY <2>1, <2>2
<1>7. s \in Keys(swept) \cup Keys(b)
  <2> SUFFICES ASSUME s \notin Keys(swept) PROVE s \in Keys(b)
    OBVIOUS
  <2>1. swept \in Seq(Sessions \X BufferedEnds) /\ <<s, w>> \in Sessions \X BufferedEnds
    BY <1>1, <1>2 DEF IsMap
  <2>2. /\ Len(kept) = Len(swept) + 1 /\ Len(swept) \in Nat /\ kept[Len(swept) + 1] = <<s, w>>
        /\ kept \in Seq(Sessions \X BufferedEnds)
    BY <1>4, <2>1
  <2>3. CASE Len(kept) > BufferMax
    <3>1. Len(swept) \in Nat \ {0}
      BY <2>2, <2>3, LifecycleAssumption
    <3>2. /\ b = Tail(kept) /\ Len(b) = Len(swept) /\ b[Len(swept)] = kept[Len(swept) + 1]
          /\ DOMAIN b = 1..Len(swept)
      BY <1>3, <2>2, <2>3, <3>1
    <3>3. Len(swept) \in DOMAIN b /\ b[Len(swept)][1] = s
      BY <2>2, <3>1, <3>2
    <3> QED
      BY <3>3 DEF Keys
  <2>4. CASE ~(Len(kept) > BufferMax)
    BY <1>3, <1>5, <2>4
  <2> QED
    BY <2>3, <2>4
<1> QED
  BY <1>2, <1>5, <1>6, <1>7 DEF Shrinks, b, w, s

\* What every case of Announces rests on: the end is one that was, and the maps
\* know what they are asked.
LEMMA AnnouncedEnd ==
  ASSUME LifecycleInv, NEW end \in ended
  PROVE  LET s == end.sess
             entry == Value(pending, s)
         IN  /\ end \in EpochEnds /\ s \in Sessions /\ end.epoch \in Nat \ {0} /\ end.stop \in Stops
             /\ HowItEnded(s, end.epoch, end.stop)
             /\ entry # None => s \in Keys(pending) /\ entry \in Registrations
             /\ s \in Keys(pending) => entry # None /\ entry \in Registrations
             /\ ~disposed /\ s \notin lost /\ epoch[s] > 0
                  => s \in Keys(epochs) /\ Value(epochs, s) = epoch[s]
<1> DEFINE s == end.sess
<1>1. LifecycleTypeOK /\ HostIsSound /\ MapsFollow
  BY DEF LifecycleInv
<1>2. end \in EpochEnds /\ s \in Sessions /\ end.epoch \in Nat \ {0} /\ end.stop \in Stops
  BY <1>1 DEF LifecycleTypeOK, EpochEnds
<1>3. HowItEnded(s, end.epoch, end.stop)
  BY <1>1 DEF HostIsSound
<1>4. \A x \in Keys(pending) : Value(pending, x) # None /\ Value(pending, x) \in Registrations
  BY <1>1, MapTypes, LifecycleAssumption
<1>5. Value(pending, s) # None => s \in Keys(pending)
  BY NoKey
<1>6. ~disposed /\ s \notin lost /\ epoch[s] > 0 => s \in Keys(epochs) /\ Value(epochs, s) = epoch[s]
  BY <1>1, <1>2 DEF MapsFollow
<1> QED
  BY <1>2, <1>3, <1>4, <1>5, <1>6

LEMMA AnnouncesOurs ==
  ASSUME LifecycleInv, NEW end \in ended, Announces(end),
         Value(pending, end.sess) # None, ~OtherEpoch(Value(pending, end.sess), end)
  PROVE  LifecycleInv'
<1> DEFINE s == end.sess
           entry == Value(pending, s)
           e == [entry EXCEPT !.end = end]
<1>1. LifecycleTypeOK /\ HostIsSound /\ MapsFollow /\ RegistrationsFit /\ TasksFit /\ AwaitedIsWatched
  BY DEF LifecycleInv
<1>2. /\ end \in EpochEnds /\ s \in Sessions /\ end.epoch \in Nat \ {0} /\ end.stop \in Stops
      /\ HowItEnded(s, end.epoch, end.stop) /\ s \in Keys(pending) /\ entry \in Registrations
  BY AnnouncedEnd
<1>3. /\ ended' = ended \ {end} /\ pending' = With(pending, s, e) /\ tasks' = tasks \cup {Task(entry)}
      /\ forgotten' = IF awaited # None /\ entry.disp # awaited /\ s = target[awaited]
                      THEN forgotten \cup {"credited"} ELSE forgotten
      /\ UNCHANGED <<epoch, state, target, ranIn, epochs, buffered, outcomes, attached,
                     registrations, disposed, awaited, published, lost, noted>>
  <2>1. ~disposed
    BY <1>1, <1>2, EmptyMap DEF MapsFollow
  <2> QED
    BY <2>1 DEF Announces
<1>4. /\ e \in Registrations /\ e.end = end /\ e.reg = entry.reg /\ e.sess = entry.sess
      /\ e.disp = entry.disp /\ e.epoch = entry.epoch /\ end # None
  BY <1>2, LifecycleAssumption DEF Registrations
<1>5. /\ entry.sess = s /\ entry.disp \in published /\ target[entry.disp] = s /\ entry.reg <= registrations
      /\ entry.disp = awaited => entry.epoch = noted
  BY <1>1, <1>2 DEF RegistrationsFit
<1>6. /\ Task(entry).pc = "consume" /\ Task(entry).sess = s /\ Task(entry).reg = entry.reg
      /\ Task(entry) \in Tasks
  BY <1>2, <1>5 DEF Task, Tasks, Registrations
<1>7. entry.epoch = None \/ end.epoch = entry.epoch
  BY DEF OtherEpoch
<1> HIDE DEF e, entry
<1>8. /\ IsMap(pending', Registrations) /\ Keys(pending') = Keys(pending) /\ Value(pending', s) = e
      /\ \A x \in Keys(pending) \ {s} : Value(pending', x) = Value(pending, x)
  <2>1. IsMap(pending, Registrations) /\ s \in Keys(pending) /\ s \in Sessions
    BY <1>1, <1>2 DEF LifecycleTypeOK
  <2> HIDE DEF s
  <2>2. /\ IsMap(With(pending, s, e), Registrations)
        /\ Keys(With(pending, s, e)) = Keys(pending) \cup {s} /\ Value(With(pending, s, e), s) = e
        /\ \A x \in Keys(pending) \ {s} : Value(With(pending, s, e), x) = Value(pending, x)
    BY <1>4, <2>1, MapWith
  <2> QED
    BY <1>3, <2>1, <2>2
<1>9. LifecycleTypeOK'
  BY <1>1, <1>3, <1>6, <1>8 DEF LifecycleTypeOK
<1>10. ~disposed
  BY <1>1, <1>2, EmptyMap DEF MapsFollow
<1>11. HostIsSound' /\ MapsFollow' /\ FactsStay
  BY <1>1, <1>3, <1>10 DEF HostIsSound, MapsFollow, FactsStay, HowItEnded, StillHowItEnded, Completed
<1>12. RegistrationsFit'
  <2> SUFFICES ASSUME NEW x \in Keys(pending')
               PROVE LET r == Value(pending', x)
      IN  /\ r.sess = x /\ r.disp \in published /\ target[r.disp] = x /\ r.reg <= registrations
          /\ r.disp = awaited => r.epoch = noted
          /\ r.end # None => /\ r.end.sess = x /\ (r.epoch = None \/ r.end.epoch = r.epoch)
                             /\ HowItEnded(x, r.end.epoch, r.end.stop)
    BY <1>3 DEF RegistrationsFit, HowItEnded
  <2>1. CASE x = s
    BY <1>2, <1>4, <1>5, <1>7, <1>8, <2>1
  <2>2. CASE x # s
    BY <1>1, <1>8, <2>2 DEF RegistrationsFit
  <2> QED
    BY <2>1, <2>2
<1>13. TasksFit'
  <2> SUFFICES ASSUME NEW t \in tasks'
               PROVE  /\ t.reg <= registrations
                      /\ t.pc = "settle" =>
                          /\ t.cand.disp \in published /\ target[t.cand.disp] = t.sess
                          /\ t.cand.disp = awaited => IF noted = None THEN t.cand.outcome # "completed"
                                                      ELSE t.cand.end.epoch = noted
                          /\ HowItEnded(t.sess, t.cand.end.epoch, t.cand.end.stop)
                          /\ t.cand.outcome = "completed" => Completed(t.sess, t.cand.end.epoch)
                          /\ t.sess \in Keys(pending') /\ Value(pending', t.sess).reg = t.reg
                               => t.cand.disp = Value(pending', t.sess).disp
    BY <1>3 DEF TasksFit, HowItEnded, Completed
  <2>1. CASE t \in tasks
    <3>1. t.sess \in Keys(pending') =>
            /\ t.sess \in Keys(pending)
            /\ Value(pending', t.sess).reg = Value(pending, t.sess).reg
            /\ Value(pending', t.sess).disp = Value(pending, t.sess).disp
      BY <1>4, <1>8 DEF entry
    <3> QED
      BY <1>1, <2>1, <3>1 DEF TasksFit
  <2>2. CASE t = Task(entry)
    BY <1>5, <1>6, <2>2
  <2> QED
    BY <1>3, <2>1, <2>2
<1>14. AwaitedIsWatched'
  <2> SUFFICES ASSUME awaited # None, forgotten' = {},
                      NEW x \in Sessions \ lost, x = target[awaited]
               PROVE  Watched(x)'
    BY <1>3 DEF AwaitedIsWatched
  <2> DEFINE r == Value(pending, x)
  \* The end of a session under watch is credited to no other dispatch.
  <2>1. forgotten = {} /\ (x = s => entry.disp = awaited /\ awaited \in published)
    BY <1>3, <1>5
  <2>2. InBuffer(x)' <=> InBuffer(x)
    BY <1>3 DEF InBuffer
  <2>3. x # s /\ Coming(x) => Coming(x)'
    BY <1>3 DEF Coming
  <2>4. ASSUME awaited \in published, x \in Keys(pending), r.disp = awaited
        PROVE  /\ x \in Keys(pending') /\ Value(pending', x).disp = awaited
               /\ Coming(x) \/ AtWork(x) => Coming(x)' \/ AtWork(x)'
    <3>1. CASE x = s
      <4>1. Value(pending', x) = e /\ Task(entry) \in tasks'
        BY <1>3, <1>8, <3>1
      <4>2. AtWork(x)'
        BY <1>4, <1>6, <3>1, <4>1 DEF AtWork
      <4> QED
        BY <1>4, <1>8, <2>4, <3>1, <4>1, <4>2 DEF entry
    <3>2. CASE x # s
      <4>1. x \in Keys(pending') /\ Value(pending', x) = r
        BY <1>8, <2>4, <3>2
      <4>2. AtWork(x) => AtWork(x)'
        BY <1>3, <4>1 DEF AtWork
      <4> QED
        BY <2>3, <2>4, <3>2, <4>1, <4>2
    <3> QED
      BY <3>1, <3>2
  <2> QED
    BY <1>3, <1>10, <1>11, <2>1, <2>2, <2>3, <2>4, WatchStays
<1> QED
  BY <1>9, <1>11, <1>12, <1>13, <1>14 DEF LifecycleInv

LEMMA AnnouncesOfNoDispatch ==
  ASSUME LifecycleInv, NEW end \in ended, Announces(end),
         disposed \/ Value(pending, end.sess) = None \/ OtherEpoch(Value(pending, end.sess), end)
  PROVE  LifecycleInv'
<1> DEFINE s == end.sess
           entry == Value(pending, s)
           newer == entry # None /\ OtherEpoch(entry, end) /\ end.epoch = Value(epochs, s)
           buf   == ~disposed /\ (entry = None \/ newer)
           b     == Buffered(buffered, s, end)
           w     == [epoch |-> end.epoch, stop |-> end.stop, old |-> FALSE]
<1>1. LifecycleTypeOK /\ HostIsSound /\ MapsFollow /\ RegistrationsFit /\ AwaitedIsWatched
  BY DEF LifecycleInv
<1>2. /\ end \in EpochEnds /\ s \in Sessions /\ end.epoch \in Nat \ {0} /\ end.stop \in Stops
      /\ HowItEnded(s, end.epoch, end.stop)
      /\ entry # None => s \in Keys(pending) /\ entry \in Registrations
      /\ s \in Keys(pending) => entry # None /\ entry \in Registrations
      /\ ~disposed /\ s \notin lost /\ epoch[s] > 0
           => s \in Keys(epochs) /\ Value(epochs, s) = epoch[s]
  BY AnnouncedEnd
<1>3. disposed => entry = None
  <2>1. disposed => Keys(pending) = {}
    BY <1>1, EmptyMap DEF MapsFollow
  <2> QED
    BY <1>2, <2>1
<1>4. /\ ended' = ended \ {end} /\ tasks' = tasks
      /\ pending' = IF newer THEN Without(pending, s) ELSE pending
      /\ buffered' = IF buf THEN b ELSE buffered
      /\ lost' = IF buf THEN lost \cup (Keys(buffered) \ Keys(buffered')) \cup
                             ({s} \cap {x \in Keys(buffered) : Value(buffered, x).epoch # end.epoch})
                 ELSE lost
      /\ UNCHANGED <<epoch, state, target, ranIn, epochs, outcomes, attached,
                     registrations, disposed, awaited, published, noted, forgotten>>
  BY <1>3 DEF Announces
<1>5. /\ IsMap(b, BufferedEnds) /\ Keys(b) \subseteq Keys(buffered) \cup {s}
      /\ s \in Keys(buffered) \cup Keys(b)
      /\ s \in Keys(b) => Value(b, s) = w
      /\ \A x \in Keys(b) \ {s} : Value(b, x) = Value(buffered, x) /\ ~Value(buffered, x).old
  BY <1>1, <1>2, BufferedEnd
<1>6. w.epoch = end.epoch /\ w.stop = end.stop /\ w.old = FALSE
  OBVIOUS
<1>7. /\ Shrinks(pending, pending', Registrations)
      /\ \A x \in Keys(pending) \ {s} : x \in Keys(pending') /\ Value(pending', x) = Value(pending, x)
      /\ ~newer => pending' = pending
  <2>1. Shrinks(pending, Without(pending, s), Registrations) /\ Keys(Without(pending, s)) = Keys(pending) \ {s}
    BY <1>1, MapWithout DEF LifecycleTypeOK
  <2> HIDE DEF newer, s
  <2> QED
    BY <1>1, <1>4, <2>1, PendingStays DEF Shrinks
<1> HIDE DEF b, w, buf, newer, entry
<1>8. lost \subseteq lost' /\ lost' \subseteq Sessions
  BY <1>1, <1>2, <1>4, MapTypes DEF LifecycleTypeOK
<1>9. LifecycleTypeOK'
  BY <1>1, <1>4, <1>5, <1>7, <1>8 DEF LifecycleTypeOK, Shrinks
<1>10. HostIsSound' /\ FactsStay
  BY <1>1, <1>4 DEF HostIsSound, FactsStay, HowItEnded, StillHowItEnded, Completed
<1>11. MapsFollow'
  <2>1. \A x \in Keys(buffered') :
          LET c == Value(buffered', x)
          IN  HowItEnded(x, c.epoch, c.stop) /\ (c.old => x \in lost')
    <3>1. CASE buf
      <4> SUFFICES ASSUME NEW x \in Keys(b)
                   PROVE  /\ HowItEnded(x, Value(b, x).epoch, Value(b, x).stop)
                          /\ Value(b, x).old => x \in lost'
        BY <1>4, <3>1
      <4>1. CASE x = s
        BY <1>2, <1>5, <1>6, <4>1
      <4>2. CASE x # s
        <5>1. x \in Keys(buffered) /\ Value(b, x) = Value(buffered, x)
          BY <1>5, <4>2
        <5> QED
          BY <1>1, <1>8, <5>1 DEF MapsFollow
      <4> QED
        BY <4>1, <4>2
    <3>2. CASE ~buf
      BY <1>1, <1>4, <3>2 DEF MapsFollow
    <3> QED
      BY <3>1, <3>2
  <2>2. disposed => pending' = <<>> /\ buffered' = <<>>
    BY <1>1, <1>3, <1>4 DEF MapsFollow, buf, newer
  <2>3. ~disposed => \A x \in Sessions \ lost' : epoch[x] > 0 => x \in Keys(epochs)
    BY <1>1, <1>8 DEF MapsFollow
  <2> QED
    BY <1>1, <1>4, <2>1, <2>2, <2>3 DEF MapsFollow, HowItEnded, Completed
<1>12. RegistrationsFit' /\ TasksFit'
  BY <1>1, <1>4, <1>7, <1>10, RegistrationsStay, TasksStay DEF LifecycleTypeOK
<1>13. AwaitedIsWatched'
  <2> SUFFICES ASSUME awaited # None, ~disposed, forgotten = {},
                      NEW x \in Sessions \ lost', x = target[awaited]
               PROVE  Watched(x)'
    BY <1>4 DEF AwaitedIsWatched
  <2> DEFINE r == Value(pending, x)
  <2>1. x \notin lost /\ Watched(x)
    BY <1>1, <1>8 DEF AwaitedIsWatched
  \* An end that is not put into the buffer is not of the current epoch.
  <2>2. x = s /\ end.epoch = epoch[x] => buf
    <3> SUFFICES ASSUME x = s, end.epoch = epoch[x], ~buf PROVE FALSE
      OBVIOUS
    <3>1. epoch[s] > 0 /\ Value(epochs, s) = epoch[s]
      BY <1>2, <2>1
    <3> QED
      BY <3>1 DEF buf, newer, entry
  <2>3. ASSUME InBuffer(x) PROVE InBuffer(x)'
    <3>1. x \in Keys(buffered) /\ Value(buffered, x).epoch = epoch[x]
      BY <2>3 DEF InBuffer
    <3>2. x \in Keys(buffered') /\ Value(buffered', x).epoch = epoch[x]
      <4>1. CASE ~buf
        BY <1>4, <3>1, <4>1
      <4>2. CASE buf
        <5>1. x \in Keys(buffered')
          BY <1>4, <3>1, <4>2
        <5>2. CASE x # s
          BY <1>4, <1>5, <3>1, <4>2, <5>1, <5>2
        <5>3. CASE x = s
          <6>1. end.epoch = epoch[x]
            BY <1>4, <3>1, <4>2, <5>3
          <6> QED
            BY <1>4, <1>5, <1>6, <4>2, <5>1, <5>3, <6>1
        <5> QED
          BY <5>2, <5>3
      <4> QED
        BY <4>1, <4>2
    <3> QED
      BY <1>4, <3>2 DEF InBuffer
  <2>4. ~(x = s /\ end.epoch = epoch[x]) /\ Coming(x) => Coming(x)'
    BY <1>4 DEF Coming
  <2>5. Coming(x) => Coming(x)' \/ InBuffer(x)'
    <3> SUFFICES ASSUME x = s, end.epoch = epoch[x] PROVE InBuffer(x)'
      BY <2>4
    <3>1. buf /\ x \in Keys(buffered')
      BY <1>4, <1>5, <2>2
    <3>2. Value(buffered', x).epoch = epoch[x]
      BY <1>4, <1>5, <1>6, <3>1
    <3> QED
      BY <1>4, <3>1, <3>2 DEF InBuffer
  <2>6. ASSUME awaited \in published, x \in Keys(pending), r.disp = awaited, Held(x)
        PROVE  /\ x \in Keys(pending') /\ Value(pending', x).disp = awaited
               /\ Coming(x) \/ AtWork(x) => Coming(x)' \/ AtWork(x)'
    <3>1. ~(x = s /\ end.epoch = epoch[x]) /\ x \in Keys(pending') /\ Value(pending', x) = r
      <4>1. CASE x = s
        <5>1. entry = r /\ entry # None /\ OtherEpoch(entry, end) /\ entry.epoch \in {None, epoch[s]}
          BY <1>1, <1>2, <2>6, <4>1 DEF RegistrationsFit, Held, entry
        <5>2. end.epoch # epoch[s] /\ entry.epoch # None
          BY <5>1 DEF OtherEpoch
        <5>3. epoch[s] # 0
          BY <1>2, <5>2 DEF HowItEnded, LifecycleTypeOK
        <5>4. ~newer
          BY <1>1, <1>2, <2>1, <4>1, <5>2, <5>3 DEF newer, LifecycleTypeOK
        <5> QED
          BY <1>7, <2>6, <4>1, <5>2, <5>4
      <4>2. CASE x # s
        BY <1>7, <2>6, <4>2
      <4> QED
        BY <4>1, <4>2
    <3>2. AtWork(x) => AtWork(x)'
      BY <1>4, <3>1 DEF AtWork
    <3> QED
      BY <2>4, <2>6, <3>1, <3>2
  <2> QED
    BY <1>4, <1>10, <2>1, <2>3, <2>5, <2>6, WatchStays
<1> QED
  BY <1>9, <1>10, <1>11, <1>12, <1>13 DEF LifecycleInv

LEMMA LifecycleStep ==
  ASSUME LifecycleInv, LifecycleNext
  PROVE  LifecycleInv'
<1>1. CASE \E s \in Sessions : Starts(s)
  BY <1>1, StartsInv
<1>2. CASE \E s \in Sessions : Takes(s)
  BY <1>2, TakesInv
<1>3. CASE \E s \in Sessions : Sends(s)
  BY <1>3, SendsInv
<1>4. CASE \E s \in Sessions : \E stop \in {"completed", "error"} : Ends(s, stop)
  BY <1>4, EndsInv DEF Stops
<1>5. CASE \E end \in ended : Announces(end)
  <2>1. PICK end \in ended : Announces(end)
    BY <1>5
  <2>2. disposed => Value(pending, end.sess) = None
    <3>1. disposed => Keys(pending) = {}
      BY EmptyMap DEF LifecycleInv, MapsFollow
    <3> QED
      BY <3>1, NoKey
  <2> QED
    BY <2>1, <2>2, AnnouncesOurs, AnnouncesOfNoDispatch
<1>6. CASE \E a \in attached : \E outcome \in {"completed", "failed"} : ResultSettles(a, outcome)
  BY <1>6, ResultSettlesInv
<1>7. CASE \E d \in DOMAIN target : Publishes(d) \/ Retires(d)
  BY <1>7, PublishesInv, RetiresInv
<1>8. CASE \E t \in tasks : Consumes(t) \/ Settles(t)
  BY <1>8, ConsumesInv, SettlesInv
<1>9. CASE Expires \/ Disposes \/ SettledByTurn \/ Blocked
  BY <1>9, ExpiresInv, DisposesInv, SettledByTurnInv, BlockedInv
<1> QED
  BY <1>1, <1>2, <1>3, <1>4, <1>5, <1>6, <1>7, <1>8, <1>9 DEF LifecycleNext

LEMMA BlocksFollow == LifecycleInv => BlocksOnOwnEpoch
BY DEF LifecycleInv, TasksFit, BlocksOnOwnEpoch, StillAwaited

LEMMA FailuresFollow == LifecycleInv => FailureIsNotMissed
<1> SUFFICES ASSUME LifecycleInv, awaited # None, awaited \in published, ~disposed,
                    NEW s, s = target[awaited], ranIn[awaited] = epoch[s], state[s] = "error",
                    s \notin lost, ~RegisteredInOther, forgotten = {}, ~ResultArrived
             PROVE  \/ \E end \in ended : end.sess = s
                    \/ \E t \in tasks : t.sess = s
  BY DEF FailureIsNotMissed
<1>1. s \in Sessions /\ Watched(s)
  BY AwaitedSession DEF LifecycleInv, AwaitedIsWatched
<1>2. Held(s)
  BY DEF Held, RegisteredInOther, ResultArrived, Completed
<1> QED
  BY <1>1, <1>2 DEF Watched, HasFailed, Coming, AtWork

LEMMA LifecycleIdle ==
  ASSUME LifecycleInv, UNCHANGED lifecycleVars
  PROVE  LifecycleInv'
<1>1. UNCHANGED <<epoch, state, target, ranIn, ended, epochs, pending, buffered, outcomes, attached,
                  registrations, disposed, awaited, published, tasks, lost, noted, forgotten>>
  BY DEF lifecycleVars, excuses
<1>2. LifecycleTypeOK' /\ HostIsSound' /\ MapsFollow' /\ RegistrationsFit' /\ TasksFit'
  BY <1>1 DEF LifecycleInv, LifecycleTypeOK, HostIsSound, MapsFollow, RegistrationsFit, TasksFit,
              HowItEnded, Completed
<1>3. AwaitedIsWatched'
  BY <1>1 DEF LifecycleInv, AwaitedIsWatched, Watched, NotedFits, Held, HasFailed, Coming, InBuffer,
              AtWork, Completed
<1> QED
  BY <1>2, <1>3 DEF LifecycleInv

\* The maps, the tasks and what the Host announces agree in every state, for any
\* number of sessions, dispatches and epochs and any size of the maps.
THEOREM LifecycleHolds == Spec => []LifecycleInv
<1>1. Init => LifecycleInv
  BY InitLifecycleInv DEF Init
<1>2. ASSUME LifecycleInv, [Next]_pluginVars PROVE LifecycleInv'
  BY <1>2, LifecycleStep, LifecycleIdle DEF Next, pluginVars
<1> QED
  BY <1>1, <1>2, PTL DEF Spec

\* A Run is blocked for a failed activation only on an end of the epoch that its
\* registration is of (the one that took the message, unless RegisteredInOther),
\* whatever epochs, results, retirements and evictions came in between; only a
\* registration made before any start of its session was known takes the first
\* end that comes.
THEOREM BlocksAreFounded == Spec => []BlocksOnOwnEpoch
BY LifecycleHolds, BlocksFollow, PTL

\* The failure of the epoch that took an awaited dispatch is with the Host or in
\* the hands of settleActivation, in sessions continued warm or cold; the ways in
\* which the code does lose it are the ones that FailureIsNotMissed names: an
\* entry evicted, expired or replaced, a registration of another epoch, a session
\* retired under its registration, an end credited to an earlier dispatch.
THEOREM FailuresArrive == Spec => []FailureIsNotMissed
BY LifecycleHolds, FailuresFollow, PTL
=============================================================================
