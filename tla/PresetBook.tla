----------------------------- MODULE PresetBook -----------------------------
(***************************************************************************)
(* The Agent Presets registered for the Roles and the Judge of a Run:      *)
(* RolePresetBook of src/plugin/presets.ts with its callers in             *)
(* src/plugin/host.ts and src/index.ts.                                    *)
(*                                                                         *)
(* The Host refuses to register an id twice; registering and unregistering *)
(* take their time.  One Run is followed to its end.                       *)
(***************************************************************************)
EXTENDS Naturals, FiniteSets

CONSTANTS
  Scopes,       \* the Role keys and the Judge's scope
  MaxEnsures    \* bound: calls of ensure

VARIABLES
  registered,   \* the Host's registry: scopes
  book,         \* byRun.get(runId): scopes
  calls,        \* calls at work: [no, what, scope, pc]
  returned,     \* calls of ensure so far
  phase,        \* of the Run: "open", "closing" (releaseRun is at work), "closed"
  toRelease,    \* scopes releaseRun has yet to release
  overlapped,   \* an ensure was at work while releaseRun was
  leftover      \* scopes whose unregister failed

bookVars == <<registered, book, calls, returned, phase, toRelease, overlapped, leftover>>

BookInit ==
  /\ registered = {} /\ book = {} /\ calls = {} /\ returned = 0
  /\ phase = "open" /\ toRelease = {} /\ overlapped = FALSE /\ leftover = {}

Ensuring == {c \in calls : c.what = "ensure"}

\* ensure: a scope in the book is registered.  Else the Manager's document is
\* read and the derived preset is registered.
Ensures(scope) ==
  /\ returned < MaxEnsures
  /\ returned' = returned + 1
  /\ calls' = IF scope \in book THEN calls
              ELSE calls \cup {[no |-> returned', what |-> "ensure", scope |-> scope, pc |-> "register"]}
  /\ overlapped' = (overlapped \/ (scope \notin book /\ phase # "open"))
  /\ UNCHANGED <<registered, book, phase, toRelease, leftover>>

\* register answers: the id is new, or taken and the dispatch fails.
Registers(c) ==
  /\ c.what = "ensure" /\ c.pc = "register"
  /\ \/ /\ c.scope \notin registered
        /\ registered' = registered \cup {c.scope}
        /\ calls' = (calls \ {c}) \cup {[c EXCEPT !.pc = "book"]}
     \/ calls' = calls \ {c} /\ UNCHANGED registered
  /\ UNCHANGED <<book, returned, phase, toRelease, overlapped, leftover>>

Books(c) ==
  /\ c.what = "ensure" /\ c.pc = "book"
  /\ book' = book \cup {c.scope} /\ calls' = calls \ {c}
  /\ UNCHANGED <<registered, returned, phase, toRelease, overlapped, leftover>>

WhileUnregistering(scope) == book
\* The entry goes before the unregister is awaited.
Unbooked(scope) == book \ {scope}

Release(n, scope) == [no |-> n, what |-> "release", scope |-> scope, pc |-> "unregister"]
\* release, of a Judge or of a node-scoped Role that was drained.
Releases(scope) ==
  /\ scope \in book
  /\ book' = Unbooked(scope)
  /\ \E n \in 1..MaxEnsures :
       /\ ~\E c \in calls : c.what = "release" /\ c.no = n
       /\ calls' = calls \cup {Release(n, scope)}
  /\ UNCHANGED <<registered, returned, phase, toRelease, overlapped, leftover>>

Drains(scope) == phase = "open" /\ Releases(scope)

\* unregister answers, or fails, which is only logged.
Unregisters(c) ==
  /\ c.what = "release" /\ calls' = calls \ {c}
  /\ \/ registered' = registered \ {c.scope} /\ UNCHANGED leftover
     \/ leftover' = leftover \cup {c.scope} /\ UNCHANGED registered
  /\ UNCHANGED <<book, returned, phase, toRelease, overlapped>>

NoScopes == {}
\* releaseRun takes the scopes there are and releases one after the other.
ToRelease == book

Closes ==
  /\ phase = "open" /\ phase' = "closing" /\ toRelease' = ToRelease
  /\ overlapped' = (Ensuring # {})
  /\ UNCHANGED <<registered, book, calls, returned, leftover>>

Working == \E c \in calls : c.what = "release" /\ c.no = 0
ReleasesNext ==
  /\ phase = "closing" /\ ~Working
  /\ \E scope \in toRelease :
       /\ toRelease' = toRelease \ {scope}
       /\ book' = Unbooked(scope)
       /\ calls' = IF scope \in book THEN calls \cup {Release(0, scope)} ELSE calls
  /\ UNCHANGED <<registered, returned, phase, overlapped, leftover>>

\* byRun.delete, when the last unregister has answered.
CloseEnds ==
  /\ phase = "closing" /\ toRelease = {} /\ ~Working
  /\ phase' = "closed" /\ book' = {}
  /\ UNCHANGED <<registered, calls, returned, toRelease, overlapped, leftover>>

BookNext ==
  \/ \E scope \in Scopes : Ensures(scope) \/ Drains(scope)
  \/ \E c \in calls : Registers(c) \/ Books(c) \/ Unregisters(c)
  \/ Closes \/ ReleasesNext \/ CloseEnds

-----------------------------------------------------------------------------
(* Properties.                                                             *)

\* A scope that the book has is registered: whoever is told its id can mount
\* it, also while calls of ensure and release overlap.
BookedIsMountable == book \subseteq registered

\* When a Run is closed and every call is over, none of its presets is left,
\* unless an unregister failed or an ensure overlapped the closing.
NothingStaysRegistered ==
  phase = "closed" /\ calls = {} /\ ~overlapped => registered \subseteq leftover
=============================================================================
