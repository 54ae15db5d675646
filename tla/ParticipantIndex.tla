-------------------------- MODULE ParticipantIndex --------------------------
(***************************************************************************)
(* Whose turn ended, and may its session be inspected:                     *)
(* src/plugin/participants.ts with the listeners of src/index.ts that      *)
(* feed it.                                                                *)
(*                                                                         *)
(* The Host materializes a session as an Agent, again and again (a         *)
(* generation), runs turns and jobs in it, and lists its descendants from  *)
(* descriptors that appear after the Agent and vanish after its end.  The  *)
(* index keeps an Agent per session as evidence, a route to the workspace, *)
(* and tombstones of orphaned work; it reads the row of the work order.    *)
(* The session Root, a Role's, is inspected; the others descend from it.   *)
(***************************************************************************)
EXTENDS Naturals, FiniteSets, Functions

CONSTANTS
  Family,      \* sessions
  Root, NoOne,
  Parent,      \* header.parentSession; NoOne of Root
  Members,     \* the sessions a work order may refer to
  MaxGens,     \* bound: generations of all sessions
  MaxTurns,    \* bound: turn ends being resolved at a time
  MaxJobs      \* bound: sessions with a job at a time

ASSUME TreeAssumption ==
  /\ Root \in Family /\ NoOne \notin Family /\ Members \subseteq Family
  /\ Parent \in [Family -> Family \cup {NoOne}] /\ Parent[Root] = NoOne
  /\ MaxGens \in Nat /\ MaxTurns \in Nat /\ MaxJobs \in Nat

VARIABLES
  \* the Host: generations so far, whether the last is live, works, has a job
  gen, live, busy, job, described,
  orphaned,       \* sessions whose work outlived their Agent
  \* the work order row: the sessions it refers to
  row,
  \* the index
  route, exact, provisional, tombstones, parents,
  turns,          \* turn ends being resolved
  doubted,        \* sessions kept on no proof: a failed probe, a pending predecessor
  inspection

hostSide  == <<gen, live, busy, job, described, orphaned>>
indexSide == <<route, exact, provisional, tombstones, parents, turns, doubted>>
indexVars == <<hostSide, row, indexSide, inspection>>

NoRow == [members |-> {}, exists |-> FALSE, pending |-> FALSE]
Idle  == [pc |-> "none", agents |-> {}, required |-> {}, waiting |-> FALSE,
          listed |-> {}, running |-> {}, verdict |-> "none"]

IndexInit ==
  /\ gen = [s \in Family |-> 0] /\ live = {} /\ busy = {} /\ job = {}
  /\ described = {Root} /\ orphaned = {} /\ row = NoRow
  /\ route = [s \in Family |-> "none"] /\ exact = [s \in Family |-> 0]
  /\ provisional = {} /\ tombstones = {} /\ parents = {} /\ turns = {} /\ doubted = {}
  /\ inspection = Idle

-----------------------------------------------------------------------------
(* The tree of sessions.                                                   *)

\* Sets of sessions that hold the parents of those of them that are known.
ClosedUpwards(known) ==
  {S \in SUBSET Family : \A x \in S \cap known : Parent[x] \in S \cup {NoOne}}
\* The way up from a session as long as the parents are known: the least such
\* set with the session in it.
Upwards(s, known) == {x \in Family : \A S \in ClosedUpwards(known) : s \in S => x \in S}
Tree == {s \in Family : Root \in Upwards(s, Family)}
\* liveDescendantIds: ids and the live agents below them.
LiveTree(ids) == {s \in Family : Upwards(s, live \ ids) \cap ids # {}}
\* recordParentSession of the agents of these sessions.
Recorded(ids) == {s \in ids : Parent[s] # NoOne}

-----------------------------------------------------------------------------
(* The Host, and what the index learns synchronously.                      *)

\* A generation of a session: Root by a dispatch, another by its parent's turn.
Materializes(s) ==
  /\ s \notin live /\ (s = Root \/ Parent[s] \in busy)
  /\ FoldFunction(+, 0, gen) < MaxGens
  /\ gen' = [gen EXCEPT ![s] = @ + 1] /\ live' = live \cup {s} /\ busy' = busy \cup {s}
  /\ UNCHANGED <<job, described, orphaned, row, indexSide, inspection>>

Describes(s) ==
  /\ s \in live \ described /\ described' = described \cup {s}
  /\ UNCHANGED <<gen, live, busy, job, orphaned, row, indexSide, inspection>>

\* A descriptor vanishes when nothing below is at work any more.
Clears(s) ==
  /\ s \in described \ live /\ s # Root
  /\ ~\E x \in live : s \in Upwards(x, Family)
  /\ described' = described \ {s}
  /\ UNCHANGED <<gen, live, busy, job, orphaned, row, indexSide, inspection>>

WakesUp(s) ==
  /\ s \in live \ busy
  /\ busy' = busy \cup {s}
  /\ UNCHANGED <<gen, live, job, described, orphaned, row, indexSide, inspection>>

StartsJob(s) ==
  /\ s \in busy \ job /\ Cardinality(job) < MaxJobs /\ job' = job \cup {s}
  /\ UNCHANGED <<gen, live, busy, described, orphaned, row, indexSide, inspection>>
EndsJob(s) ==
  /\ s \in job /\ job' = job \ {s}
  /\ UNCHANGED <<gen, live, busy, described, orphaned, row, indexSide, inspection>>

\* An Agent is torn down, and its job with it.
TearsDown(s) ==
  /\ s \in (live \cap described) \ busy
  /\ live' = live \ {s} /\ job' = job \ {s}
  /\ UNCHANGED <<gen, busy, described, orphaned, row, indexSide, inspection>>

\* Cancelling the job throws: a settled event says that work may be orphaned.
\* The owner and all ancestors that can be told are tombstoned.
Orphans(s) ==
  LET seen  == parents \cup live \cup {x \in Family : exact[x] # 0}
      above == Upwards(s, seen)
  IN  /\ s \in (live \cap described \cap job) \ busy
      /\ orphaned' = orphaned \cup {s}
      /\ tombstones' = tombstones \cup above
      /\ parents' = parents \cup Recorded(above \cap seen)
      /\ live' = live \ {s} /\ job' = job \ {s}
      /\ UNCHANGED <<gen, busy, described, row, route, exact, provisional, turns, doubted,
                     inspection>>

\* turn/end: observeTurnEnd; the rest follows in resolveTurn.
TurnEnds(s, max) ==
  /\ s \in busy /\ busy' = busy \ {s}
  /\ Cardinality(turns) < max
  /\ exact' = [exact EXCEPT ![s] = gen[s]]
  /\ provisional' = provisional \cup {s}
  /\ parents' = parents \cup Recorded({s})
  /\ \E n \in 1..max :
       /\ ~\E t \in turns : t.no = n
       /\ turns' = turns \cup {[no |-> n, sess |-> s, pc |-> "start", facts |-> NoRow]}
  /\ UNCHANGED <<gen, live, job, described, orphaned, row, route, tombstones, doubted,
                 inspection>>

-----------------------------------------------------------------------------
(* Routes and the work order.                                              *)

\* The row is created, replaced by another, or removed.
RowChanges(new) ==
  /\ new # row /\ row' = new
  /\ UNCHANGED <<hostSide, indexSide, inspection>>

\* A proof is never taken back by a probe.
Routed(s, proof) == [route EXCEPT ![s] = IF proof \/ @ = "proof" THEN "proof" ELSE "probe"]

\* A tool call or subagent/start located the session's workspace.
Probes(s) ==
  /\ route' = Routed(s, FALSE) /\ route' # route /\ s \in live
  /\ UNCHANGED <<hostSide, row, exact, provisional, tombstones, parents, turns, doubted, inspection>>

\* registerRoleActorSession, registerJudgeSession; adopt of subagent/start and
\* judgeAuthorized when the row names the session.
Admits(s) ==
  /\ s \in Members /\ route' = Routed(s, TRUE) /\ route' # route /\ s \in live
  /\ UNCHANGED <<hostSide, row, exact, provisional, tombstones, parents, turns, doubted, inspection>>

-----------------------------------------------------------------------------
(* resolveTurn.                                                            *)

Confirmed(s) == /\ provisional' = provisional \ {s} /\ UNCHANGED exact
ReleasedLater(s) == Confirmed(s)
\* Only an observation that is not confirmed yet may be released.
Released(s) ==
  /\ provisional' = provisional \ {s}
  /\ exact' = IF s \in provisional THEN [exact EXCEPT ![s] = 0] ELSE exact
Over(t) == turns' = turns \ {t}
Goes(t, u) == turns' = (turns \ {t}) \cup {u}

\* A proof needs no probe.  Otherwise the row of the workspace is wanted, which
\* a probed route names, or realpath.
StartsResolving(t) ==
  /\ t.pc = "start"
  /\ IF route[t.sess] = "proof"
     THEN Over(t) /\ Confirmed(t.sess)
     ELSE /\ Goes(t, [t EXCEPT !.pc = IF route[t.sess] = "probe" THEN "read" ELSE "locate"])
          /\ UNCHANGED <<exact, provisional>>
  /\ UNCHANGED <<hostSide, row, route, tombstones, parents, doubted, inspection>>

\* realpath has no answer for a cold session: all rows are scanned for a Judge.
Locates(t) ==
  /\ t.pc = "locate"
  /\ \/ Goes(t, [t EXCEPT !.pc = "read"])
     \/ Goes(t, [t EXCEPT !.pc = "decide",
                           !.facts = IF row.exists /\ t.sess \in row.members THEN row ELSE NoRow])
  /\ UNCHANGED <<hostSide, row, route, exact, provisional, tombstones, parents, doubted, inspection>>

ReadsRow(t) ==
  /\ t.pc = "read" /\ Goes(t, [t EXCEPT !.pc = "decide", !.facts = row])
  /\ UNCHANGED <<hostSide, row, route, exact, provisional, tombstones, parents, doubted, inspection>>

\* A probe that failed is no evidence for a release.
ProbeFails(t) ==
  /\ t.pc \in {"locate", "read"} /\ Over(t) /\ Confirmed(t.sess)
  /\ doubted' = doubted \cup {t.sess}
  /\ UNCHANGED <<hostSide, row, route, tombstones, parents, inspection>>

\* workOrderMayAwaitTurn.
MayAwait(facts, s) == facts.exists /\ (s \in facts.members \/ facts.pending)
AdmittedIn(facts, s) == s \in facts.members

Decides(t) ==
  LET s == t.sess
  IN  /\ t.pc = "decide" /\ Over(t)
      /\ IF MayAwait(t.facts, s)
         THEN /\ Confirmed(s)
              /\ route' = IF AdmittedIn(t.facts, s) THEN Routed(s, TRUE) ELSE route
              /\ doubted' = IF AdmittedIn(t.facts, s) THEN doubted ELSE doubted \cup {s}
         ELSE Released(s) /\ UNCHANGED <<route, doubted>>
      /\ UNCHANGED <<hostSide, row, tombstones, parents, inspection>>

\* All of it in one step, with either outcome.  Who in particular is doubted makes
\* no difference to an inspection: everyone is, once someone is.
Resolves(t) ==
  /\ Over(t)
  /\ \/ Confirmed(t.sess) /\ doubted' = doubted \cup Family
     \/ Released(t.sess) /\ UNCHANGED doubted
  /\ UNCHANGED <<hostSide, row, route, tombstones, parents, inspection>>

-----------------------------------------------------------------------------
(* safeToInspect(Root).                                                    *)

\* The Agent that speaks for a session: the observed one, else the resident.
Candidate(s) == IF exact[s] # 0 THEN exact[s] ELSE IF s \in live THEN gen[s] ELSE 0
IsCurrent(s, g) == s \in live /\ g = gen[s]
AtRest(s, g) == ~(IsCurrent(s, g) /\ s \in busy)

Says(verdict) == inspection' = [Idle EXCEPT !.verdict = verdict]
Unaffected == UNCHANGED <<hostSide, row, route, exact, provisional, tombstones, turns, doubted>>

Asks ==
  /\ inspection.pc = "none" /\ Root \notin busy
  /\ IF Candidate(Root) = 0 \/ Root \in tombstones
     THEN Says("unsafe")
     ELSE inspection' = [Idle EXCEPT !.pc = "look", !.agents = {<<Root, Candidate(Root)>>}]
  /\ Unaffected /\ UNCHANGED parents

\* whenIdle of each of the Agents has returned, at a time of its own, which says
\* nothing of now; and the Host compiles the list of descendants.  The inspection
\* goes on with it later: what is live, at work, described, marked or observed
\* may have changed by then.
Descendants == (described \cap Tree) \ {Root}
Lists ==
  /\ inspection.pc \in {"look", "lookAgain"}
  /\ inspection' = [inspection EXCEPT
       !.pc = IF @ = "look" THEN "listed" ELSE "listedAgain",
       !.listed = Descendants, !.running = Descendants \cap busy]
  /\ Unaffected /\ UNCHANGED parents

\* The call fails, or lists a session it can only diagnose.
ListFails ==
  /\ inspection.pc \in {"look", "lookAgain"} /\ Says("unsafe")
  /\ Unaffected /\ UNCHANGED parents

\* Who has to be at rest: who was running, who is live, and of whom there is evidence.
Required(durable) ==
  {Root} \cup inspection.running \cup {s \in durable : exact[s] # 0} \cup (LiveTree(durable) \cap live)

FirstLook ==
  LET durable  == {Root} \cup inspection.listed
      required == Required(durable)
      restless == {s \in required : ~AtRest(s, Candidate(s))}
      refused  == \/ (durable \cup required) \cap tombstones # {}
                  \/ \E s \in required : Candidate(s) = 0
                  \/ ~(restless \subseteq inspection.listed)
  IN  /\ inspection.pc = "listed"
      /\ parents' = parents \cup Recorded(inspection.listed \cup live)
      /\ IF refused THEN Says("unsafe")
         ELSE inspection' = [Idle EXCEPT
                !.pc = "lookAgain", !.required = required, !.waiting = restless # {},
                !.agents = {<<s, Candidate(s)>> : s \in required \ restless}]
      /\ Unaffected

AnyGeneration(s, g) == TRUE
\* Another generation of the session has come up: this one is no evidence.
SameGeneration(s, g) == s \in live => gen[s] = g
NoNewcomers(required) ==
  /\ inspection.running \subseteq required
  /\ LiveTree({Root} \cup inspection.listed) \cap live \subseteq required

SecondLook ==
  LET settled == \A a \in inspection.agents :
                   /\ SameGeneration(a[1], a[2]) /\ AtRest(a[1], a[2])
                   /\ a[1] \notin tombstones /\ a[1] \notin job
      refused == inspection.listed \cap tombstones # {} \/ ~NoNewcomers(inspection.required)
  IN  /\ inspection.pc = "listedAgain"
      /\ parents' = parents \cup Recorded(inspection.listed \cup live)
      /\ Says(IF refused \/ ~settled THEN "unsafe"
              ELSE IF inspection.waiting THEN "waiting" ELSE "safe")
      /\ Unaffected

\* Two questions are explored on their own: who is resolved, and what is safe.
HostNext(sessions, max) ==
  \E s \in sessions : Materializes(s) \/ WakesUp(s) \/ TurnEnds(s, max)
Near == {s \in Family : s = Root \/ Parent[s] = Root}
ResolveNext ==
  \/ HostNext(Near, MaxTurns)
  \/ \E s \in Near : Probes(s) \/ Admits(s)
  \/ \E members \in SUBSET Members : \E exists, pending \in BOOLEAN :
       RowChanges([members |-> IF exists THEN members ELSE {}, exists |-> exists,
                   pending |-> exists /\ pending])
  \/ \E t \in turns :
       StartsResolving(t) \/ Locates(t) \/ ReadsRow(t) \/ ProbeFails(t) \/ Decides(t)
InspectNext ==
  \/ HostNext(Family, 1)
  \/ \E s \in Family :
       Describes(s) \/ Clears(s) \/ StartsJob(s) \/ EndsJob(s) \/ TearsDown(s) \/ Orphans(s)
  \/ \E t \in turns : Resolves(t)
  \/ Asks \/ Lists \/ ListFails \/ FirstLook \/ SecondLook

-----------------------------------------------------------------------------
(* Properties.                                                             *)

\* Sessions of the tree whose descriptor was published, and whose Agent was torn
\* down, after the list in hand was compiled: it does not name them.
Unlisted == (Tree \cap described) \ (live \cup inspection.listed \cup {Root})

\* A session is called safe, or waiting, only when no work of its tree was ever
\* orphaned.  It is called safe only when, at that moment, no Agent of its tree
\* works and none has a job, whatever came up, ended or vanished between the two
\* looks and while either list of descendants was on its way; with one exception:
\* an Agent below an unlisted session, to which neither the second list nor the
\* live Agents lead.  Assumed of the Host: an Agent is torn down only after its
\* descriptor was published, and a descriptor vanishes only when nothing below
\* is live.
SafeIsQuiet ==
  [][inspection'.verdict \in {"safe", "waiting"} /\ inspection.verdict = "none"
     => /\ Tree \cap orphaned = {}
        /\ inspection'.verdict = "safe" =>
             \A s \in Tree \cap (busy \cup job) : Upwards(s, Family) \cap Unlisted # {}]_indexVars

\* The Agent of a session that takes no part is held only while one of its turn
\* ends is being resolved, unless doubt protects it.
UnrelatedAreReleased ==
  \A s \in Family \ Members :
    exact[s] # 0 /\ s \notin doubted => \E t \in turns : t.sess = s
=============================================================================
