# A formal model of the dsh-workflow plugin

The plugin runs a *workflow* inside an agent host. A workflow is a frozen graph
of Nodes. Each Node is a work order for a Role (an agent session), for the
Manager, for a built-in Program, or for a child workflow. The Role submits a
*claim* of a result, an independent Judge session accepts or rejects it, and an
accepted result leads along an edge of the graph to the next Node. All of it is
driven by callbacks of the Host: a tool was called, a turn ended, an activation
failed. There is no loop and no timer of its own, and nearly every callback
awaits something between reading the row it decides on and writing it back.

That is what this directory is about: whether the handlers, interleaved at
their awaits, interrupted by Manager commands and cut short by restarts, still
add up to the serial, judged, final workflow that the documentation describes;
whether the store, the observation of the Host and the presets beneath them
keep what they promise; and whether the editor of workflow definitions, with two
implementations of every edit, shows and writes what its user made.

Contents: [inventory](#1-inventory) · [plan](#2-plan) · [modules](#3-modules) ·
[modelling decisions](#4-modelling-decisions) · [runs](#5-runs-and-bounds) ·
[fairness](#6-fairness) · [proofs](#7-proofs) · [disagreements](#8-where-code-and-documentation-disagree) ·
[limits](#9-what-is-not-modelled)

To repeat a run: `tlc -config runtime_chain.cfg MCRuntime`. To repeat a proof:
`tlapm RuntimeProofs.tla`. `PROJECT.json` lists the runs, the lines of code
every definition stands for, the hazards with the properties aimed at them, and
for each property a plausible bug (a *mutant*) that it catches.

## 1. Inventory

Paths are relative to `src/src/` unless they begin with `src/`.

| Component | State | Operations | Talks to | What is hard | What makes it correct |
|---|---|---|---|---|---|
| **Runtime driver** `engine/engine.ts`, `failover.ts` | none of its own: everything is in the row it reads again each time | `drive`, `handleNodeClaim`, `handleSubmitJudge`, `handleTurnEnded`, `settleActivation`, `handleActorBlock`, `handleBlock`, `handleNodeResume`, `handleRespawnJudge`, `handleSetRoleModel`, `handleResolveProgram`, `handleRunProgram`, `startRun`, `resetRun` | store (compare-and-swap), Host (send, drain, compact, probe) | handlers suspended at awaits while others write; a turn ends before, during or after its own bookkeeping; restarts between arranging, sending and publishing; a return that leaves several workflows at once | one work order at a time; exits only on a Judge's ACCEPT of the current claim; history final; nothing left waiting for ever; calls well nested |
| **Work-order invariants** `state/invariants.ts` | none | `checkExecutionInvariants`, `checkStateInvariants` | called by the store and by `StateHost.put` | a combination of materials that the engine produces only after a long sequence of legal calls | what is stored is valid; the engine composes no row its own store refuses (it does: section 8, 1) |
| **State store** `state/store.ts`, `state/maintenance.ts` | `runs`, `executions`, `events` in SQLite | `createRow`, `updateRow`, `writeExecution`, event append and paging, cutover of an incompatible store | engine, monitor | several rows in one transaction with separate revisions; a cutover that fails half-way or dies | atomic compare-and-swap; what ended stays; a failed cutover restores the old files |
| **Host adapters** `plugin/host.ts`, `plugin/presets.ts`, `index.ts` | pending sends, compaction attempts, registered presets | send to an actor or a Judge, drain, compact before reuse, read a persisted session, register and release presets | Host, dispatch lifecycle | timeouts that race late answers; compaction retried while its session is torn down; a registration overlapping a release | a retry only if the failure left nothing behind; a booked preset is mountable; nothing stays registered |
| **Dispatch lifecycle** `plugin/dispatch-lifecycle.ts` | epochs per session, bounded buffers of terminal facts | register, publish, observe failure or end, expire, invalidate a dispatch or a session | Host events, engine | facts that arrive before the publication they belong to; expiry and eviction; reuse of a session, warm and cold; a session retired under a registration | a terminal fact reaches exactly the dispatch it is about, and where it does not, why is known |
| **Participant index** `plugin/participants.ts` | observed descendants, orphan tombstones | observe, confirm, release, `inspect` | Host, engine's probe | descendants change between the two looks of one inspection and while either list is on its way | "safe" is answered only if nothing of the tree works, as far as the lists lead |
| **Turn binding** `plugin/turnbind.ts`, `turn-end.ts` | none | which messages a turn consumed | Host log | continuation turns | strict and lineage sets agree with their definition |
| **Programs** `programs/*.ts` | one subprocess per invocation | run, time out, settle | engine | a result after a restart, a BLOCK or a second invocation | one result per invocation, taken only by the current one |
| **Tool authorization** `tools/authz.ts`, `tools/tools.ts`, `roles/roles.ts` | none | allow or deny a call from the row | row | a row that changed since the turn began | only the awaited session may submit |
| **Catalog** `catalog/*.ts` | none | load, parse, validate, provider check | `startRun`, editor | graph conditions over nested child workflows | a validated definition has no dead edge and no child cycle |
| **Editor backend** `editor/*.ts` | draft, layout, history | some fifty edits, undo, redo, load, endpoints that parse, validate, lay out and preview | web client | references, positions and bends that must follow every rename; flags of history entries | an edit is a whole edit; only a deletion leaves a dangling reference |
| **Web client** `src/web-client/src/*.js` | the page's draft, positions, flags, history, selection | the same edits again, directories, selection, preview, saving; monitor pages | browser files, editor endpoints | answers that arrive after the page has moved on; a save that fails half-way | the draft belongs to the file shown; "saved" means written; the page edits like the backend |
| **Monitor backend** `monitor/*.ts` | none | read-only views | store | – | – |
| **Judge packet, projection** `judge/*.ts` | none | rendering | engine | – | – |
| **Trace log, texts** `engine/tracelog.ts`, `engine/texts.ts`, `message-sources.ts` | log file | append, wording | – | – | – |
| **Commands, installation** `commands/dsh-flow.ts`, `init/install.ts` | none | parse, copy files | – | – | – |
| **Scripts** `src/scripts/*.mjs` | none | release, smoke test | – | – | – |

How a Run proceeds, and where it can be interrupted (`engine.ts`):

```
drive ── arrange dispatch (put) ── probe ── compact / cwd ── send ── publish (put)
                                                                      │ the Role's turn
node_claim (put) ─ turn/end ─ read the session ─ probe ─ settle (put) ─ drive
                                                                      │
         arrange Judge (put) ── send ── publish (put) ── the Judge's turn
                                                                      │
submit_judgment: REJECT / NEEDS_CONTEXT (put), or ACCEPT ─ drain ─ advance (put) ─ drive
turn/end of the Judge ─ probe ─ settle, retry, fail over or BLOCK (put)
```

Every `──` is an await: any other handler, command or restart may run there. A
`put` is a compare-and-swap on `runs.state_version` and validates what it is
given; the loser has no further effect.

## 2. Plan

The order follows how much of the system's promise depends on a part.

| # | Module | Models | Status |
|---|---|---|---|
| 1 | `SerialWorkflow` | the abstract promise: one work order at a time, judged, final | done |
| 2 | `Runtime` | every handler of the engine for actor-task Nodes, the row, sessions and turns | done |
| 3 | `RuntimeProofs` | type correctness, serial hand-over, final history | done |
| 4 | `CallStack` | Child Nodes, `handleRunProgram`, `handleResolveProgram` | done |
| 5 | `StateStore` | the transaction over run, execution and event rows | done |
| 6 | `StoreCutover` | backup, archive, initialise, roll back, for any number of faults | done |
| 7 | `DispatchLifecycle` | epochs, bounded buffers and expiry, with publication and settlement | done |
| 8 | `HostCalls`, `PresetBook` | timeouts and late answers, compaction retry and teardown, presets | done |
| 9 | `ParticipantIndex` | observations, tombstones, resolution of a turn end, the inspection's two looks | done |
| 10 | `WorkflowConfig`, `DraftEdits`, `PanelEdits`, `EditorEdits` | the edits of a definition, twice, in lockstep | done |
| 11 | `EditorPanel` | the page's callbacks, overlapping and failing | done |
| 12 | `RuntimeRowProofs` | the engine's rows, the exits, the replacement of Judges; `Runtime` implements `SerialWorkflow`; the history is a path | done |
| 13 | `RuntimeSessionProofs` | what a handler may count on of the sessions it works with | done |
| 14 | `PluginProofs`, `StateAccessProofs`, `CallStackProofs` | every safety property of the plugin's modules, the store with its cutover, and the call stack | done |
| 15 | `EditorProofs` | the page's draft is of its file, its preview of its draft | done |
| 16 | `RuntimeCareProofs` | someone is responsible for a running Run; a Judge's failure is answered; which composed rows the store takes | done |
| 17 | `EditorProofs`, second part | what the page says is saved is written: what `Normalized` and `Resolve` do to what they made; what the edits of a draft do to its references | done |
| 18 | `Runtime` with the Host of `DispatchLifecycle` in place of what it assumes | a turn that ends before its publication | later |

## 3. Modules

### The engine

**`SerialWorkflow.tla`** is the abstract specification: a status, the current
Node and how far its work order has come, the trail of work orders left behind,
and whether the Judge that opened the current one is still at work. No sessions,
versions, retries or overlapping handlers.

**`Runtime.tla`** is the engine for Nodes that are tasks of a Role. Its variables:

| Variable | Code |
|---|---|
| `status`, `version` | `runs.status`, `runs.state_version` |
| `cur` | the current execution: phase, dispatch, claim, judge, judgment, resolution, `inputVersion`, … |
| `past` | executions that were left by a result, in order |
| `actors`, `stage` | `roleActors`, `roleRoutes[key].stage` |
| `calls` | the handlers suspended at an await: which one, and the version it read |
| `host` | sessions of the Host with their last message: `busy`, `waiting` (for subagents) or `idle` |
| `used` | bound on commands |

| Code | Actions |
|---|---|
| `drive` | `DriveStarts`, `ArrangeActor`, `ProbeIdle`, `Compacted`, `Sent`, `PublishActor`, `ArrangeJudge`, `PublishJudge`, `DriveFaults` |
| claims and verdicts | `NodeClaim`, `JudgeRejects`, `JudgeNeedsContext`, `JudgeAccepts`, `ReleasedAndAccepted` (with `Advance`) |
| `handleTurnEnded` | `TurnEndReads`, `ProbeUnsafe`, `ProbeWaiting`, `SettlesStale`, `TransferSettles`, `ActorSettles`, `ActorSettlesNothing`, `ActorFailsOver`, `ActorEndsWithoutClaim`, `JudgeRetries`, `JudgeFailsOver`, `RejudgeSends`, `JudgeEndsWithoutVerdict` |
| `settleActivation` | `ActivationSettles` |
| Manager commands | `ManagerBlocks`, `ResumesActor`, `ResumesJudge`, `RespawnsJudge`, `RespawnFaults`, `SetsRoleModel`, `Resets` |
| Role command | `ActorBlocks` |
| Host (external) | `TurnEnds`, `TurnWakes`, `ActivationFails`, `Restarts`, delivery and quiescing of sessions |

An action is what one handler does between two awaits, with every call it makes
there. The guard that reads the row again (`stillCurrent`) is `StillCurrent(c)`;
a write adds one to `version`, and so takes that guard from every other call.

**`CallStack.tla`** is the engine for Child and Program Nodes. A Role's work
order is only what `Runtime` shows of it from outside: dispatched, left by an
ACCEPT, its Judge still in its turn. `stack` is `callStack`, `execs` the work
orders in the order of their creation. `advanceKnownResult` is the function of that
name: one write leaves the work order and every caller whose return is mapped to
a return again. `EntersChild`, `ReadiesProgram` and `Steers` are branches of
`drive`; `RunsProgram`, `ProgramStarts`, `ProgramEnds`, `ProgramErrs`,
`ProgramFaults`, `ResultIsStale` are `handleRunProgram` between its awaits;
`JudgeTurnEnds` and `TransferSettles` are the hand-over after a Judge's turn,
which after a return belongs to a work order several calls away (`TransferJudge`).

### The store

**`StateStore.tla`** has the tables `runs`, `execs`, `log` and callers that hold
whatever they have read, of any age. `Transact` is `enqueue` with BEGIN and COMMIT
or ROLLBACK; `CreateRow`, `UpdateRow` and `WriteExecution` are translated
statement by statement into a table state that is `None` once one throws. The
callers are arbitrary: what the store promises must not rest on the engine.
**`StoreCutover.tla`** is `archiveIncompatible` with `probe`: the main file and its
write-ahead log are backed up, moved to an archive and replaced; every step may
throw and the process may die after each. **`StateAccess.tla`** joins the two.

### Between Host and engine

**`DispatchLifecycle.tla`**: `dispatch-lifecycle.ts`, with the Host's epochs on one
side and `settleActivation` on the other; its Maps are sequences in order of insertion,
since what is evicted is the oldest. A reused session continues a dispatch warm
(`Takes`: the live epoch takes the message) or cold (`Starts`: the next one does).
`invalidate` is there in both forms: of a dispatch (`Invalidated`, when its turn settled it)
and of a session (`Retired`, from the handlers of `host.ts` that retire or drain one, `Retires`,
and from a drive that has lost its Judge to another, in `Publishes`). **`HostCalls.tla`**: compaction with its retries
and the read of a persisted session, each call answered in time, late, or never.
**`ParticipantIndex.tla`**: what the index observes of a tree of sessions, how a turn
end is resolved to a workspace (`StartsResolving` … `Decides`) and the inspection
(`Asks`, then `Lists` and `FirstLook`, then `Lists` and `SecondLook`: the awaited answer of
`listDescendants` is kept in the record and used in a later step). **`PresetBook.tla`**: `ensure`, `release`,
`releaseRun` at their awaits. **`Plugin.tla`** explores the four; they share no state.

### The editor

**`WorkflowConfig.tla`**: a definition, what schema and validation accept
(`Valid`) and normalize, and the layout file. **`DraftEdits.tla`** translates
the edits of `editor/draft.ts`, **`PanelEdits.tla`** those of
`src/web-client/src/edits.js`, each from its own source. **`EditorEdits.tla`** applies
every operation with the same arguments to both. **`EditorPanel.tla`**: `panel.js`;
`jobs` are its callbacks in progress with what they captured, `previews` the
preview requests without answer. **`Editor.tla`** explores the two questions.

**`MC*.tla`** hold the small instances. The theorems are in modules of their own:

| Module | Extends | About |
|---|---|---|
| `RuntimeProofs` | `Runtime` | types, what suspended handlers rely on, serial hand-over, final history |
| `RuntimeRowProofs` | `RuntimeProofs` | what the row says: the store's invariants, verdicts, replaced Judges; `SerialWorkflow` is implemented; the history is a path |
| `RuntimeSessionProofs` | `RuntimeRowProofs` | what the row and the handlers say of the Host's sessions |
| `RuntimeCareProofs` | `RuntimeSessionProofs` | who is responsible for a running Run; a Judge's failure is answered; which composed rows the store takes |
| `CallStackProofs` | `CallStack` | call stack, texts, Programs, hand-over |
| `StateAccessProofs` | `StateAccess` | the store in use and its cutover |
| `PluginProofs` | `Plugin` | presets, compaction, participants, lifecycle |
| `EditorProofs` | `Editor` | the page: whose draft and preview it shows, and that what it calls saved is written; the backend's draft: that its references stay |

What they prove is in [Proofs](#7-proofs).

## 4. Modelling decisions

### Runtime and CallStack

* *Identities.* Dispatches, claims and Judges are random UUIDs in the code. In
  `Runtime` each is the version of the row in which it was minted, and a session is
  named after the dispatch that opened it. That keeps them unique without a
  counter. A `messageId` is the flag `pub` of the dispatch or Judge it belongs to.
* *Awaits.* The read at the head of `drive` is one step with the write before it
  unless an await lies between the two. A `node_resume`, a respawn and a model
  change are one step each: losing the compare-and-swap has no effect, and what
  happens at the Host in the gap commutes with the step.
* *ACCEPT* is two steps only where the code awaits: when a node-scoped session
  is released. Elsewhere the session it drains is idle already, which
  `JudgeReadsClosedWork` checks. The session of a Judge that is replaced is left to
  end by itself.
* *Commands* carry the current `nodeToken`; with any other the code answers with
  a rejection and changes nothing. A model change that changes nothing is left out.
* *Refused rows.* Only the retry and failover of a Judge (`Rejudge`) model that a
  `put` refuses an invalid row; every other write goes through, so that
  `StoreAccepts` would see an invalid one. What `Rejudge` composes is `WithNewJudge`, and
  `StoreAccepts` speaks of that row too, before the store has seen it, in every state in which
  a handler may be about to compose it. The one exception it makes is `ContinuedAfterRestart`,
  where the store does refuse it: disagreement 1.
* *Failures.* Whether a failed turn counts as eligible for a failover or a retry
  depends on the text of an error: a nondeterministic choice.
* *Late messages.* A message whose send was overtaken by a BLOCK and a resume may be
  delivered all the same. It is marked `late`; the properties about sessions (`Quiet`)
  do not speak of it, since the code has no means to take it back.
* *The Manager's session.* A takeover (`node_resume target=judge`) of a Manager Node marks
  the dispatch settled without asking that session to be idle, so `JudgeReadsClosedWork`
  exempts it. The comment at `engine.ts:575`, that only the exact end of the Actor sets
  `settled`, does not hold of a takeover.
* *Two drives on one Judge.* Two drives may both find the Judge that a resume arranged and
  not yet published, and both send it the very same message, which is why
  `SendsToIdleSessions` lets a Judge's session work on that message and on no other. The drive
  that loses then revokes the session (`retireJudge`, `plugin/host.ts:498-508`) that the
  winner published. Authorization is not modelled, so `Runtime` has nothing of that effect;
  that it deletes the winner's registration is in `DispatchLifecycle`.
* *Assumed of the Host by `Runtime`.* A turn that ends normally ends after the send
  that started it was answered and published. A turn with an accepted submission
  emits `turn/end`. A turn waits for the answer to a tool call it made. A
  probe that says "safe" is right (`SafeIsQuiet` says how far the index bears that
  out). A send that failed did not deliver. A failing activation is answered, also one
  that overtakes its publication; `NeverAbandoned` leans on it. `FailureIsNotMissed` says
  how far the lifecycle bears that out, and names all it does not.
* The phase `settling` never occurs with actor-task Nodes, every result of which
  has a Target.
* *`CallStack`: nothing comes between a write and the drive that follows it*
  (`NothingToFollow`). There the code awaits only the store's queue and messages
  to the Manager, which are answered first. Without that assumption TLC finds
  `RolesWaitForJudges` violated: for a caller the gate of `drive` (`engine.ts:447-449`)
  asks only whether it has exited, not whether the Judge whose ACCEPT made it return
  has settled, so a drive that came late would pass.
* *Texts* handed on are named after the work order and the invocation that wrote
  them, which is enough to tell whose they are. The graph is a validated one
  (`GraphAssumption`).
* A Role's BLOCK between its ACCEPT and the Judge's turn end can be resumed only
  after a restart, as the test in `src/test/runtime-work-order.test.ts:1278` expects.

### Store

* *A call is one step.* What it composed depends only on what its caller had read, so
  the time in the queue is part of the time since the read.
* SQLite commits atomically and drops a write-ahead log that has no main file. The
  `-shm` file holds no data. A rename, an `rm`, a backup happens or does not.
* `running` stands for `blocked` too, which the store treats alike; of an execution
  there are its phase, its Judge's receipt and one datum.
* A store that a cutover opened is the empty store; its use is explored from there.
* A corrupt store cannot be backed up. If the process dies between the renames of
  its two files, SQLite drops the log: `OldDataIsKept` names that exception.

### Plugin

* Which epoch takes a message is up to the Host: the live one, or the next. What expired, was
  evicted, or was replaced in the buffer is in `lost`; `noted` is the epoch of the
  registration, and `forgotten` says that the registration of the awaited dispatch was
  deleted with its session (`retired`) or that the end was credited to an earlier
  registration (`credited`). No guard reads the three: they are what `FailureIsNotMissed` excuses, one
  by one. Each excuse is a behaviour of this code: a drive that has lost its resumed Judge to another
  calls `retireJudge` (`engine.ts:595`), which invalidates the session whichever dispatch is
  registered; a BLOCK leaves the registration standing, and an end of its epoch
  that comes before the publication of the next dispatch goes to it.
* Assumed of the Host: it announces the start of a cold continuation before it answers the send.
  If it did not, a registration would name the epoch before, and the end of the new
  one would not be taken (`RegisteredInOther`, the excuse that says so).
* The answer of `listDescendants` is what the Host had when it compiled it. The inspection goes on
  with it later, when Agents may have come up, worked, ended and vanished. Therefore `SafeIsQuiet`
  has an exception, without which TLC refutes it: an Agent at work below a session that is
  described, has no live Agent, and came too late for the second list (`Unlisted`), for instance
  a grandchild whose parent was created and torn down within the await.
* Turn ends and inspections are explored each on their own. Where it is about inspections, a turn
  end is resolved in one step (`Resolves`) with either outcome, and who is doubted is not told apart.
* A session is disposed only after its turn ended; its descriptor vanishes only when
  nothing below it is live.
* A resolution that began before its session was admitted may release the
  evidence of a later turn end; the inspection then asks the resident Agent.
* An `ensure` that overlaps `releaseRun` registers after the Run has ended
  (`overlapped`); `NothingStaysRegistered` excuses it and nothing else but an
  unregister that failed.

### Editor

* Texts, positions and ids are members of small sets that keep what the code
  distinguishes: a blank text, one that is trimmed, one that is too long; an id that
  matches the pattern, a reserved one, one that does not.
* Both implementations get the same calls; `newDraftSession` of `draft.ts` is left
  out of the lockstep, since its flags are not those of the page's `createNewFile`.
* A prompt about unsaved changes is answered with "go on"; a drag is over before
  another control is used; a change of the draft and the request of its preview
  are one step; a file is read at one point in time.
* What the page does when a selection is made during the listing of another directory
  is left out of `DraftIsOfItsFile` (`overlapped`): nothing holds such a selection back,
  and it does bring the old directory's file under the new one. Edits made
  during a listing are dropped silently, a late automatic restore resets the page
  without asking, and one whose listing fails after it superseded a selection
  leaves the page busy. A preview that an opening or a selection superseded is not asked
  for again when that one fails.
* A rename onto a name that positions or bends of deleted nodes still carry takes
  those up; `RenamesComeBack` leaves it out (`Fresh`).

## 5. Runs and bounds

`CHECK_DEADLOCK FALSE` throughout: a Run that is completed or terminated, a
store whose versions are used up, a page whose user does nothing really stops.

| Run | Instance | Shows |
|---|---|---|
| `runtime_chain` | two Nodes, one continuable Role, fallback models, any one command, reset or restart at any point; 2.2 M states | `TypeOK`, `StoreAccepts`, `ExitsAreJudged`, `OneHandoffAtATime`, `HistoryIsFinal`, and that the Run implements `SerialWorkflow` |
| `runtime_recovery` | two Nodes, two of BLOCK, actor BLOCK, resume, respawn; 3.0 M states | sessions are closed before they are judged (`JudgeReadsClosedWork`) or sent to again (`SendsToIdleSessions`); a running Run has someone responsible for it (`NeverAbandoned`); what the Host accepted is published (`AcceptedDispatchIsPublished`) |
| `runtime_routes` | a node-scoped Role and a Manager Node that may send the Run back, fallback models, two commands of any kind; 3.9 M states | failover comes to an end (`JudgeReplacementsRunOut`); every visit starts in a new session (`NodeScopedSessionsAreFresh`); the history is a path of the definition (`HistoryIsAPath`) |
| `runtime_settles` | one Node with fallback models, under fairness, two interruptions including restarts and resets; 60 k states | a running Run completes or is BLOCKed (`RunsSettle`) |
| `call_stack` | two nested Child workflows, a return that leaves both at once, a loop back into them, a Program; nine work orders, four interventions; 0.25 M states | the call stack is the nesting of what is at work (`CallsAreNested`); inputs and texts are handed on along the graph (`HandoffsAreTraced`); a Role waits for the Judge whose ACCEPT led to it (`RolesWaitForJudges`); a running Program is awaited (`ProgramIsAwaited`) |
| `state_access` | two interchangeable callers with rows of any age, two runs, two executions; a cutover with up to three faults; 0.38 M states | no update is lost, what ended stays, writes are whole, events can be read back, in pages without gaps; old data is kept, failed cutovers restore, opened stores are new |
| `plugin` | two interchangeable sessions and two dispatches in two epochs; two attempts at compaction; a Role's session with child and grandchild in three generations, one job; two presets and four calls of `ensure`; 2.9 M states | a BLOCK rests on evidence of the dispatch's own epoch, and a failure is missed only in the ways that are named; compaction leaves nothing behind; unrelated sessions are released; "safe" is quiet but for what was not listed; presets in the book are mountable and none stays |
| `editor` | every edit with valid and invalid arguments, two or three that change something, in four families of files; two directories and five actions of the user; 0.27 M states | both implementations agree, renames come back, only deletions dangle; the draft belongs to the file shown, "saved" is written, a preview is of the draft |
| `judge_retry_after_restart`, `set_role_model_while_running`, `program_before_settlement`, `undo_after_save` | | expected counterexamples, see [below](#8-where-code-and-documentation-disagree) |

The bounds, and why they are enough:

* `MaxCommands` (1 or 2 in `Runtime`): Manager commands and restarts. The recovery
  paths that matter are an interruption and its undoing (BLOCK, then resume or
  respawn; restart, then resume), so two. Where it is one, the engine still BLOCKs
  the Run by itself after a fault, a failure or a silent turn, which is not counted,
  so that the one command meets such a Run too.
* `MaxInputs` (2): the `inputVersion` of a work order. Two inputs let a claim, a
  verdict or a Judge belong to an input that is no longer the current one. It is one
  in `runtime_routes`, where a REJECT or a respawn therefore does not occur; those
  meet fallback models in `runtime_chain` and `runtime_settles`.
* `MaxVisits` (2 or 3): two make a hand-over between a Judge that has accepted and the
  next Role; three let a loop come back to a Role whose session was used before. In
  `CallStack` (9) the outer Child is entered, left with a mapped return and
  entered once more, with its Program.
* Two Nodes, one Role: hand-over is between neighbours, and one Role for both is
  the harder case because they share a session.
* `MaxVersion`, `MaxRevision` (3): two writes after what a caller holds, so that its
  row is stale by more than one; `MaxRuns` (2): a row of an ended run beside
  one of the same version. `PageLimit` (1) has a reader ask between any two writes.
* `BufferMax`, `PendingMax` (1): every bound is hit by the second session. `MaxEpochs` (2)
  and two dispatches: two epochs of one session, so that a dispatch is taken warm by the first or
  cold by the second, or one epoch each of two. With `MaxEpochs` 3, the properties and the inductive
  invariant `LifecycleInv` were checked for the lifecycle alone (7.7 M states).
* `MaxAttempts` (2): a retry and its exhaustion. `MaxGens` (3), `MaxTurns` (2): a
  session that comes up again while an end of its last generation is resolved. `MaxJobs`
  (1): a job that outlives its turn, in any session of the tree.
* `HistoryLimit`, `PanelHistoryLimit` (2) with up to three edits: the history overflows.
  `MaxActs` (5): select, edit, save, undo and one more.

Symmetry is used for the callers of the store and for the sessions of the lifecycle,
which are told apart by nothing; both runs check safety only.

## 6. Fairness

`FairSpec` of `Runtime` asks for three things.

* Weak fairness of every kind of suspended call. Each await of the engine is
  bounded by a timeout of `engine/timeouts.ts` (`DISPATCH_TIMEOUTS`), and
  JavaScript runs a handler whose promise is settled.
* Weak fairness of turns ending and of waiting sessions being woken.
* Strong fairness of a turn ending for good (`EndsForGood`): a session does not
  spawn subagents for ever.

Nothing is asked of the Manager, nor that a Role ever claims or a Judge ever
rules: an Actor or a Judge that says nothing is found out by its `turn/end`.
`RunsSettle` is therefore "completed or BLOCKed" and not "completed".

`NeverAbandoned` is the safety side of the same promise. It fails with
`setRoleModel` and with `restart` followed by `resumeJudge`, which are two of the
disagreements below; its run leaves those commands out, as does
`runtime_settles`. It is proved for all others (`SomeoneIsResponsible`), and with one of
`restart` and `resumeJudge` too: only the two together break it. It leans on what `Runtime` assumes
of the Host, above all that a failing activation is answered. `FailureIsNotMissed`,
`LateAgentsAreReleased` and `ProgramIsAwaited` are safety sides of the same kind: the signal,
the disposal or the handler that must come is there. The other modules promise nothing that
waits for something else, and state no fairness.

## 7. Proofs

TLC checks one small instance; the theorems hold for every value of the
constants, from the named assumptions of each module. Those say that Node, Role and Judge
names are distinct, that a graph is a validated one, that bounds are numbers, and that
`None` is no value of the sets it is added to (which TLC's model values give for free). All
safety properties of the runs are proved except those listed under
[Only model-checked](#only-model-checked).

### The engine

`DefinitionAssumption`: Targets are Nodes or `Return`, node-scoped Roles are Roles, and Role
keys, Manager and Judge are distinct.

| Theorem | States |
|---|---|
| `Inductive` | `Spec => []IInv` |
| `TypeCorrect` | `Spec => []TypeOK` |
| `HandoffsAreSerial` | `Spec => []OneHandoffAtATime` |
| `HistoryStands` | `Spec => HistoryIsFinal` |
| `RowsHold` | `Spec => [](IInv /\ RowInv)` |
| `NoRowIsRefused` | `Spec => []StoreAccepts` |
| `ExitsStandJudged` | `Spec => []ExitsAreJudged` |
| `JudgesRunOut` | `Spec => JudgeReplacementsRunOut` |
| `RunsAreSerial` | `Spec => ImplementsSerialWorkflow` |
| `HistoriesArePaths` | `Spec => []HistoryIsAPath` |
| `SessionsHold` | `Spec => [](IInv /\ RowInv /\ SessionInv)` |
| `JudgesReadClosedWork` | `Spec => []JudgeReadsClosedWork` |
| `SendersFindIdleSessions` | `Spec => []SendsToIdleSessions` |
| `SessionsOfNodesAreFresh` | `Spec => []NodeScopedSessionsAreFresh` |
| `AcceptedIsPublished` | without `setRoleModel`: `Spec => AcceptedDispatchIsPublished` |
| `SomeoneIsResponsible` | without `setRoleModel`, and without `restart` or without `resumeJudge`: `Spec => []NeverAbandoned` |
| `JudgeFailuresAreAnswered` | without `restart` or without `resumeJudge`: `Spec => JudgeFailureIsAnswered` |

**Suspended handlers.** `TypeOK` is not inductive. A handler that resumes after an await
updates a field of the dispatch, claim or Judge that it saw before; that it still exists
follows from the version. So `IInv` adds

* `Materials`: what a work order holds in each phase (a Judge has a claim, a claim has a dispatch, …);
* `Remembered`: no suspended handler remembers a version of the future;
* `Held`: a handler whose version is still current finds what it relies on (`Backed`).

A write adds one to the version, so by `Remembered` no suspended handler is current
afterwards and `Held` is left to show only for the call that the writer itself
makes. Without `Remembered` a stale handler could become current again.

**Serial hand-over and history** rest on one lemma, `EveryRowStep`: every step leaves the row
alone, keeps the history and gives no work order its first dispatch (`Worked`),
dispatches the current one when its predecessor has settled (`Dispatched`), puts
it into the history (`Left`), or settles the last Judge of the history (`Closed`). Both
theorems are then arguments about these few kinds and not about the actions.

**What the row says.** `RuntimeRowProofs` carries the same idea further. `RowChange` lists the
fifteen ways in which a step can change the row, from `Arranged` to `TakenOver`, each by its effect on
the fields; `EveryChange` shows every action to be one of them. `RowInv` says what
a work order holds beyond `Materials` (`Stands`: a Judge stands only on a settled dispatch;
`Dated`: claim and Judge were minted in this order), what each suspended handler knows of the
phase (`AllTimely`), and that whatever was left is `Judged`. It is kept by each kind of change,
with no further look at the actions. `NoRowIsRefused` needs more
than `RowInv` and is in `RuntimeCareProofs`: it is also about the row with which a handler
replaces a failed Judge, before that row is put. The one such row that the store refuses, of
a Judge that a resume after a restart continued in its own session, is
disagreement 1 and the exception `ContinuedAfterRestart` of the property. The theorem holds under all commands.

**The refinement.** Each kind of `RowChange` is a step of `SerialWorkflow` under the mapping or
leaves what users see as it was, so the step simulation has a case for each of these kinds and not one per
handler. `HistoriesArePaths` is then proved of `SerialWorkflow` (`PathInv`) and carried
over by the refinement.

**Sessions.** `SessionInv` is about the gap between the row, the Host and the handlers in
between. A handler knows, at the version it remembers, which dispatch or Judge it carries and in
which session (`AllKnow`); one handler at a time carries a dispatch (`OneSender`); sessions of
Actors and of Judges never mix (`Apart`), because the dispatches and Judges that name
them are minted once (`Minted`). From these: a session whose dispatch has settled, or whose
Role was unmapped, works on nothing current (`ActorQuiet`); one that was probed stays quiet
until it is sent to (`SenderQuiet`); a Judge's session has no later message (`LatestJudge`) and, when it
is continued, no unfinished earlier one (`JudgeQuiet`); a mapped session is its Role's
own (`OwnSessions`), and no earlier work order used a node-scoped one (`FreshSessions`).
`AcceptedIsPublished` adds that the handler carrying the message that a running Run waits
for is always current (`Carrying`). It assumes that no `workflow_set_role_model` comes: with it
the property fails, see disagreement 2.

**Responsibility.** The engine has no timer of its own, so a Run that waits must be waited for.
`RuntimeCareProofs` names, for each kind of row, who answers for it: `Serves` for a handler,
`Works` for a turn of the Host. The row may be waiting for its predecessor's Judge (`HandingOver`),
for a dispatch to be published (`Dispatching`), for an Actor's turn (`Underway`) or its end
(`Closing`), for a Judge to be found (`Seating`) or for its verdict (`UnderJudgment`).
`Served` says that a running Run has such a handler or turn, and `CareInv` follows each of
them until it has handed over to the next one. Most of it is about what could make one of them
fail to recognise its successor:

* `LatestWork`, `LatestHandover`: no message later than the awaited one is sent to its session, so
  the end of a turn there is the end that is waited for (`Trailing`, `OneTurn`: a `turn/end` is of a turn
  that the session has been at, and it is at one turn at a time);
* `Accepting`: a message that the Host took is at work until it is published, or its failure is
  kept until then; `Submitting`: so is the Judge whose ACCEPT waits for the drain of a session;
* `Probed`: a current probe of a Judge is about the Judge in the row;
* `Unjudged`, `Asked`, `Unrestarted`: a running Run has no verdict on its claim, and a recovery
  mode that names a session names that of the Judge that asked. So the store takes
  the retry of a failed Judge (`RetryIsValid`), which is the other half of `NoRowIsRefused`.

The last three alone give `JudgeFailuresAreAnswered`. They need that a restart cannot be
followed by a `node_resume` of the Judge that it interrupted: with both, the store refuses the retry,
which is disagreement 1. Each hypothesis of the two theorems thus excludes commands of which
a run shows that the code abandons the Run, and nothing else.

### Child workflows and Programs

`CallStackProofs`, for any graph that satisfies `GraphAssumption`, however deep its
Nodes call each other:

| Theorem | States |
|---|---|
| `CallStackHolds` | `Spec => []CallStackInv` |
| `NestingHolds` | `Spec => []CallsAreNested` |
| `TextsAreTraced` | `Spec => []HandoffsAreTraced` |
| `ProgramsAreAwaited` | `Spec => []ProgramIsAwaited` |
| `RolesWait` | `Spec => RolesWaitForJudges` |

`History` says of each work order what it records of the others: its Child began later, at the
start of the called workflow, with the same input (`Entry`); if it was left, then by
the return that the terminal work order of its Child reached, with that text (`Left`). `Frames` says that the
stack is strictly increasing in work orders and that each caller's frame lies below one of
the workflow it calls. `CallsInv` says what the suspended handlers rely on: a drive has
seen the Judge before it settle (`Settled`), a probe is about the Judge that the current work
order waits for (`Probes`).

One write may leave the current work order and any number of callers
(`LeftWith`), and the Judge of a hand-over is found by going down the terminal work orders of the
Children (`TransferJudge`). Both are recursive functions on numbers, whose definition
the prover unfolds once at a time. That a property reaches the end of
such a search is shown by taking the least or the largest number for which it fails, which
the well-foundedness of `<` on the naturals provides.

### The store

`StateAccessProofs`, for any callers and transactions, whatever they read and however old it is:

| Theorem | States |
|---|---|
| `StoreHolds` | `Spec => []StoreInv` |
| `NoUpdateIsLost` | `Spec => NoLostUpdate` |
| `EndedStays` | `Spec => WhatEndedStays` |
| `WritesGoWhole` | `Spec => WritesAreWhole` |
| `EventsAreReadable` | `Spec => []LogIsReadable` |
| `PagesHaveNoGap` | `Spec => []PagesAreGapless` |

`Sound` is what the tables hold at any moment: an execution has events if and only if it is
there, in order of revision and none newer than its row. `Extends` is what writes for a run may make of
the tables, and a transaction, whatever it writes, keeps `Sound` and `Extends` or throws;
`Commits` adds the row of the run. `ReadsAreOfRuns` is the heart of `NoUpdateIsLost`:
what a caller holds of a run is no newer than the run, and if it is no older it *is* the
row; so an update that passes the comparison of versions was composed from what it replaces.

### The cutover of the store

In the same module, for any number of
faults and deaths of the process and with no assumption but those of the module:

| Theorem | States |
|---|---|
| `CutoverIsSound` | `Spec => []CutoverInv` |
| `OldDataStays` | `Spec => []OldDataIsKept` |
| `FailedCutoversRestore` | `Spec => []FailureRestores` |
| `OpenedStoresAreNew` | `Spec => []OpenIsNew` |

None of the three is inductive: they speak of a cutover that is over, and what it
will leave depends on what it has moved so far. `CutoverInv` therefore follows it:

* `MovedIsArchived`: what was old among the moved files is exactly the newest archive, and
  nothing of it is at its place;
* `MainGoesFirst`: no file is moved twice, and the log only after the main file, so a
  death in between finds a log without a main file and never the other way round;
* `HalfMadeStandsAlone`: nothing old stands beside a half-made new store;
* `BackedUpFirst`: a readable store is untouched until it is backed up;
* `UndoneIsAsItWas`: unless undoing failed, what is not moved is as it was, and what is moved was old.

The use of the store leaves the cutover's variables alone, so the theorems hold of the whole.

### The plugin

`PluginProofs`, of the specification of `Plugin`, whose four parts share no state, so that
each has an invariant of its own which the steps of the others leave alone. For any number
of scopes, attempts, sessions, dispatches and turns:

| Theorem | States |
|---|---|
| `BookHolds`, `BookIsTrue`, `ClosedRunsLeaveNothing` | `[]BookInv`, `[]BookedIsMountable`, `[]NothingStaysRegistered` |
| `CallsHold`, `PreparedIsClean`, `LateAgentsGo` | `[]CallsInv`, `[]NothingLeftBehind`, `[]LateAgentsAreReleased` |
| `IndexHolds`, `UnrelatedGo`, `SafeMeansQuiet` | `[]IndexInv`, `[]UnrelatedAreReleased`, `SafeIsQuiet` |
| `LifecycleHolds`, `BlocksAreFounded`, `FailuresArrive` | `[]LifecycleInv`, `[]BlocksOnOwnEpoch`, `[]FailureIsNotMissed` |

* *Presets.* From its registration to its entry in the book, and from its removal to the answer of
  the unregister, one call alone has a scope (`HeldOnce`). So whatever is registered is in the
  book, with a call, or left over from an unregister that failed (`Accounted`), and a closing
  that nothing overlaps has all of the book on its list (`ClosesAll`).
* *Compaction.* `CallsInv` says for each stage which calls of the Host are without an answer and
  which materialization may be resident; only a failure that may not be retried leaves any behind,
  and that is on its way out.
* *Participants.* The proof of `SafeMeansQuiet` is about two looks between which, and during
  each of which, anything may happen. `Ancestry`: a session that came up is known below its parent, which came up too; so
  going up from a session at work (`Upwards`, the least set closed under parents that are known)
  one meets a session that the first look required or the second look asked, unless one passes a
  described session that the list in hand does not have (`LiveIsFound`). `OrphansAreMarked`:
  work that outlived its Agent is marked up to the root.
* *Lifecycle.* `MapsFollow`: the module's maps know the epoch the Host is in, unless something of the
  session was dropped. `RegistrationsFit` and `TasksFit`: the registration of the awaited dispatch, and
  what a call of `settleActivation` holds of it, are of the epoch that was noted when it was made.
  `AwaitedIsWatched` is the strengthening of `FailureIsNotMissed`: before the publication a
  failure is with the Host or in the buffer; afterwards, as long as the registration is good
  for the epoch of its session (`Held`), it stands, and the failure is with the Host or with a task.
  The maps are sequences in order of insertion, and a family of lemmas says what setting, removing and
  evicting an entry does to them.

### The editor

`EditorProofs`, of the specification of `Editor`, for any directories and files and any number of
callbacks in progress:

| Theorem | States |
|---|---|
| `PageHolds` | `Spec => []PageInv` |
| `DraftsAreOfTheirFiles` | `Spec => []DraftIsOfItsFile` |
| `PreviewsAreOfDrafts` | `Spec => PreviewIsOfTheDraft` |
| `CleanPagesAreWritten` | if `NoTables`: `Spec => []CleanIsWrittenAtFirst` |
| `ReferencesStay` | `Spec => OnlyDeletionsDangle` |

`Alone` is what the flag `busy` is meant to ensure: at most one callback will still write to the page,
it is about the open directory, and nothing else is being listed. It holds until a listing runs
beside one (`overlapped`), which `busy` does not prevent. `CurrentPreview`: the one call of
the preview endpoint that is not superseded was made for the draft that is there. The first three
theorems hold whatever validation, normalization and layout compute; their proofs do not look into them.

The fourth does. `CleanIsWrittenAtFirst` compares the page with what selecting its file again would show,
and the page got there by another way: it sent its draft, the backend normalized and wrote it, and
the positions on the page were resolved before they were written. So the proof begins with what these
functions do to what they made:

* `NormalizedTwice`: normalizing what is normalized changes nothing;
* `ResolveSettles`, `SettledResolves`: resolved positions are complete for their definition, and
  complete positions, written and resolved again, come back as they were.

`CleanInv` then says of the page (`PageFaithful`), of every entry of its undo history
(`HistoryFaithful`) and of each callback (`Saving`, `Selecting`) what it has right about the file.
The history has to be in it because an undo brings back flags of an earlier time. A save that has
written the definition and not the layout yet, and one that failed between the two, are why the
definition and the layout have a clause each. All of it is `~overlapped => ...`, and `Alone` is
what keeps the steps of one callback from disturbing another.

`DisksAssumption` says that the directories hold files with Nodes. `NoTables` says that the two
values that stand for an absent and an unreadable layout file are no tables of positions; it is
a hypothesis of the theorem and no `ASSUME` of the module since TLC cannot take the `DOMAIN` of
a model value.

`ReferencesStay` is about the draft of `src/editor/draft.ts` and its edits, whatever is typed, chosen
and opened. A step of it is an edit of `DraftEdits`, an undo or a redo. `Resolved(c)` says what
`Dangling(c) = {}` says, Node by Node: the Role, the callee and every target are there
(`NothingDangles`). `Follows(c, d)` is what each edit owes: `d` has the shape of a definition, and
if `c` is resolved and `d` declares all that `c` declares, or something else instead, then `d` is
resolved too. There is a lemma for each edit. The additions check their references against the
draft they change (`TargetOk`, `ActorRoleOk`, `CalleeOk`). The deletions leave references alone and owe nothing,
since they declare strictly less (`Loses`). The renames of a Role, a Node, a return and a child
workflow are where something could go wrong: each has to reach the references in every Node of
every flow. `IsSession` carries the shape through the history, `FilesAssumption` gives it to what is
opened: it is what the schema accepts, and the run's files have it.

### Only model-checked

* `RunsSettle`: liveness under fairness is out of the prover's reach.
* `MirrorsHost`, `RenamesComeBack`: the first compares two implementations whose edits are folds
  over Nodes, edges and positions, the second says of a rename, and of validation, which follows
  the routes of a flow, that they do not look at names; what a fold computes for every definition
  needs an induction over data. The page's edits are moreover written with `:>` and `@@`, which the
  prover cannot expand.
* The runs with an expected counterexample refute a property on an instance, which needs no proof.

What no proof covers, of course, is whether the modules say what the code does: the
[modelling decisions](#4-modelling-decisions) are part of every theorem.

## 8. Where code and documentation disagree

Paths of this section are relative to the repository's root `src/`.

1. **A Judge's failure is left unanswered after a restart**
   (`judge_retry_after_restart`). After a restart, `node_resume target=judge` continues the
   recorded Judge in its old session and notes that in the work order's
   resolution. If that Judge fails without a verdict, `retryJudgeOnce`
   (`src/engine/engine.ts:719-750`) puts a Judge with a new session into the row and keeps
   the resolution; `checkExecutionInvariants` refuses the row, `put` throws, and the
   handler's caller only logs it. The Run stays `running` and nobody is working.
   `docs/user-guide.md:185-186` promises one retry and then a BLOCK.
2. **Setting a model loses a dispatch in flight** (`set_role_model_while_running`).
   `workflow_set_role_model` bumps the row's version; a `drive` that awaits its send then finds
   itself stale and does not publish what the Host accepted. That turn may never
   submit, and the Run waits for it. `docs/user-guide.md:188` and `:362-363` say
   that what is running is not affected. A Program that is running when a model is
   set meets the same fate: its result is ignored.
3. **A Program overtakes the Judge before it** (`program_before_settlement`).
   `drive` asks whether the predecessor's Judge has settled; `handleRunProgram`
   (`src/engine/engine.ts:1602-1620`) does not. The Program may run, and the Role after it
   be sent its work, while the Judge that accepted before it is in its turn.
   `CONTEXT.md:140` says that the settlement of that Judge drives the successor.
4. **Undo after a save** (`undo_after_save`). A save clears the flags of the page
   (`web-client/src/panel.js:1078-1084`) and keeps the history, whose entries hold the flags
   of their time. Edit, save, undo: the page shows the old draft as saved, 保存 is
   disabled and nothing asks before it is lost. `docs/design/workflow-config-editor.md:52`
   and `:113` promise a prompt. `CleanIsWrittenAtFirst` is what does hold.

A remark without a run: with `compactBeforeReuse` off, `drive` sets the prepared mark on the
copy of the work order that it read before its awaits (`src/engine/engine.ts:516-518`) and
stores another copy, although the comment there says that it is persisted along with the
dispatch. TLC refutes `PublishedIsPrepared` of `Runtime` with `CompactOff = {worker}`. It
is harmless as long as the setting stays off.

## 9. What is not modelled

* The check of `startRun` on the sessions of a terminated predecessor, and the
  parameters of Programs.
* A send or a probe that times out and succeeds afterwards: for `Runtime` a failed
  send did not deliver. The abandoned calls that the code cleans up after are in `HostCalls`.
* A turn that ends normally before its own message was published: `Runtime` assumes
  that it does not (section 4).
* Orphan sessions after a failed first send: they are in the model, but nothing in
  the code promises that they stop, so no property speaks of them.
* Turn binding, tool authorization: pure decisions on a log or a row, without state
  and tested as functions; `Runtime` uses their outcome.
* A Program's subprocess: one flag in one thread settles it, and the Programs
  themselves are I/O with git and GitHub.
* Reading the catalog's directories, the provider check, serialization to YAML, the
  limits on the sizes of texts beyond one that is too long.
* Bends that a deletion leaves behind in a layout: what is drawn wrongly is the shape of an edge.
* Rendering, logging, installation, the monitor and its pages, scripts: sequential,
  without shared state, or pure wording.
