----------------------------- MODULE EditorPanel -----------------------------
(***************************************************************************)
(* The editor's page, src/web-client/src/panel.js: opening a directory,    *)
(* selecting a file, the preview, and saving, each a callback that awaits  *)
(* the browser's file system or an endpoint of the plugin and holds what   *)
(* it captured when it was started.  An endpoint answers, or its call      *)
(* fails after 15 seconds at the latest (src/web-client/src/rpc.js).       *)
(*                                                                         *)
(* A prompt about unsaved changes is answered with "go on"; when it is     *)
(* not, nothing happens.  A drag is over before another control is used.   *)
(***************************************************************************)
EXTENDS PanelEdits

CONSTANTS
  Remembered,   \* the directory of the last session
  NewName,      \* the name typed for a new file
  Drag,         \* a position nodes are dragged to
  Disks,        \* what the directories may hold at first
  MaxActs       \* bound: what the user does

\* The remembered directory is there; a definition has flows, and these nodes.
HasNodes(config) == "flows" \in DOMAIN config /\ \A f \in DOMAIN config.flows : "nodes" \in DOMAIN config.flows[f]
IsFile(file) == DOMAIN file = {"config", "layout"} /\ HasNodes(file.config)
ASSUME DisksAssumption ==
  \A held \in Disks : /\ Remembered \in DOMAIN held
                      /\ \A d \in DOMAIN held : \A name \in DOMAIN held[d] : IsFile(held[d][name])

VARIABLES
  disk,      \* directory -> file name -> [config, layout]
  dir,       \* the directory that is open
  st,        \* the page's state
  jobs,      \* the callbacks in progress
  previews,  \* calls of the preview endpoint: [of, is]
  restore,   \* the restoring of the last directory: "pending", "offered", "over"
  home,      \* the file the draft was loaded from or is to become
  history,   \* "fresh"; "written": a file was, since its oldest entry; "crossed"
  overlapped,\* a listing ran together with a selection, a new file or a save
  acts       \* what the user did so far

panelVars == <<disk, dir, st, jobs, previews, restore, home, history, overlapped, acts>>

Blank(files) ==
  [files |-> files, selected |-> None, draft |-> None, positions |-> EmptyLayout, personaInput |-> "",
   dirtyBusiness |-> FALSE, dirtyLayout |-> FALSE, past |-> <<>>, future |-> <<>>, busy |-> FALSE, preview |-> None]
\* What the endpoints parse and validate refuse, and what layout answers.
Accepted(config) == IF Valid(config) /\ DirectSelfLoops(config) = {} THEN TRUE ELSE FALSE
Resolve(config, text) == FillMissingPositions(config, ParseLayoutFile(text))
Showing(files, name, config, positions) ==
  [Blank(files) EXCEPT !.selected = name, !.draft = config, !.positions = positions,
                       !.personaInput = IF config.persona = None THEN "" ELSE config.persona]

PanelInit ==
  /\ disk \in Disks
  /\ jobs = {} /\ previews = {} /\ history = "fresh" /\ overlapped = FALSE /\ acts = 0
  /\ \/ dir = None /\ st = Blank({}) /\ restore = "pending" /\ home = None
     \/ \E name \in DOMAIN disk[Remembered] :
          LET file == disk[Remembered][name] IN
          /\ Accepted(file.config)
          /\ dir = Remembered /\ restore = "over" /\ home = <<Remembered, name>>
          /\ st = [Showing(DOMAIN disk[Remembered], name, Normalized(file.config),
                           Resolve(Normalized(file.config), file.layout))
                   EXCEPT !.preview = Normalized(file.config)]

\* A newer request of a kind supersedes the ones before.
Superseded(js) == {IF j.kind = "select" THEN [j EXCEPT !.live = FALSE] ELSE j : j \in js}
Dropped == {[of |-> p.of, is |-> "superseded"] : p \in {q \in previews : q.is # "failed"}}
\* The preview follows the draft.
Shows(next) ==
  /\ st' = next
  /\ previews' = Dropped \cup (IF next.draft = None THEN {} ELSE {[of |-> next.draft, is |-> "current"]})
Listings == {j \in jobs : j.kind = "list"}
Act == acts < MaxActs /\ acts' = acts + 1

-----------------------------------------------------------------------------
(* Directories. *)

AdoptDirectory(d) ==
  /\ jobs' = Superseded(jobs) \cup {[kind |-> "list", dir |-> d]}
  /\ previews' = Dropped
  /\ overlapped' = (overlapped \/ \E j \in jobs : j.kind = "save")
  /\ UNCHANGED <<disk, dir, st, home, history>>

OpenDirectory(d) == ~st.busy /\ Act /\ AdoptDirectory(d) /\ UNCHANGED restore
RestoreGranted == restore = "pending" /\ restore' = "over" /\ AdoptDirectory(Remembered) /\ UNCHANGED acts
RestoreRefused ==
  /\ restore = "pending" /\ restore' \in {"offered", "over"}
  /\ UNCHANGED <<disk, dir, st, jobs, previews, home, history, overlapped, acts>>
RestoreDirectory ==
  restore = "offered" /\ dir = None /\ ~st.busy /\ Act /\ restore' = "over" /\ AdoptDirectory(Remembered)

\* Mutant: the selected file is kept when another directory is opened.
ListedKeeping(j) ==
  /\ j \in Listings /\ jobs' = jobs \ {j}
  /\ dir' = j.dir /\ Shows([st EXCEPT !.files = DOMAIN disk[j.dir]])
  /\ UNCHANGED <<disk, home, history, restore, overlapped, acts>>
Listed(j) ==
  /\ j \in Listings /\ jobs' = jobs \ {j}
  /\ \/ dir' = j.dir /\ Shows(Blank(DOMAIN disk[j.dir])) /\ home' = None /\ history' = "fresh"
     \/ UNCHANGED <<dir, st, previews, home, history>>
  /\ UNCHANGED <<disk, restore, overlapped, acts>>

-----------------------------------------------------------------------------
(* Files. *)

SelectFile(name) ==
  /\ dir # None /\ name \in st.files /\ ~st.busy /\ ~(st.selected = name /\ st.draft # None) /\ Act
  /\ jobs' = Superseded(jobs) \cup {[kind |-> "select", dir |-> dir, name |-> name, files |-> st.files,
                                     live |-> TRUE, config |-> None, layout |-> None]}
  /\ st' = [st EXCEPT !.busy = TRUE] /\ previews' = Dropped
  /\ overlapped' = (overlapped \/ Listings # {})
  /\ UNCHANGED <<disk, dir, restore, home, history>>

\* The file cannot be read: what is shown stays.
Unread(j) ==
  /\ jobs' = jobs \ {j}
  /\ st' = IF j.live THEN [st EXCEPT !.busy = FALSE] ELSE st
  /\ UNCHANGED <<previews, home, history>>
\* It is refused, or the endpoint does not answer.
Refused(j) ==
  /\ jobs' = jobs \ {j}
  /\ IF j.live THEN Shows([st EXCEPT !.busy = FALSE, !.selected = j.name, !.draft = None]) /\ home' = None
               ELSE UNCHANGED <<st, previews, home>>
  /\ UNCHANGED history

Parsed(j) ==
  /\ j.kind = "select" /\ j.config = None
  /\ LET files == disk[j.dir] IN
     \/ Unread(j)
     \/ j.name \in DOMAIN files /\ Refused(j)
     \/ /\ j.name \in DOMAIN files /\ Accepted(files[j.name].config)
        /\ jobs' = (jobs \ {j}) \cup
                   IF j.live THEN {[j EXCEPT !.config = Normalized(files[j.name].config), !.layout = files[j.name].layout]}
                             ELSE {}
        /\ UNCHANGED <<st, previews, home, history>>
  /\ UNCHANGED <<disk, dir, restore, overlapped, acts>>

LaidOut(j) ==
  /\ j.kind = "select" /\ j.config # None
  /\ \/ Refused(j)
     \/ /\ jobs' = jobs \ {j}
        /\ IF j.live
           THEN /\ Shows(Showing(j.files, j.name, j.config, Resolve(j.config, j.layout)))
                /\ home' = <<j.dir, j.name>> /\ history' = "fresh"
           ELSE UNCHANGED <<st, previews, home, history>>
  /\ UNCHANGED <<disk, dir, restore, overlapped, acts>>

CreateNewFile ==
  /\ dir # None /\ ~st.busy /\ NewName \notin st.files /\ Act
  /\ jobs' = Superseded(jobs)
  /\ LET positions == [f \in {MainFlow} |-> [key \in {<<"node", "main">>} |-> 0]] IN
     Shows([Showing(st.files \cup {NewName}, NewName, MinimalConfigOf, positions)
            EXCEPT !.dirtyBusiness = TRUE, !.dirtyLayout = TRUE])
  /\ home' = <<dir, NewName>> /\ history' = "fresh"
  /\ overlapped' = (overlapped \/ Listings # {})
  /\ UNCHANGED <<disk, dir, restore>>

-----------------------------------------------------------------------------
(* Edits and their preview. *)

RunEdit(result) ==
  /\ result.ok /\ result.state # st
  /\ IF result.state.draft = st.draft THEN st' = result.state /\ UNCHANGED previews ELSE Shows(result.state)
ApplyPersona ==
  /\ ~st.busy /\ Act
  /\ \E clear \in BOOLEAN : RunEdit(ApplyPersonaEdit([st EXCEPT !.personaInput = "w"], clear))
  /\ UNCHANGED <<disk, dir, jobs, restore, home, history, overlapped>>
MoveNode ==
  /\ ~st.busy /\ Act
  /\ st.draft # None /\ RunEdit(MoveNodeEdit(st, MainFlow, <<"node", st.draft.flows[MainFlow].start>>, Drag))
  /\ UNCHANGED <<disk, dir, jobs, restore, home, history, overlapped>>
RestoreHistory(edit) ==
  /\ ~st.busy /\ Act /\ edit.ok
  /\ Shows(edit.state)
  /\ history' = IF history = "fresh" THEN "fresh" ELSE "crossed"
  /\ UNCHANGED <<disk, dir, jobs, restore, home, overlapped>>

\* Mutant: the last answer is shown, whatever it is of.
PreviewedLast(p) ==
  /\ p \in previews /\ p.is # "failed"
  /\ previews' = previews \ {p} /\ st' = [st EXCEPT !.preview = p.of]
  /\ UNCHANGED <<disk, dir, jobs, restore, home, history, overlapped, acts>>
Previewed(p) ==
  /\ p \in previews /\ p.is # "failed"
  /\ \/ /\ previews' = previews \ {p}
        /\ st' = IF p.is = "current" THEN [st EXCEPT !.preview = p.of] ELSE st
     \/ /\ previews' = (previews \ {p}) \cup (IF p.is = "current" THEN {[p EXCEPT !.is = "failed"]} ELSE {})
        /\ UNCHANGED st
  /\ UNCHANGED <<disk, dir, jobs, restore, home, history, overlapped, acts>>

-----------------------------------------------------------------------------
(* Saving. *)

Save ==
  /\ dir # None /\ st.draft # None /\ IsDirty(st) /\ ~st.busy /\ st.selected # None /\ Act
  /\ jobs' = jobs \cup {[kind |-> "save", dir |-> dir, name |-> st.selected, draft |-> st.draft,
                         positions |-> st.positions, writeYaml |-> st.dirtyBusiness, at |-> "validate"]}
  /\ st' = [st EXCEPT !.busy = TRUE]
  /\ overlapped' = (overlapped \/ Listings # {})
  /\ UNCHANGED <<disk, dir, previews, restore, home, history>>

SaveGoesOn(j, at) == jobs' = (jobs \ {j}) \cup {[j EXCEPT !.at = at]} /\ UNCHANGED <<st, previews>>
\* Mutant: a failed save has cleared the flags.
SaveFailsClean(j) ==
  /\ jobs' = jobs \ {j} /\ UNCHANGED <<disk, previews, history>>
  /\ st' = [st EXCEPT !.busy = FALSE, !.dirtyBusiness = FALSE, !.dirtyLayout = FALSE]
\* What was not written stays unsaved.
SaveFails(j) ==
  jobs' = jobs \ {j} /\ st' = [st EXCEPT !.busy = FALSE] /\ UNCHANGED <<disk, previews, history>>
Saved(j) ==
  /\ jobs' = jobs \ {j}
  /\ Shows([st EXCEPT !.busy = FALSE, !.draft = j.draft, !.dirtyBusiness = FALSE, !.dirtyLayout = FALSE])

File(j) == IF j.name \in DOMAIN disk[j.dir] THEN disk[j.dir][j.name] ELSE [config |-> None, layout |-> None]
Write(j, file) ==
  /\ disk' = [disk EXCEPT ![j.dir] = With(@, j.name, file)]
  /\ history' = IF history = "crossed" \/ (st.past = <<>> /\ st.future = <<>>) THEN history ELSE "written"

Validated(j) ==
  /\ j.at = "validate" /\ Accepted(j.draft)
  /\ jobs' = (jobs \ {j}) \cup {[j EXCEPT !.draft = Normalized(@), !.at = IF j.writeYaml THEN "yaml" ELSE "layout"]}
  /\ UNCHANGED <<disk, st, previews, history>>
YamlWritten(j) == j.at = "yaml" /\ Write(j, [File(j) EXCEPT !.config = j.draft]) /\ SaveGoesOn(j, "layout")
LayoutWritten(j) ==
  /\ j.at = "layout" /\ Write(j, [File(j) EXCEPT !.layout = Resolve(j.draft, j.positions)])
  /\ IF j.writeYaml THEN SaveGoesOn(j, "reread") ELSE Saved(j)
Reread(j) ==
  /\ j.at = "reread" /\ File(j).config # None
  /\ Accepted(File(j).config) /\ Normalized(File(j).config) = j.draft
  /\ Saved(j) /\ UNCHANGED <<disk, history>>

SaveNext(j) ==
  /\ j.kind = "save"
  /\ SaveFails(j) \/ Validated(j) \/ YamlWritten(j) \/ LayoutWritten(j) \/ Reread(j)
  /\ UNCHANGED <<dir, restore, home, overlapped, acts>>

PanelNext ==
  \/ \E d \in DOMAIN disk : OpenDirectory(d)
  \/ RestoreGranted \/ RestoreRefused \/ RestoreDirectory
  \/ \E j \in jobs : Listed(j) \/ Parsed(j) \/ LaidOut(j) \/ SaveNext(j)
  \/ \E name \in st.files : SelectFile(name)
  \/ CreateNewFile \/ ApplyPersona \/ MoveNode
  \/ RestoreHistory(UndoEdit(st)) \/ RestoreHistory(RedoEdit(st))
  \/ \E p \in previews : Previewed(p)
  \/ Save

-----------------------------------------------------------------------------
(* Properties. *)

Shown == st.draft # None /\ st.selected # None /\ dir # None

\* The draft on the page was loaded from, or created as, the file a save would
\* write: a selection that was overtaken by the opening of another directory
\* does not bring its file into it.  When a selection is made while a listing
\* is under way, nothing holds it back; those behaviours are left out.
DraftIsOfItsFile == Shown /\ ~overlapped => home = <<dir, st.selected>>

\* A page that says it is saved (no flag set) shows what selecting the file
\* again would show: every failure of the validation, of either write and of
\* the check that reads the file again keeps a flag set.
CleanIsWritten ==
  Shown /\ ~IsDirty(st) /\ home # None =>
    /\ home[2] \in DOMAIN disk[home[1]]
    /\ LET file == disk[home[1]][home[2]] IN
       Normalized(file.config) = st.draft /\ Resolve(st.draft, file.layout) = st.positions
\* The same, as long as the history has not been followed to before a write.
CleanIsWrittenAtFirst == history # "crossed" /\ ~overlapped => CleanIsWritten

\* Whatever answer arrives, the preview it puts up is that of the draft on the
\* page: never one of an older draft, or of the file before.  (It may be late:
\* a call that an opening or a selection superseded is not made again when
\* that one fails.)
PreviewIsOfTheDraft ==
  [][st'.preview # st.preview => st'.preview \in {None, st'.draft}]_panelVars
=============================================================================
