---------------------------- MODULE EditorProofs ----------------------------
(***************************************************************************)
(* Theorems about the editor.  About the page, for any directories and     *)
(* files and any number of callbacks in progress: the draft belongs to the *)
(* file that is shown as selected, and the preview to the draft; of this,  *)
(* nothing rests on what validation, normalization and layout make of a    *)
(* definition.  A page that says it is saved shows what selecting its file *)
(* again would show: this rests on normalizing twice being normalizing     *)
(* once, and on the resolved positions being what is resolved from them    *)
(* when written.                                                           *)
(*   About a draft of the backend, for any files, names and texts: no edit *)
(* but a deletion leaves a reference to what is not there.                 *)
(***************************************************************************)
EXTENDS Editor, SequenceTheorems, TLAPS

-----------------------------------------------------------------------------
(* The inductive invariant.                                                *)

StateFields ==
  {"files", "selected", "draft", "positions", "personaInput", "dirtyBusiness", "dirtyLayout",
   "past", "future", "busy", "preview"}
SelectFields == {"kind", "dir", "name", "files", "live", "config", "layout"}
SaveFields   == {"kind", "dir", "name", "draft", "positions", "writeYaml", "at"}

PageTypes ==
  /\ DOMAIN st = StateFields
  /\ \A j \in jobs : /\ j.kind \in {"list", "select", "save"}
                     /\ j.kind = "select" => DOMAIN j = SelectFields
                     /\ j.kind = "save" => DOMAIN j = SaveFields
  /\ \A p \in previews : DOMAIN p = {"of", "is"}

\* The callbacks that will still write to the page's draft.
Foreground(j) == j.kind = "save" \/ (j.kind = "select" /\ j.live)

\* As long as no listing ran beside one, there is at most one of them, and the
\* page is busy with it: it is about the directory that is open, no other
\* directory is being listed, and a save is about the draft that is shown.
Alone ==
  ~overlapped =>
    \A j \in jobs : Foreground(j) =>
      /\ st.busy /\ j.dir = dir /\ Listings = {}
      /\ \A k \in jobs : Foreground(k) => k = j
      /\ j.kind = "save" => st.draft # None /\ st.selected = j.name

\* The call whose answer will be shown was made for the draft that is there.
CurrentPreview == \A p \in previews : p.is = "current" => p.of = st.draft

PageInv == PageTypes /\ Alone /\ DraftIsOfItsFile /\ CurrentPreview

-----------------------------------------------------------------------------
(* How jobs and previews change.                                           *)

LEMMA SupersededJobs ==
  ASSUME PageTypes
  PROVE  /\ \A k \in Superseded(jobs) :
              \E j \in jobs : /\ k.kind = j.kind /\ DOMAIN k = DOMAIN j
                              /\ k.kind # "select" => k = j
                              /\ k.kind = "select" => ~k.live
<1>1. SUFFICES ASSUME NEW j \in jobs
               PROVE  LET k == IF j.kind = "select" THEN [j EXCEPT !.live = FALSE] ELSE j
                      IN  /\ k.kind = j.kind /\ DOMAIN k = DOMAIN j
                          /\ k.kind # "select" => k = j
                          /\ k.kind = "select" => ~k.live
  BY DEF Superseded
<1>2. CASE j.kind = "select"
  <2>1. DOMAIN j = SelectFields
    BY <1>2 DEF PageTypes
  <2> QED
    BY <1>2, <2>1 DEF SelectFields
<1>3. CASE j.kind # "select"
  BY <1>3
<1> QED
  BY <1>2, <1>3

LEMMA NoneForeground ==
  ASSUME PageTypes, \A j \in jobs : j.kind # "save"
  PROVE  \A k \in Superseded(jobs) : ~Foreground(k)
BY SupersededJobs DEF Foreground

LEMMA DroppedPreviews ==
  \A p \in Dropped : p.is = "superseded" /\ DOMAIN p = {"of", "is"}
BY DEF Dropped

\* What is put up together with the request of its preview.
LEMMA ShownPreview ==
  ASSUME NEW next, Shows(next)
  PROVE  CurrentPreview' /\ \A p \in previews' : DOMAIN p = {"of", "is"}
<1>1. st' = next /\ previews' = Dropped \cup (IF next.draft = None THEN {} ELSE {[of |-> next.draft, is |-> "current"]})
  BY DEF Shows
<1>2. \A p \in previews' : p \in Dropped \/ p = [of |-> next.draft, is |-> "current"]
  BY <1>1
<1> QED
  BY <1>1, <1>2, DroppedPreviews DEF CurrentPreview

\* A callback j that goes on as k, or is over.
Continues(j, k) ==
  /\ k.kind = j.kind /\ k.dir = j.dir /\ DOMAIN k = DOMAIN j
  /\ k.kind = "save" => k.name = j.name
  /\ Foreground(k) => Foreground(j)

LEMMA JobGoesOn ==
  ASSUME PageInv, NEW j \in jobs, j.kind # "list", NEW k, Continues(j, k),
         jobs' = (jobs \ {j}) \cup {k}, UNCHANGED <<dir, overlapped>>,
         st'.busy = st.busy, st'.draft = st.draft, st'.selected = st.selected
  PROVE  Alone' /\ (\A i \in jobs' : /\ i.kind \in {"list", "select", "save"}
                                     /\ i.kind = "select" => DOMAIN i = SelectFields
                                     /\ i.kind = "save" => DOMAIN i = SaveFields)
<1>1. \A i \in jobs' : /\ i.kind \in {"list", "select", "save"}
                       /\ i.kind = "select" => DOMAIN i = SelectFields
                       /\ i.kind = "save" => DOMAIN i = SaveFields
  BY DEF PageInv, PageTypes, Continues
<1>2. ASSUME ~overlapped, NEW i \in jobs', Foreground(i)
      PROVE  /\ st'.busy /\ i.dir = dir /\ Listings' = {}
             /\ \A h \in jobs' : Foreground(h) => h = i
             /\ i.kind = "save" => st'.draft # None /\ st'.selected = i.name
  <2>1. PICK f \in jobs : /\ Foreground(f) /\ (i = f \/ (f = j /\ i = k))
                          /\ f.dir = i.dir /\ f.kind = i.kind /\ (f.kind = "save" => f.name = i.name)
    BY <1>2 DEF Continues
  <2>2. /\ st.busy /\ f.dir = dir /\ Listings = {}
        /\ \A h \in jobs : Foreground(h) => h = f
        /\ f.kind = "save" => st.draft # None /\ st.selected = f.name
    BY <1>2, <2>1 DEF PageInv, Alone
  <2>3. \A h \in jobs' : Foreground(h) => h = i
    BY <2>1, <2>2 DEF Continues
  <2>4. Listings' = {}
    BY <2>2 DEF Listings, Continues
  <2> QED
    BY <2>1, <2>2, <2>3, <2>4
<1> QED
  BY <1>1, <1>2 DEF Alone

\* The callback the page was busy with is over, or one that was superseded.
LEMMA JobIsOver ==
  ASSUME PageInv, NEW j \in jobs, jobs' = jobs \ {j}, UNCHANGED <<dir, overlapped>>,
         \/ Foreground(j)
         \/ st'.busy = st.busy /\ st'.draft = st.draft /\ st'.selected = st.selected
  PROVE  Alone' /\ (\A i \in jobs' : /\ i.kind \in {"list", "select", "save"}
                                     /\ i.kind = "select" => DOMAIN i = SelectFields
                                     /\ i.kind = "save" => DOMAIN i = SaveFields)
<1>1. \A i \in jobs' : /\ i.kind \in {"list", "select", "save"}
                       /\ i.kind = "select" => DOMAIN i = SelectFields
                       /\ i.kind = "save" => DOMAIN i = SaveFields
  BY DEF PageInv, PageTypes
<1>2. ASSUME ~overlapped, NEW i \in jobs', Foreground(i)
      PROVE  /\ st'.busy /\ i.dir = dir /\ Listings' = {}
             /\ \A h \in jobs' : Foreground(h) => h = i
             /\ i.kind = "save" => st'.draft # None /\ st'.selected = i.name
  <2>1. /\ st.busy /\ i.dir = dir /\ Listings = {}
        /\ \A h \in jobs : Foreground(h) => h = i
        /\ i.kind = "save" => st.draft # None /\ st.selected = i.name
    BY <1>2 DEF PageInv, Alone
  <2>2. ~Foreground(j)
    BY <1>2, <2>1
  <2> QED
    BY <2>1, <2>2 DEF Listings
<1> QED
  BY <1>1, <1>2 DEF Alone

\* Without a callback in the foreground there is nothing to show of them.
LEMMA NobodyThere ==
  ASSUME ~overlapped' => \A j \in jobs' : ~Foreground(j)
  PROVE  Alone'
BY DEF Alone

LEMMA NotBusy ==
  ASSUME PageInv, ~st.busy, ~overlapped
  PROVE  \A j \in jobs : ~Foreground(j)
BY DEF PageInv, Alone

-----------------------------------------------------------------------------
(* The actions.                                                            *)

LEMMA AdoptDirectoryInv ==
  ASSUME PageInv, NEW d, AdoptDirectory(d)
  PROVE  PageInv'
<1>1. /\ jobs' = Superseded(jobs) \cup {[kind |-> "list", dir |-> d]} /\ previews' = Dropped
      /\ overlapped' = (overlapped \/ \E j \in jobs : j.kind = "save")
      /\ dir' = dir /\ st' = st /\ home' = home
  BY DEF AdoptDirectory
<1>2. PageTypes'
  BY <1>1, SupersededJobs, DroppedPreviews DEF PageInv, PageTypes
<1>3. Alone'
  <2>1. SUFFICES ASSUME ~overlapped', NEW j \in jobs' PROVE ~Foreground(j)
    BY NobodyThere
  <2>2. \A k \in Superseded(jobs) : ~Foreground(k)
    BY <1>1, <2>1, NoneForeground DEF PageInv
  <2> QED
    BY <1>1, <2>2 DEF Foreground
<1>4. DraftIsOfItsFile'
  BY <1>1 DEF PageInv, DraftIsOfItsFile, Shown
<1>5. CurrentPreview'
  BY <1>1, DroppedPreviews DEF CurrentPreview
<1> QED
  BY <1>2, <1>3, <1>4, <1>5 DEF PageInv

LEMMA ListedInv ==
  ASSUME PageInv, NEW j, Listed(j)
  PROVE  PageInv'
<1>1. j \in Listings /\ j \in jobs /\ jobs' = jobs \ {j} /\ overlapped' = overlapped
  BY DEF Listed, Listings
<1>2. Alone'
  <2>1. SUFFICES ASSUME ~overlapped', NEW k \in jobs' PROVE ~Foreground(k)
    BY NobodyThere
  <2> QED
    BY <1>1, <2>1 DEF PageInv, Alone
<1>3. CASE dir' = j.dir /\ Shows(Blank(DOMAIN disk[j.dir])) /\ home' = None
  <2>1. st' = Blank(DOMAIN disk[j.dir])
    BY <1>3 DEF Shows
  <2>2. PageTypes' /\ DraftIsOfItsFile'
    BY <1>1, <1>3, <2>1, ShownPreview DEF PageInv, PageTypes, StateFields, Blank, DraftIsOfItsFile, Shown
  <2> QED
    BY <1>2, <1>3, <2>2, ShownPreview DEF PageInv
<1>4. CASE UNCHANGED <<dir, st, previews, home>>
  BY <1>1, <1>2, <1>4 DEF PageInv, PageTypes, DraftIsOfItsFile, Shown, CurrentPreview
<1> QED
  BY <1>3, <1>4 DEF Listed

LEMMA SelectFileInv ==
  ASSUME PageInv, NEW name, SelectFile(name)
  PROVE  PageInv'
<1> DEFINE new == [kind |-> "select", dir |-> dir, name |-> name, files |-> st.files,
                   live |-> TRUE, config |-> None, layout |-> None]
<1>1. /\ jobs' = Superseded(jobs) \cup {new} /\ st' = [st EXCEPT !.busy = TRUE] /\ previews' = Dropped
      /\ overlapped' = (overlapped \/ Listings # {}) /\ dir' = dir /\ home' = home /\ ~st.busy
  BY DEF SelectFile
<1>2. /\ DOMAIN st' = StateFields /\ st'.busy
      /\ st'.draft = st.draft /\ st'.selected = st.selected
  BY <1>1 DEF PageInv, PageTypes, StateFields
<1>3. DOMAIN new = SelectFields /\ new.kind = "select" /\ new.dir = dir
  BY DEF SelectFields
<1> HIDE DEF new
<1>4. PageTypes'
  BY <1>1, <1>2, <1>3, SupersededJobs, DroppedPreviews DEF PageInv, PageTypes
<1>5. ASSUME ~overlapped', NEW j \in jobs', Foreground(j)
      PROVE  j = new /\ Listings' = {}
  <2>1. \A k \in jobs : k.kind # "save" /\ k.kind # "list"
    BY <1>1, <1>5, NotBusy DEF Foreground, Listings
  <2>2. \A k \in Superseded(jobs) : ~Foreground(k) /\ k.kind # "list"
    BY <2>1, NoneForeground, SupersededJobs DEF PageInv
  <2> QED
    BY <1>1, <1>3, <1>5, <2>2 DEF Listings
<1>6. Alone'
  BY <1>1, <1>2, <1>3, <1>5 DEF Alone
<1>7. DraftIsOfItsFile' /\ CurrentPreview'
  BY <1>1, <1>2, DroppedPreviews DEF PageInv, DraftIsOfItsFile, Shown, CurrentPreview
<1> QED
  BY <1>4, <1>6, <1>7 DEF PageInv

LEMMA UnreadInv ==
  ASSUME PageInv, NEW j \in jobs, j.kind = "select", Unread(j), UNCHANGED <<dir, overlapped>>
  PROVE  PageInv'
<1>1. /\ jobs' = jobs \ {j} /\ UNCHANGED <<previews, home>>
      /\ st' = IF j.live THEN [st EXCEPT !.busy = FALSE] ELSE st
  BY DEF Unread
<1>2. DOMAIN st' = StateFields /\ st'.draft = st.draft /\ st'.selected = st.selected
  BY <1>1 DEF PageInv, PageTypes, StateFields
<1>3. Alone' /\ PageTypes'
  BY <1>1, <1>2, JobIsOver DEF Foreground, PageTypes, PageInv
<1>4. DraftIsOfItsFile' /\ CurrentPreview'
  BY <1>1, <1>2 DEF PageInv, DraftIsOfItsFile, Shown, CurrentPreview
<1> QED
  BY <1>3, <1>4 DEF PageInv

LEMMA RefusedInv ==
  ASSUME PageInv, NEW j \in jobs, j.kind = "select", Refused(j), UNCHANGED <<dir, overlapped>>
  PROVE  PageInv'
<1> DEFINE next == [st EXCEPT !.busy = FALSE, !.selected = j.name, !.draft = None]
<1>1. /\ jobs' = jobs \ {j}
      /\ IF j.live THEN Shows(next) /\ home' = None ELSE UNCHANGED <<st, previews, home>>
  BY DEF Refused
<1>2. DOMAIN next = StateFields /\ next.draft = None
  BY DEF PageInv, PageTypes, StateFields
<1> HIDE DEF next
<1>3. CASE j.live
  <2>1. st' = next
    BY <1>1, <1>3 DEF Shows
  <2>2. Alone' /\ PageTypes'
    BY <1>1, <1>2, <1>3, <2>1, JobIsOver, ShownPreview DEF Foreground, PageTypes, PageInv
  <2>3. DraftIsOfItsFile' /\ CurrentPreview'
    BY <1>1, <1>2, <1>3, <2>1, ShownPreview DEF DraftIsOfItsFile, Shown
  <2> QED
    BY <2>2, <2>3 DEF PageInv
<1>4. CASE ~j.live
  <2>1. Alone' /\ PageTypes'
    BY <1>1, <1>4, JobIsOver DEF PageTypes, PageInv
  <2> QED
    BY <1>1, <1>4, <2>1 DEF PageInv, DraftIsOfItsFile, Shown, CurrentPreview
<1> QED
  BY <1>3, <1>4

LEMMA ParsedInv ==
  ASSUME PageInv, NEW j \in jobs, Parsed(j)
  PROVE  PageInv'
<1>1. j.kind = "select" /\ DOMAIN j = SelectFields /\ UNCHANGED <<dir, overlapped>>
  BY DEF Parsed, PageInv, PageTypes
<1>2. CASE Unread(j) \/ Refused(j)
  BY <1>1, <1>2, UnreadInv, RefusedInv
<1>3. ASSUME NEW c, NEW l,
             jobs' = (jobs \ {j}) \cup IF j.live THEN {[j EXCEPT !.config = c, !.layout = l]} ELSE {},
             UNCHANGED <<st, previews, home>>
      PROVE  PageInv'
  <2> DEFINE k == [j EXCEPT !.config = c, !.layout = l]
  <2>1. Continues(j, k)
    BY <1>1 DEF Continues, Foreground, SelectFields
  <2> HIDE DEF k
  <2>2. CASE j.live
    <3>1. jobs' = (jobs \ {j}) \cup {k}
      BY <1>3, <2>2 DEF k
    <3> QED
      BY <1>1, <1>3, <2>1, <3>1, JobGoesOn DEF PageInv, PageTypes, DraftIsOfItsFile, Shown, CurrentPreview
  <2>3. CASE ~j.live
    <3>1. jobs' = jobs \ {j}
      BY <1>3, <2>3
    <3> QED
      BY <1>1, <1>3, <3>1, JobIsOver DEF PageInv, PageTypes, DraftIsOfItsFile, Shown, CurrentPreview
  <2> QED
    BY <2>2, <2>3
<1> QED
  BY <1>2, <1>3 DEF Parsed

LEMMA LaidOutInv ==
  ASSUME PageInv, NEW j \in jobs, LaidOut(j)
  PROVE  PageInv'
<1>1. j.kind = "select" /\ UNCHANGED <<dir, overlapped>>
  BY DEF LaidOut
<1>2. CASE Refused(j)
  BY <1>1, <1>2, RefusedInv
<1>3. CASE /\ jobs' = jobs \ {j} /\ j.live
           /\ Shows(Showing(j.files, j.name, j.config, Resolve(j.config, j.layout)))
           /\ home' = <<j.dir, j.name>>
  <2> DEFINE next == Showing(j.files, j.name, j.config, Resolve(j.config, j.layout))
  <2>1. DOMAIN next = StateFields /\ next.selected = j.name
    BY DEF Showing, Blank, StateFields
  <2> HIDE DEF next
  <2>2. st' = next
    BY <1>3 DEF Shows, next
  <2>3. Alone' /\ PageTypes' /\ CurrentPreview'
    BY <1>1, <1>3, <2>1, <2>2, JobIsOver, ShownPreview DEF Foreground, PageTypes, PageInv
  <2>4. ~overlapped => j.dir = dir
    BY <1>1, <1>3 DEF PageInv, Alone, Foreground
  <2>5. DraftIsOfItsFile'
    BY <1>1, <1>3, <2>1, <2>2, <2>4 DEF DraftIsOfItsFile
  <2> QED
    BY <2>3, <2>5 DEF PageInv
<1>4. CASE jobs' = jobs \ {j} /\ ~j.live /\ UNCHANGED <<st, previews, home>>
  BY <1>1, <1>4, JobIsOver DEF PageInv, PageTypes, DraftIsOfItsFile, Shown, CurrentPreview
<1> QED
  BY <1>2, <1>3, <1>4 DEF LaidOut

LEMMA CreateNewFileInv ==
  ASSUME PageInv, CreateNewFile
  PROVE  PageInv'
<1> DEFINE positions == [f \in {MainFlow} |-> [key \in {<<"node", "main">>} |-> 0]]
           next == [Showing(st.files \cup {NewName}, NewName, MinimalConfigOf, positions)
                    EXCEPT !.dirtyBusiness = TRUE, !.dirtyLayout = TRUE]
<1>1. /\ jobs' = Superseded(jobs) /\ Shows(next) /\ home' = <<dir, NewName>> /\ ~st.busy
      /\ overlapped' = (overlapped \/ Listings # {}) /\ dir' = dir
  BY DEF CreateNewFile
<1>2. DOMAIN next = StateFields /\ next.selected = NewName
  BY DEF Showing, Blank, StateFields
<1> HIDE DEF next
<1>3. st' = next
  BY <1>1 DEF Shows
<1>4. PageTypes' /\ CurrentPreview'
  BY <1>1, <1>2, <1>3, SupersededJobs, ShownPreview DEF PageTypes, PageInv
<1>5. Alone'
  <2>1. SUFFICES ASSUME ~overlapped', NEW k \in jobs' PROVE ~Foreground(k)
    BY NobodyThere
  <2>2. \A j \in jobs : j.kind # "save"
    BY <1>1, <2>1, NotBusy DEF Foreground
  <2> QED
    BY <1>1, <2>1, <2>2, NoneForeground DEF PageInv
<1>6. DraftIsOfItsFile'
  BY <1>1, <1>2, <1>3 DEF DraftIsOfItsFile
<1> QED
  BY <1>4, <1>5, <1>6 DEF PageInv

\* An edit, or a step in the history: the file stays, and the preview follows.
LEMMA EditInv ==
  ASSUME PageInv, ~st.busy, UNCHANGED <<dir, jobs, home, overlapped>>,
         st.draft # None, DOMAIN st' = StateFields, st'.selected = st.selected,
         Shows(st') \/ (st'.draft = st.draft /\ UNCHANGED previews)
  PROVE  PageInv'
<1>1. PageTypes' /\ CurrentPreview'
  BY ShownPreview DEF PageTypes, PageInv, CurrentPreview
<1>2. Alone'
  BY NotBusy, NobodyThere
<1>3. DraftIsOfItsFile'
  BY DEF PageInv, DraftIsOfItsFile, Shown
<1> QED
  BY <1>1, <1>2, <1>3 DEF PageInv

LEMMA RunEditInv ==
  ASSUME PageInv, ~st.busy, UNCHANGED <<dir, jobs, home, overlapped>>, NEW result, RunEdit(result),
         st.draft # None, DOMAIN result.state = StateFields, result.state.selected = st.selected
  PROVE  PageInv'
<1>1. st' = result.state
  BY DEF RunEdit, Shows
<1>2. Shows(st') \/ (st'.draft = st.draft /\ UNCHANGED previews)
  BY <1>1 DEF RunEdit
<1> QED
  BY <1>1, <1>2, EditInv

\* What edits do not touch.
LEMMA EditsKeep ==
  ASSUME NEW s, DOMAIN s = StateFields
  PROVE  /\ DOMAIN WithPast(s) = StateFields /\ WithPast(s).selected = s.selected
         /\ WithPast(s).preview = s.preview
         /\ \A snap : /\ DOMAIN Back(s, snap) = StateFields /\ Back(s, snap).selected = s.selected
                      /\ Back(s, snap).preview = s.preview
BY DEF WithPast, Back, StateFields

LEMMA PersonaKeeps ==
  ASSUME DOMAIN st = StateFields, NEW clear \in BOOLEAN,
         ApplyPersonaEdit([st EXCEPT !.personaInput = "w"], clear).ok
  PROVE  LET s == ApplyPersonaEdit([st EXCEPT !.personaInput = "w"], clear).state
         IN  /\ st.draft # None /\ DOMAIN s = StateFields
             /\ s.selected = st.selected /\ s.preview = st.preview
<1> DEFINE t == [st EXCEPT !.personaInput = "w"]
           s == ApplyPersonaEdit(t, clear).state
<1>1. /\ DOMAIN t = StateFields /\ t.draft = st.draft /\ t.selected = st.selected
      /\ t.preview = st.preview
  BY DEF StateFields
<1> HIDE DEF t
<1>2. ApplyPersonaEdit(t, clear).ok
  BY DEF t
<1>3. t.draft # None
  BY <1>2 DEF ApplyPersonaEdit, Rejected
<1>4. \/ s = t
      \/ \E d, i : s = [[WithPast(t) EXCEPT !.draft = d, !.dirtyBusiness = TRUE] EXCEPT !.personaInput = i]
  BY <1>2 DEF ApplyPersonaEdit, Rejected, NoOp, Applied
<1>5. DOMAIN s = StateFields /\ s.selected = st.selected /\ s.preview = st.preview
  <2>1. CASE s = t
    BY <1>1, <2>1
  <2>2. ASSUME NEW d, NEW i,
               s = [[WithPast(t) EXCEPT !.draft = d, !.dirtyBusiness = TRUE] EXCEPT !.personaInput = i]
        PROVE  DOMAIN s = StateFields /\ s.selected = st.selected /\ s.preview = st.preview
    <3> HIDE DEF s
    <3> QED
      BY <1>1, <2>2, EditsKeep DEF StateFields
  <2> QED
    BY <1>4, <2>1, <2>2
<1> QED
  BY <1>1, <1>3, <1>5 DEF t

LEMMA MoveKeeps ==
  ASSUME DOMAIN st = StateFields, NEW f, NEW key, NEW pos, MoveNodeEdit(st, f, key, pos).ok
  PROVE  LET s == MoveNodeEdit(st, f, key, pos).state
         IN  /\ st.draft # None /\ DOMAIN s = StateFields
             /\ s.selected = st.selected /\ s.preview = st.preview
<1> DEFINE s == MoveNodeEdit(st, f, key, pos).state
<1>1. st.draft # None
  BY DEF MoveNodeEdit, Rejected
<1>2. \/ s = st
      \/ \E p : s = [WithPast(st) EXCEPT !.positions = p, !.dirtyLayout = TRUE]
  BY DEF MoveNodeEdit, Rejected, NoOp
<1> HIDE DEF s
<1>3. DOMAIN s = StateFields /\ s.selected = st.selected /\ s.preview = st.preview
  BY <1>2, EditsKeep DEF StateFields
<1> QED
  BY <1>1, <1>3 DEF s

LEMMA HistoryKeeps ==
  ASSUME DOMAIN st = StateFields, NEW edit \in {UndoEdit(st), RedoEdit(st)}, edit.ok
  PROVE  /\ st.draft # None /\ DOMAIN edit.state = StateFields
         /\ edit.state.selected = st.selected /\ edit.state.preview = st.preview
<1>1. st.draft # None
  BY DEF UndoEdit, RedoEdit, Rejected
<1>2. \E snap, p, f : edit.state = [Back(st, snap) EXCEPT !.past = p, !.future = f]
  <2>1. CASE edit = UndoEdit(st)
    <3> DEFINE snap == st.past[Len(st.past)]
               back == Back(st, snap)
               p == SubSeq(back.past, 1, Len(back.past) - 1)
               f == Append(back.future, SnapshotOf(st))
    <3>1. edit.state = [back EXCEPT !.past = p, !.future = f]
      BY <2>1 DEF UndoEdit, Rejected, NoOp
    <3> HIDE DEF snap, p, f
    <3> QED
      BY <3>1
  <2>2. CASE edit = RedoEdit(st)
    <3> DEFINE snap == st.future[Len(st.future)]
               back == Back(st, snap)
               p == Append(back.past, SnapshotOf(st))
               f == SubSeq(back.future, 1, Len(back.future) - 1)
    <3>1. edit.state = [back EXCEPT !.past = p, !.future = f]
      BY <2>2 DEF RedoEdit, Rejected, NoOp
    <3> HIDE DEF snap, p, f
    <3> QED
      BY <3>1
  <2> QED
    BY <2>1, <2>2
<1> QED
  BY <1>1, <1>2, EditsKeep DEF StateFields

LEMMA PreviewedInv ==
  ASSUME PageInv, NEW p \in previews, Previewed(p)
  PROVE  PageInv'
<1>1. UNCHANGED <<dir, jobs, home, overlapped>>
  BY DEF Previewed
<1>2. /\ DOMAIN st' = StateFields /\ st'.draft = st.draft /\ st'.selected = st.selected
      /\ st'.busy = st.busy
  BY DEF Previewed, PageInv, PageTypes, StateFields
<1>3. \A q \in previews' : q \in previews \/ q = [p EXCEPT !.is = "failed"]
  BY DEF Previewed
<1>4. DOMAIN [p EXCEPT !.is = "failed"] = {"of", "is"} /\ [p EXCEPT !.is = "failed"].is = "failed"
  BY DEF PageInv, PageTypes
<1>5. PageTypes' /\ CurrentPreview'
  BY <1>1, <1>2, <1>3, <1>4 DEF PageInv, PageTypes, CurrentPreview
<1>6. Alone' /\ DraftIsOfItsFile'
  BY <1>1, <1>2 DEF PageInv, Alone, Listings, DraftIsOfItsFile, Shown
<1> QED
  BY <1>5, <1>6 DEF PageInv

LEMMA SaveInv ==
  ASSUME PageInv, Save
  PROVE  PageInv'
<1> DEFINE new == [kind |-> "save", dir |-> dir, name |-> st.selected, draft |-> st.draft,
                   positions |-> st.positions, writeYaml |-> st.dirtyBusiness, at |-> "validate"]
<1>1. /\ jobs' = jobs \cup {new} /\ st' = [st EXCEPT !.busy = TRUE] /\ UNCHANGED <<dir, previews, home>>
      /\ overlapped' = (overlapped \/ Listings # {}) /\ ~st.busy /\ st.draft # None
  BY DEF Save
<1>2. /\ DOMAIN st' = StateFields /\ st'.busy
      /\ st'.draft = st.draft /\ st'.selected = st.selected
  BY <1>1 DEF PageInv, PageTypes, StateFields
<1>3. DOMAIN new = SaveFields /\ new.kind = "save" /\ new.dir = dir /\ new.name = st.selected
  BY DEF SaveFields
<1> HIDE DEF new
<1>4. PageTypes'
  BY <1>1, <1>2, <1>3 DEF PageInv, PageTypes
<1>5. ASSUME ~overlapped', NEW j \in jobs', Foreground(j)
      PROVE  j = new /\ Listings' = {}
  BY <1>1, <1>3, <1>5, NotBusy DEF Listings
<1>6. Alone'
  BY <1>1, <1>2, <1>3, <1>5 DEF Alone
<1>7. DraftIsOfItsFile' /\ CurrentPreview'
  BY <1>1, <1>2 DEF PageInv, DraftIsOfItsFile, Shown, CurrentPreview
<1> QED
  BY <1>4, <1>6, <1>7 DEF PageInv

\* A save that goes on writes to the disk and not to the page.
LEMMA SaveGoesOnInv ==
  ASSUME PageInv, NEW j \in jobs, j.kind = "save", UNCHANGED <<dir, home, overlapped, st, previews>>,
         NEW d, NEW at, jobs' = (jobs \ {j}) \cup {[j EXCEPT !.draft = d, !.at = at]}
  PROVE  PageInv'
<1> DEFINE k == [j EXCEPT !.draft = d, !.at = at]
<1>1. Continues(j, k)
  BY DEF Continues, Foreground, SaveFields, PageInv, PageTypes
<1> HIDE DEF k
<1>2. jobs' = (jobs \ {j}) \cup {k}
  BY DEF k
<1> QED
  BY <1>1, <1>2, JobGoesOn DEF PageInv, PageTypes, DraftIsOfItsFile, Shown, CurrentPreview

LEMMA SavedInv ==
  ASSUME PageInv, NEW j \in jobs, j.kind = "save", UNCHANGED <<dir, home, overlapped>>, Saved(j)
  PROVE  PageInv'
<1> DEFINE next == [st EXCEPT !.busy = FALSE, !.draft = j.draft, !.dirtyBusiness = FALSE, !.dirtyLayout = FALSE]
<1>1. jobs' = jobs \ {j} /\ Shows(next)
  BY DEF Saved
<1>2. DOMAIN next = StateFields /\ next.selected = st.selected
  BY DEF PageInv, PageTypes, StateFields
<1> HIDE DEF next
<1>3. st' = next
  BY <1>1 DEF Shows
<1>4. Alone' /\ PageTypes' /\ CurrentPreview'
  BY <1>1, <1>2, <1>3, JobIsOver, ShownPreview DEF Foreground, PageTypes, PageInv
<1>5. ~overlapped => st.draft # None
  BY DEF PageInv, Alone, Foreground
<1>6. DraftIsOfItsFile'
  BY <1>2, <1>3, <1>5 DEF PageInv, DraftIsOfItsFile, Shown
<1> QED
  BY <1>4, <1>6 DEF PageInv

LEMMA SaveNextInv ==
  ASSUME PageInv, NEW j \in jobs, SaveNext(j)
  PROVE  PageInv'
<1>1. j.kind = "save" /\ UNCHANGED <<dir, home, overlapped>> /\ DOMAIN j = SaveFields
  BY DEF SaveNext, PageInv, PageTypes
<1>2. CASE SaveFails(j)
  <2>1. jobs' = jobs \ {j} /\ st' = [st EXCEPT !.busy = FALSE] /\ UNCHANGED previews
    BY <1>2 DEF SaveFails
  <2>2. DOMAIN st' = StateFields /\ st'.draft = st.draft /\ st'.selected = st.selected
    BY <2>1 DEF PageInv, PageTypes, StateFields
  <2>3. Alone' /\ PageTypes'
    BY <1>1, <2>1, <2>2, JobIsOver DEF Foreground, PageTypes, PageInv
  <2> QED
    BY <1>1, <2>1, <2>2, <2>3 DEF PageInv, DraftIsOfItsFile, Shown, CurrentPreview
<1>3. CASE Validated(j)
  BY <1>1, <1>3, SaveGoesOnInv DEF Validated
<1>4. ASSUME NEW at, SaveGoesOn(j, at)
      PROVE  PageInv'
  <2>1. [j EXCEPT !.at = at] = [j EXCEPT !.draft = j.draft, !.at = at]
    BY <1>1 DEF SaveFields
  <2> QED
    BY <1>1, <1>4, <2>1, SaveGoesOnInv DEF SaveGoesOn
<1>5. CASE Saved(j)
  BY <1>1, <1>5, SavedInv
<1> QED
  BY <1>1, <1>2, <1>3, <1>4, <1>5 DEF SaveNext, YamlWritten, LayoutWritten, Reread

LEMMA PageStep ==
  ASSUME PageInv, PanelNext
  PROVE  PageInv'
<1>0. DOMAIN st = StateFields
  BY DEF PageInv, PageTypes
<1>1. CASE \E d \in DOMAIN disk : OpenDirectory(d)
  BY <1>1, AdoptDirectoryInv DEF OpenDirectory
<1>2. CASE RestoreGranted \/ RestoreDirectory
  BY <1>2, AdoptDirectoryInv DEF RestoreGranted, RestoreDirectory
<1>3. CASE RestoreRefused
  BY <1>3 DEF RestoreRefused, PageInv, PageTypes, Alone, Listings, DraftIsOfItsFile, Shown, CurrentPreview
<1>4. CASE \E j \in jobs : Listed(j) \/ Parsed(j) \/ LaidOut(j) \/ SaveNext(j)
  BY <1>4, ListedInv, ParsedInv, LaidOutInv, SaveNextInv
<1>5. CASE \E name \in st.files : SelectFile(name)
  BY <1>5, SelectFileInv
<1>6. CASE CreateNewFile \/ Save
  BY <1>6, CreateNewFileInv, SaveInv
<1>7. CASE ApplyPersona
  <2>1. PICK clear \in BOOLEAN : RunEdit(ApplyPersonaEdit([st EXCEPT !.personaInput = "w"], clear))
    BY <1>7 DEF ApplyPersona
  <2>2. ~st.busy /\ UNCHANGED <<dir, jobs, home, overlapped>>
    BY <1>7 DEF ApplyPersona
  <2>3. ApplyPersonaEdit([st EXCEPT !.personaInput = "w"], clear).ok
    BY <2>1 DEF RunEdit
  <2> QED
    BY <1>0, <2>1, <2>2, <2>3, PersonaKeeps, RunEditInv
<1>8. CASE MoveNode
  <2>1. PICK key : RunEdit(MoveNodeEdit(st, MainFlow, key, Drag))
    BY <1>8 DEF MoveNode
  <2>2. ~st.busy /\ UNCHANGED <<dir, jobs, home, overlapped>>
    BY <1>8 DEF MoveNode
  <2>3. MoveNodeEdit(st, MainFlow, key, Drag).ok
    BY <2>1 DEF RunEdit
  <2> QED
    BY <1>0, <2>1, <2>2, <2>3, MoveKeeps, RunEditInv
<1>9. CASE RestoreHistory(UndoEdit(st)) \/ RestoreHistory(RedoEdit(st))
  <2>1. PICK edit \in {UndoEdit(st), RedoEdit(st)} : RestoreHistory(edit)
    BY <1>9
  <2>2. edit.ok /\ Shows(edit.state) /\ ~st.busy /\ UNCHANGED <<dir, jobs, home, overlapped>>
    BY <2>1 DEF RestoreHistory
  <2>3. st' = edit.state
    BY <2>2 DEF Shows
  <2> QED
    BY <1>0, <2>2, <2>3, HistoryKeeps, EditInv
<1>10. CASE \E p \in previews : Previewed(p)
  BY <1>10, PreviewedInv
<1> QED
  BY <1>1, <1>2, <1>3, <1>4, <1>5, <1>6, <1>7, <1>8, <1>9, <1>10 DEF PanelNext

-----------------------------------------------------------------------------
(* The theorems.                                                           *)

LEMMA InitPageInv ==
  ASSUME Init
  PROVE  PageInv
<1>1. jobs = {} /\ previews = {} /\ overlapped = FALSE
  BY DEF Init, PanelIdle, PanelInit
<1>2. CASE st = Blank({})
  BY <1>1, <1>2 DEF PageInv, PageTypes, StateFields, Blank, Alone, DraftIsOfItsFile, Shown, CurrentPreview
<1>3. ASSUME NEW c, NEW l, NEW files, NEW name, NEW p,
             st = [Showing(files, name, c, l) EXCEPT !.preview = p],
             dir = Remembered, home = <<Remembered, name>>
      PROVE  PageInv
  <2>1. DOMAIN st = StateFields /\ st.selected = name
    BY <1>3 DEF Showing, Blank, StateFields
  <2> QED
    BY <1>1, <1>3, <2>1 DEF PageInv, PageTypes, Alone, DraftIsOfItsFile, CurrentPreview
<1> QED
  BY <1>2, <1>3 DEF Init, PanelInit, PanelIdle

\* The inductive invariant: as long as no listing ran beside another callback,
\* at most one callback will still write to the page, and it is about the open
\* directory and what is shown.
THEOREM PageHolds == Spec => []PageInv
<1>1. PageInv /\ [Next]_editorVars => PageInv'
  BY PageStep DEF Next, editorVars, panelVars, PageInv, PageTypes, Alone, Listings,
     DraftIsOfItsFile, Shown, CurrentPreview
<1> QED
  BY <1>1, InitPageInv, PTL DEF Spec

\* The draft on the page is that of the file a save would write, whatever
\* callbacks overlapped, failed or were superseded, unless a listing ran
\* beside a selection, a new file or a save.
THEOREM DraftsAreOfTheirFiles == Spec => []DraftIsOfItsFile
BY PageHolds, PTL DEF PageInv

LEMMA PreviewStep ==
  ASSUME PageInv, PanelNext
  PROVE  st'.preview # st.preview => st'.preview \in {None, st'.draft}
<1>0. DOMAIN st = StateFields
  BY DEF PageInv, PageTypes
<1>1. ASSUME NEW j \in jobs, Listed(j)
      PROVE  st' = st \/ st'.preview = None
  <2>1. \A files : Blank(files).preview = None
    BY DEF Blank
  <2>2. st' = st \/ st' = Blank(DOMAIN disk[j.dir])
    BY <1>1 DEF Listed, Shows
  <2> QED
    BY <2>1, <2>2
<1>2. ASSUME NEW j \in jobs, Unread(j) \/ Refused(j)
      PROVE  st'.preview = st.preview
  BY <1>0, <1>2 DEF Unread, Refused, Shows, StateFields
<1>3. ASSUME NEW j \in jobs, LaidOut(j)
      PROVE  st'.preview = st.preview \/ st'.preview = None
  <2>1. CASE Refused(j)
    BY <1>2, <2>1
  <2>2. CASE Shows(Showing(j.files, j.name, j.config, Resolve(j.config, j.layout)))
    BY <2>2 DEF Shows, Showing, Blank
  <2> QED
    BY <1>3, <2>1, <2>2 DEF LaidOut
<1>4. ASSUME NEW j \in jobs, SaveNext(j)
      PROVE  st'.preview = st.preview
  <2>1. ASSUME Saved(j) PROVE st'.preview = st.preview
    BY <1>0, <2>1 DEF Saved, Shows, StateFields
  <2>2. ASSUME SaveFails(j) PROVE st'.preview = st.preview
    BY <1>0, <2>2 DEF SaveFails, StateFields
  <2> QED
    BY <1>4, <2>1, <2>2 DEF SaveNext, Validated, YamlWritten, LayoutWritten, Reread, SaveGoesOn
<1>5. CASE \E j \in jobs : Listed(j) \/ Parsed(j) \/ LaidOut(j) \/ SaveNext(j)
  <2>1. ASSUME NEW j \in jobs, Parsed(j) PROVE st'.preview = st.preview
    BY <1>2, <2>1 DEF Parsed
  <2> QED
    BY <1>1, <1>3, <1>4, <1>5, <2>1
<1>6. CASE \E d \in DOMAIN disk : OpenDirectory(d)
  BY <1>6 DEF OpenDirectory, AdoptDirectory
<1>7. CASE RestoreGranted \/ RestoreRefused \/ RestoreDirectory
  BY <1>7 DEF RestoreGranted, RestoreRefused, RestoreDirectory, AdoptDirectory
<1>8. CASE (\E name \in st.files : SelectFile(name)) \/ Save
  BY <1>0, <1>8 DEF SelectFile, Save, StateFields
<1>9. CASE CreateNewFile
  BY <1>9 DEF CreateNewFile, Shows, Showing, Blank
<1>10. CASE ApplyPersona
  <2>1. PICK clear \in BOOLEAN : RunEdit(ApplyPersonaEdit([st EXCEPT !.personaInput = "w"], clear))
    BY <1>10 DEF ApplyPersona
  <2> QED
    BY <1>0, <2>1, PersonaKeeps DEF RunEdit, Shows
<1>11. CASE MoveNode
  <2>1. PICK key : RunEdit(MoveNodeEdit(st, MainFlow, key, Drag))
    BY <1>11 DEF MoveNode
  <2> QED
    BY <1>0, <2>1, MoveKeeps DEF RunEdit, Shows
<1>12. CASE RestoreHistory(UndoEdit(st)) \/ RestoreHistory(RedoEdit(st))
  <2>1. PICK edit \in {UndoEdit(st), RedoEdit(st)} : RestoreHistory(edit)
    BY <1>12
  <2> QED
    BY <1>0, <2>1, HistoryKeeps DEF RestoreHistory, Shows
<1>13. CASE \E p \in previews : Previewed(p)
  <2>1. PICK p \in previews : Previewed(p)
    BY <1>13
  <2>2. st' = st \/ (p.is = "current" /\ st' = [st EXCEPT !.preview = p.of])
    BY <2>1 DEF Previewed
  <2>3. p.is = "current" => p.of = st.draft
    BY DEF PageInv, CurrentPreview
  <2> QED
    BY <1>0, <2>2, <2>3 DEF StateFields
<1> QED
  BY <1>5, <1>6, <1>7, <1>8, <1>9, <1>10, <1>11, <1>12, <1>13 DEF PanelNext

\* Whatever answer of the preview endpoint arrives, and after whatever edits
\* and openings, the page puts up the preview of the draft it shows.
THEOREM PreviewsAreOfDrafts == Spec => PreviewIsOfTheDraft
<1>1. PageInv /\ [Next]_editorVars
        => [st'.preview # st.preview => st'.preview \in {None, st'.draft}]_panelVars
  BY PreviewStep DEF Next, editorVars, panelVars
<1> QED
  BY <1>1, PageHolds, PTL DEF Spec, PreviewIsOfTheDraft

-----------------------------------------------------------------------------
(* Normalization, in parts: made twice it makes no difference, and it      *)
(* leaves the nodes of the flows where they are.                           *)

TextOf(t)  == IF t = None THEN None ELSE Trim(t)
ModelTrimmed(m) == IF m = None THEN None
              ELSE [provider |-> Trim(m.provider), modelId |-> Trim(m.modelId), effort |-> TextOf(m.effort)]
DutyOf(r)  == [r EXCEPT !.persona = Trim(@), !.model = ModelTrimmed(@), !.fallback = ModelTrimmed(@)]
RoleOf(r)  == [DutyOf(r) EXCEPT !.reuse = ReuseOf(r), !.compact = CompactOf(r)]
RouteOf(x) == [x EXCEPT !.crit = TextOf(@)]
NodeOf(x)  == [x EXCEPT !.text = TextOf(@), !.common = TextOf(@),
                        !.routes = [r \in DOMAIN x.routes |-> RouteOf(x.routes[r])]]
FlowOf(f)  == [f EXCEPT !.nodes = [n \in DOMAIN f.nodes |-> NodeOf(f.nodes[n])]]

LEMMA NormalizedParts ==
  ASSUME NEW c
  PROVE  Normalized(c) = [c EXCEPT !.persona = TextOf(@),
                                   !.roles = [k \in DOMAIN c.roles |-> RoleOf(c.roles[k])],
                                   !.judge = DutyOf(@),
                                   !.flows = [f \in DOMAIN c.flows |-> FlowOf(c.flows[f])]]
BY DEF Normalized, TextOf, ModelTrimmed, DutyOf, RoleOf, RouteOf, NodeOf, FlowOf

LEMMA TrimTwice == \A t : Trim(Trim(t)) = Trim(t)
BY DEF Trim

LEMMA TextTwice == \A t : TextOf(TextOf(t)) = TextOf(t)
BY TrimTwice DEF TextOf

LEMMA ModelTwice == \A m : ModelTrimmed(ModelTrimmed(m)) = ModelTrimmed(m)
BY TrimTwice, TextTwice DEF ModelTrimmed

LEMMA DutyTwice ==
  ASSUME NEW r
  PROVE  DutyOf(DutyOf(r)) = DutyOf(r)
BY TrimTwice, ModelTwice DEF DutyOf

LEMMA RoleTwice ==
  ASSUME NEW r
  PROVE  RoleOf(RoleOf(r)) = RoleOf(r)
<1> DEFINE g == RoleOf(r)
<1>1. /\ g = [x \in DOMAIN g |-> g[x]] /\ DOMAIN g = DOMAIN r
      /\ "persona" \in DOMAIN g => g.persona = Trim(r.persona)
      /\ "model" \in DOMAIN g => g.model = ModelTrimmed(r.model)
      /\ "fallback" \in DOMAIN g => g.fallback = ModelTrimmed(r.fallback)
      /\ "reuse" \in DOMAIN g => g.reuse = ReuseOf(r)
      /\ "compact" \in DOMAIN g => g.compact = CompactOf(r)
  BY DEF RoleOf, DutyOf
<1> HIDE DEF g
<1>2. /\ "persona" \in DOMAIN g => Trim(g.persona) = g.persona
      /\ "model" \in DOMAIN g => ModelTrimmed(g.model) = g.model
      /\ "fallback" \in DOMAIN g => ModelTrimmed(g.fallback) = g.fallback
  BY <1>1, TrimTwice, ModelTwice
<1>3. /\ "reuse" \in DOMAIN g => ReuseOf(g) = g.reuse
      /\ "compact" \in DOMAIN g => CompactOf(g) = g.compact
  BY <1>1 DEF ReuseOf, CompactOf
<1>4. RoleOf(g) = g
  BY <1>1, <1>2, <1>3 DEF RoleOf, DutyOf
<1> QED
  BY <1>4 DEF g

LEMMA RouteTwice ==
  ASSUME NEW x
  PROVE  RouteOf(RouteOf(x)) = RouteOf(x)
BY TextTwice DEF RouteOf

LEMMA NodeTwice ==
  ASSUME NEW x
  PROVE  NodeOf(NodeOf(x)) = NodeOf(x)
<1> DEFINE g == NodeOf(x)
<1>1. /\ g = [y \in DOMAIN g |-> g[y]]
      /\ "text" \in DOMAIN g => g.text = TextOf(x.text)
      /\ "common" \in DOMAIN g => g.common = TextOf(x.common)
      /\ "routes" \in DOMAIN g => g.routes = [r \in DOMAIN x.routes |-> RouteOf(x.routes[r])]
  BY DEF NodeOf
<1> HIDE DEF g
<1>2. "routes" \in DOMAIN g => [r \in DOMAIN g.routes |-> RouteOf(g.routes[r])] = g.routes
  BY <1>1, RouteTwice
<1>3. /\ "text" \in DOMAIN g => TextOf(g.text) = g.text
      /\ "common" \in DOMAIN g => TextOf(g.common) = g.common
  BY <1>1, TextTwice
<1>4. NodeOf(g) = g
  BY <1>1, <1>2, <1>3 DEF NodeOf
<1> QED
  BY <1>4 DEF g

LEMMA FlowTwice ==
  ASSUME NEW f
  PROVE  FlowOf(FlowOf(f)) = FlowOf(f)
<1> DEFINE g == FlowOf(f)
<1>1. /\ g = [y \in DOMAIN g |-> g[y]]
      /\ "nodes" \in DOMAIN g => g.nodes = [n \in DOMAIN f.nodes |-> NodeOf(f.nodes[n])]
  BY DEF FlowOf
<1> HIDE DEF g
<1>2. "nodes" \in DOMAIN g => [n \in DOMAIN g.nodes |-> NodeOf(g.nodes[n])] = g.nodes
  BY <1>1, NodeTwice
<1>3. FlowOf(g) = g
  BY <1>1, <1>2 DEF FlowOf
<1> QED
  BY <1>3 DEF g

LEMMA NormalizedTwice ==
  ASSUME NEW c
  PROVE  Normalized(Normalized(c)) = Normalized(c)
<1> DEFINE g == Normalized(c)
<1>1. /\ g = [y \in DOMAIN g |-> g[y]]
      /\ "persona" \in DOMAIN g => g.persona = TextOf(c.persona)
      /\ "roles" \in DOMAIN g => g.roles = [k \in DOMAIN c.roles |-> RoleOf(c.roles[k])]
      /\ "judge" \in DOMAIN g => g.judge = DutyOf(c.judge)
      /\ "flows" \in DOMAIN g => g.flows = [f \in DOMAIN c.flows |-> FlowOf(c.flows[f])]
  BY NormalizedParts
<1> HIDE DEF g
<1>2. "roles" \in DOMAIN g => [k \in DOMAIN g.roles |-> RoleOf(g.roles[k])] = g.roles
  BY <1>1, RoleTwice
<1>3. "flows" \in DOMAIN g => [f \in DOMAIN g.flows |-> FlowOf(g.flows[f])] = g.flows
  BY <1>1, FlowTwice
<1>4. /\ "persona" \in DOMAIN g => TextOf(g.persona) = g.persona
      /\ "judge" \in DOMAIN g => DutyOf(g.judge) = g.judge
  BY <1>1, TextTwice, DutyTwice
<1>5. Normalized(g) = g
  BY <1>1, <1>2, <1>3, <1>4, NormalizedParts
<1> QED
  BY <1>5 DEF g

SameNodes(c, d) ==
  /\ DOMAIN c.flows = DOMAIN d.flows
  /\ \A f \in DOMAIN c.flows : DOMAIN c.flows[f].nodes = DOMAIN d.flows[f].nodes

LEMMA NormalizedNodes ==
  ASSUME NEW c, HasNodes(c)
  PROVE  HasNodes(Normalized(c)) /\ SameNodes(c, Normalized(c))
BY NormalizedParts DEF HasNodes, SameNodes, FlowOf

-----------------------------------------------------------------------------
(* Layouts: what is shown is what would be shown if it was written.        *)

\* An absent layout file and one that cannot be read are no tables.
NoTables == \A p : MainFlow \in DOMAIN p => p \notin {None, Corrupt}

\* A position that an entry of a table may hold: a number, or, at a node, the
\* one that the order of the nodes gives it.
OwnPlace(c, f, k, x) ==
  \/ x \in Nat
  \/ /\ f \in DOMAIN c.flows
     /\ \E n \in DOMAIN c.flows[f].nodes :
          k = <<"node", n>> /\ x = GridPosition(Index(DOMAIN c.flows[f].nodes, n))

\* Tables that are complete for definition c.
Settled(c, p) ==
  /\ p = [f \in DOMAIN p |-> p[f]] /\ MainFlow \in DOMAIN p /\ DOMAIN c.flows \subseteq DOMAIN p
  /\ \A f \in DOMAIN p :
       /\ p[f] = [k \in DOMAIN p[f] |-> p[f][k]]
       /\ \A k \in DOMAIN p[f] : OwnPlace(c, f, k, p[f][k])
       /\ f \in DOMAIN c.flows => \A n \in DOMAIN c.flows[f].nodes : <<"node", n>> \in DOMAIN p[f]

LEMMA ParsedTables ==
  ASSUME NEW t
  PROVE  LET l == ParseLayoutFile(t) IN
         /\ l = [f \in DOMAIN l |-> l[f]] /\ MainFlow \in DOMAIN l
         /\ \A f \in DOMAIN l : /\ l[f] = [k \in DOMAIN l[f] |-> l[f][k]]
                                /\ \A k \in DOMAIN l[f] : l[f][k] \in Nat
<1>1. CASE t \in {None, Corrupt}
  BY <1>1 DEF ParseLayoutFile, EmptyLayout
<1>2. CASE t \notin {None, Corrupt}
  BY <1>2 DEF ParseLayoutFile
<1> QED
  BY <1>1, <1>2

\* What filling in makes of tables l.
FilledAs(c, l, p) ==
  /\ p = [f \in DOMAIN p |-> p[f]] /\ DOMAIN p = DOMAIN l \cup DOMAIN c.flows
  /\ \A f \in DOMAIN p :
       /\ f \notin DOMAIN c.flows => p[f] = l[f]
       /\ f \in DOMAIN c.flows =>
            /\ p[f] = [k \in DOMAIN p[f] |-> p[f][k]]
            /\ DOMAIN p[f] = DOMAIN Table(l, f) \cup {<<"node", n>> : n \in DOMAIN c.flows[f].nodes}
            /\ \A k \in DOMAIN p[f] :
                 p[f][k] = IF k \in DOMAIN Table(l, f) THEN l[f][k]
                           ELSE GridPosition(Index(DOMAIN c.flows[f].nodes, k[2]))

LEMMA FilledTables ==
  ASSUME NEW c, NEW l
  PROVE  FilledAs(c, l, FillMissingPositions(c, l))
<1> DEFINE p == FillMissingPositions(c, l)
<1>1. p = [f \in DOMAIN p |-> p[f]] /\ DOMAIN p = DOMAIN l \cup DOMAIN c.flows
  BY DEF FillMissingPositions
<1>2. ASSUME NEW f \in DOMAIN p, f \in DOMAIN c.flows
      PROVE  p[f] = [k \in DOMAIN Table(l, f) \cup {<<"node", n>> : n \in DOMAIN c.flows[f].nodes} |->
                       IF k \in DOMAIN Table(l, f) THEN l[f][k]
                       ELSE GridPosition(Index(DOMAIN c.flows[f].nodes, k[2]))]
  BY <1>2 DEF FillMissingPositions
<1>3. ASSUME NEW f \in DOMAIN p, f \notin DOMAIN c.flows
      PROVE  p[f] = l[f]
  BY <1>3 DEF FillMissingPositions
<1> HIDE DEF p
<1>4. ASSUME NEW f \in DOMAIN p, f \in DOMAIN c.flows
      PROVE  /\ p[f] = [k \in DOMAIN p[f] |-> p[f][k]]
             /\ DOMAIN p[f] = DOMAIN Table(l, f) \cup {<<"node", n>> : n \in DOMAIN c.flows[f].nodes}
             /\ \A k \in DOMAIN p[f] :
                  p[f][k] = IF k \in DOMAIN Table(l, f) THEN l[f][k]
                            ELSE GridPosition(Index(DOMAIN c.flows[f].nodes, k[2]))
  <2> DEFINE keys == DOMAIN Table(l, f) \cup {<<"node", n>> : n \in DOMAIN c.flows[f].nodes}
             place(k) == IF k \in DOMAIN Table(l, f) THEN l[f][k]
                         ELSE GridPosition(Index(DOMAIN c.flows[f].nodes, k[2]))
  <2>1. p[f] = [k \in keys |-> place(k)]
    BY <1>2, <1>4
  <2> HIDE DEF keys, place
  <2>2. DOMAIN p[f] = keys /\ p[f] = [k \in DOMAIN p[f] |-> p[f][k]] /\ \A k \in DOMAIN p[f] : p[f][k] = place(k)
    BY <2>1
  <2> QED
    BY <2>2 DEF keys, place
<1>5. FilledAs(c, l, p)
  BY <1>1, <1>3, <1>4 DEF FilledAs
<1> QED
  BY <1>5 DEF p

LEMMA TableOf ==
  ASSUME NEW l, NEW f
  PROVE  IF f \in DOMAIN l THEN Table(l, f) = l[f] ELSE DOMAIN Table(l, f) = {}
BY DEF Table

LEMMA ResolveSettles ==
  ASSUME NEW c, NEW t
  PROVE  Settled(c, Resolve(c, t))
<1> DEFINE l == ParseLayoutFile(t)
           p == FillMissingPositions(c, l)
<1>1. /\ l = [f \in DOMAIN l |-> l[f]] /\ MainFlow \in DOMAIN l
      /\ \A f \in DOMAIN l : /\ l[f] = [k \in DOMAIN l[f] |-> l[f][k]]
                             /\ \A k \in DOMAIN l[f] : l[f][k] \in Nat
  BY ParsedTables
<1> HIDE DEF l
<1>2. FilledAs(c, l, p)
  BY FilledTables
<1> HIDE DEF p
<1>3. ASSUME NEW f \in DOMAIN p
      PROVE  /\ p[f] = [k \in DOMAIN p[f] |-> p[f][k]]
             /\ \A k \in DOMAIN p[f] : OwnPlace(c, f, k, p[f][k])
             /\ f \in DOMAIN c.flows => \A n \in DOMAIN c.flows[f].nodes : <<"node", n>> \in DOMAIN p[f]
  <2>1. CASE f \notin DOMAIN c.flows
    BY <1>1, <1>2, <2>1 DEF OwnPlace, FilledAs
  <2>2. CASE f \in DOMAIN c.flows
    <3> DEFINE nodes == DOMAIN c.flows[f].nodes
    <3>0. /\ p[f] = [k \in DOMAIN p[f] |-> p[f][k]]
          /\ DOMAIN p[f] = DOMAIN Table(l, f) \cup {<<"node", n>> : n \in nodes}
          /\ \A k \in DOMAIN p[f] : p[f][k] = IF k \in DOMAIN Table(l, f) THEN l[f][k]
                                              ELSE GridPosition(Index(nodes, k[2]))
      BY <1>2, <2>2 DEF FilledAs
    <3>1. \A k \in DOMAIN Table(l, f) : Table(l, f) = l[f] /\ l[f][k] \in Nat
      BY <1>1, TableOf
    <3>2. \A k \in DOMAIN p[f] : OwnPlace(c, f, k, p[f][k])
      <4> SUFFICES ASSUME NEW k \in DOMAIN p[f] PROVE OwnPlace(c, f, k, p[f][k])
        OBVIOUS
      <4>1. CASE k \in DOMAIN Table(l, f)
        BY <3>0, <3>1, <4>1 DEF OwnPlace
      <4>2. CASE k \notin DOMAIN Table(l, f)
        <5>1. PICK n \in nodes : k = <<"node", n>>
          BY <3>0, <4>2
        <5>2. k[2] = n
          BY <5>1
        <5>3. p[f][k] = GridPosition(Index(nodes, n))
          BY <3>0, <4>2, <5>2
        <5> QED
          BY <2>2, <5>1, <5>3 DEF OwnPlace
      <4> QED
        BY <4>1, <4>2
    <3> QED
      BY <3>0, <3>2
  <2> QED
    BY <2>1, <2>2
<1>4. Settled(c, p)
  BY <1>1, <1>2, <1>3 DEF Settled, FilledAs
<1> QED
  BY <1>4 DEF Resolve, p, l

LEMMA SettledResolves ==
  ASSUME NoTables, NEW c, NEW p, Settled(c, p)
  PROVE  Resolve(c, p) = p
<1> DEFINE l == ParseLayoutFile(p)
           q == FillMissingPositions(c, l)
<1>1. /\ DOMAIN l = DOMAIN p
      /\ \A f \in DOMAIN p : l[f] = [k \in {x \in DOMAIN p[f] : p[f][x] \in Nat} |-> p[f][k]]
  <2>1. p \notin {None, Corrupt} /\ MainFlow \in DOMAIN p
    BY DEF Settled, NoTables
  <2> QED
    BY <2>1 DEF ParseLayoutFile, Table
<1> HIDE DEF l
<1>2. FilledAs(c, l, q)
  BY FilledTables
<1> HIDE DEF q
<1>3. DOMAIN q = DOMAIN p /\ p = [f \in DOMAIN p |-> p[f]]
  BY <1>1, <1>2 DEF Settled, FilledAs
<1>4. ASSUME NEW f \in DOMAIN p
      PROVE  q[f] = p[f]
  <2>1. /\ p[f] = [k \in DOMAIN p[f] |-> p[f][k]]
        /\ \A k \in DOMAIN p[f] : OwnPlace(c, f, k, p[f][k])
        /\ f \in DOMAIN c.flows => \A n \in DOMAIN c.flows[f].nodes : <<"node", n>> \in DOMAIN p[f]
        /\ l[f] = [k \in {x \in DOMAIN p[f] : p[f][x] \in Nat} |-> p[f][k]]
        /\ Table(l, f) = l[f]
    BY <1>1, TableOf DEF Settled
  <2>2. CASE f \notin DOMAIN c.flows
    <3>1. \A k \in DOMAIN p[f] : p[f][k] \in Nat
      BY <2>1, <2>2 DEF OwnPlace
    <3> QED
      BY <1>2, <1>3, <2>1, <2>2, <3>1 DEF FilledAs
  <2>3. CASE f \in DOMAIN c.flows
    <3> DEFINE nodes == DOMAIN c.flows[f].nodes
    <3>1. /\ q[f] = [k \in DOMAIN q[f] |-> q[f][k]]
          /\ DOMAIN q[f] = DOMAIN l[f] \cup {<<"node", n>> : n \in nodes}
          /\ \A k \in DOMAIN q[f] : q[f][k] = IF k \in DOMAIN l[f] THEN l[f][k]
                                              ELSE GridPosition(Index(nodes, k[2]))
      BY <1>2, <1>3, <2>1, <2>3 DEF FilledAs
    <3>2. \A k \in DOMAIN p[f] : k \in DOMAIN l[f] \/ \E n \in nodes : k = <<"node", n>>
                                      /\ p[f][k] = GridPosition(Index(nodes, n))
      BY <2>1, <2>3 DEF OwnPlace
    <3>3. \A n \in nodes : <<"node", n>> \in DOMAIN p[f]
      BY <2>1, <2>3
    <3> HIDE DEF nodes
    <3>4. DOMAIN q[f] = DOMAIN p[f]
      <4>1. DOMAIN l[f] \subseteq DOMAIN p[f]
        BY <2>1
      <4>2. \A k : k \in DOMAIN q[f] <=> k \in DOMAIN l[f] \/ \E n \in nodes : k = <<"node", n>>
        BY <3>1
      <4>3. \A k : k \in DOMAIN q[f] <=> k \in DOMAIN p[f]
        BY <3>2, <3>3, <4>1, <4>2
      <4> QED
        BY <4>3
    <3>5. ASSUME NEW k \in DOMAIN p[f]
          PROVE  q[f][k] = p[f][k]
      <4>1. CASE k \in DOMAIN l[f]
        BY <2>1, <3>1, <3>4, <4>1
      <4>2. CASE k \notin DOMAIN l[f]
        <5>1. PICK n \in nodes : k = <<"node", n>> /\ p[f][k] = GridPosition(Index(nodes, n))
          BY <3>2, <4>2
        <5>2. k[2] = n
          BY <5>1
        <5> QED
          BY <3>1, <3>4, <4>2, <5>1, <5>2
      <4> QED
        BY <4>1, <4>2
    <3> QED
      BY <2>1, <3>1, <3>4, <3>5
  <2> QED
    BY <2>2, <2>3
<1>5. q = p
  BY <1>2, <1>3, <1>4 DEF FilledAs
<1> QED
  BY <1>5 DEF Resolve, q, l

LEMMA SettledSameNodes ==
  ASSUME NEW c, NEW d, NEW p, Settled(c, p), SameNodes(c, d)
  PROVE  Settled(d, p)
<1>1. \A f, k, x : OwnPlace(c, f, k, x) => OwnPlace(d, f, k, x)
  BY DEF OwnPlace, SameNodes
<1> QED
  BY <1>1 DEF Settled, SameNodes

LEMMA MovedSettled ==
  ASSUME NEW c, NEW p, Settled(c, p), NEW key, NEW pos \in Nat
  PROVE  Settled(c, With(p, MainFlow, With(p[MainFlow], key, pos)))
<1> DEFINE t == With(p[MainFlow], key, pos)
           q == With(p, MainFlow, t)
<1>1. /\ t = [k \in DOMAIN t |-> t[k]] /\ DOMAIN t = DOMAIN p[MainFlow] \cup {key}
      /\ t[key] = pos /\ \A k \in DOMAIN p[MainFlow] : k # key => t[k] = p[MainFlow][k]
  BY DEF With
<1> HIDE DEF t
<1>2. /\ q = [f \in DOMAIN q |-> q[f]] /\ DOMAIN q = DOMAIN p
      /\ q[MainFlow] = t /\ \A f \in DOMAIN p : f # MainFlow => q[f] = p[f]
  BY DEF With, Settled
<1> HIDE DEF q
<1>3. \A k \in DOMAIN t : OwnPlace(c, MainFlow, k, t[k])
  BY <1>1 DEF Settled, OwnPlace
<1>4. Settled(c, q)
  BY <1>1, <1>2, <1>3 DEF Settled
<1> QED
  BY <1>4 DEF q, t

-----------------------------------------------------------------------------
(* What the page, its history and its callbacks know of the file.          *)

Stored == home[2] \in DOMAIN disk[home[1]]
OnDisk == disk[home[1]][home[2]]

\* A state s of the page, or an entry of its history: what it says is saved is
\* in the file.
Known(s) == HasNodes(s.draft) /\ (~s.dirtyBusiness => Stored)
Faithful(s) ==
  /\ Settled(s.draft, s.positions)
  /\ ~s.dirtyBusiness => Normalized(OnDisk.config) = s.draft
  /\ ~IsDirty(s) => Resolve(s.draft, OnDisk.layout) = s.positions

DirsKnown ==
  /\ restore # "over" => Remembered \in DOMAIN disk
  /\ dir # None => dir \in DOMAIN disk
  /\ \A j \in jobs : j.kind = "list" => j.dir \in DOMAIN disk

FilesShaped == \A d \in DOMAIN disk : \A name \in DOMAIN disk[d] : IsFile(disk[d][name])

PageFaithful == st.draft # None => Known(st) /\ (history # "crossed" => Faithful(st))

\* The entries of a history that has not been followed to before a write.
HistoryFaithful ==
  \E entries :
    /\ st.past \in Seq(entries) /\ st.future \in Seq(entries)
    /\ st.draft # None => \A s \in entries : Known(s) /\ (history = "fresh" => Faithful(s))

\* A save is about the draft that is shown, which stays unsaved until it is over.
Saving(j) ==
  /\ home = <<j.dir, j.name>> /\ j.dir \in DOMAIN disk
  /\ j.positions = st.positions /\ j.writeYaml = st.dirtyBusiness /\ IsDirty(st)
  /\ j.draft = IF j.at = "validate" THEN st.draft ELSE Normalized(st.draft)
  /\ j.at = "yaml" => j.writeYaml
  /\ j.at \in {"layout", "reread"} => Stored
  /\ history # "crossed" /\ j.at \in {"layout", "reread"} => Normalized(OnDisk.config) = j.draft
  /\ history # "crossed" /\ j.at = "reread" => Resolve(j.draft, OnDisk.layout) = j.positions

\* What a selection has read is what is there.
Selecting(j) ==
  /\ j.dir \in DOMAIN disk
  /\ j.config # None =>
       /\ j.name \in DOMAIN disk[j.dir]
       /\ j.config = Normalized(disk[j.dir][j.name].config)
       /\ j.layout = disk[j.dir][j.name].layout

JobsFaithful ==
  \A j \in jobs : /\ j.kind = "save" => Saving(j)
                  /\ j.kind = "select" /\ j.live => Selecting(j)

FileInv == FilesShaped /\ PageFaithful /\ HistoryFaithful /\ JobsFaithful
CleanInv == DirsKnown /\ (~overlapped => FileInv)

-----------------------------------------------------------------------------
(* Steps that leave some of it alone.                                      *)

\* What of the page's state is saved, and its history.
SameState(s, t) ==
  /\ s.draft = t.draft /\ s.positions = t.positions
  /\ s.dirtyBusiness = t.dirtyBusiness /\ s.dirtyLayout = t.dirtyLayout
SameHistory(s, t) == s.past = t.past /\ s.future = t.future

LEMMA StateStays ==
  ASSUME PageFaithful, HistoryFaithful, UNCHANGED <<disk, home, history>>,
         SameState(st', st), SameHistory(st', st)
  PROVE  PageFaithful' /\ HistoryFaithful'
<1>1. \A s : (Known(s))' = Known(s) /\ (Faithful(s))' = Faithful(s)
  BY DEF Known, Faithful, Stored, OnDisk
<1>2. PageFaithful'
  BY DEF PageFaithful, Known, Faithful, Stored, OnDisk, SameState, IsDirty
<1>3. HistoryFaithful'
  <2>1. PICK entries : /\ st.past \in Seq(entries) /\ st.future \in Seq(entries)
                       /\ st.draft # None => \A s \in entries : Known(s) /\ (history = "fresh" => Faithful(s))
    BY DEF HistoryFaithful
  <2>2. /\ st'.past \in Seq(entries) /\ st'.future \in Seq(entries)
        /\ st'.draft # None => \A s \in entries : (Known(s))' /\ (history' = "fresh" => (Faithful(s))')
    BY <1>1, <2>1 DEF SameState, SameHistory
  <2> QED
    BY <2>2 DEF HistoryFaithful
<1> QED
  BY <1>2, <1>3

LEMMA JobsStay ==
  ASSUME JobsFaithful, UNCHANGED <<disk, home, history>>, SameState(st', st),
         \A j \in jobs' : j \in jobs \/ ~Foreground(j)
  PROVE  JobsFaithful'
<1>1. \A j : Saving(j) => (Saving(j))'
  BY DEF Saving, SameState, IsDirty, Stored, OnDisk
<1>2. \A j : Selecting(j) => (Selecting(j))'
  BY DEF Selecting
<1> QED
  BY <1>1, <1>2 DEF JobsFaithful, Foreground

LEMMA NobodyWrites ==
  ASSUME \A j \in jobs' : ~Foreground(j)
  PROVE  JobsFaithful'
BY DEF JobsFaithful, Foreground

\* A page that was just filled has no history.
LEMMA NoHistory ==
  ASSUME st'.past = <<>>, st'.future = <<>>
  PROVE  HistoryFaithful'
<1>1. <<>> \in Seq({})
  OBVIOUS
<1> QED
  BY <1>1 DEF HistoryFaithful

-----------------------------------------------------------------------------
(* The actions.                                                            *)

LEMMA OpeningKeeps ==
  ASSUME PageInv, CleanInv, NEW d \in DOMAIN disk, AdoptDirectory(d), restore' \in {restore, "over"}
  PROVE  CleanInv'
<1>1. /\ jobs' = Superseded(jobs) \cup {[kind |-> "list", dir |-> d]}
      /\ overlapped' = (overlapped \/ \E j \in jobs : j.kind = "save")
      /\ UNCHANGED <<disk, dir, st, home, history>>
  BY DEF AdoptDirectory
<1>2. DirsKnown'
  <2>1. \A j \in Superseded(jobs) : j.kind = "list" => j \in jobs
    BY SupersededJobs DEF PageInv
  <2> QED
    BY <1>1, <2>1 DEF DirsKnown, CleanInv
<1>3. ASSUME ~overlapped'
      PROVE  FileInv'
  <2>1. \A j \in Superseded(jobs) : ~Foreground(j)
    BY <1>1, <1>3, NoneForeground DEF PageInv
  <2>2. \A j \in jobs' : ~Foreground(j)
    BY <1>1, <2>1 DEF Foreground
  <2>3. FileInv
    BY <1>1, <1>3 DEF CleanInv
  <2> QED
    BY <1>1, <2>2, <2>3, StateStays, NobodyWrites DEF FileInv, FilesShaped, SameState, SameHistory
<1> QED
  BY <1>2, <1>3 DEF CleanInv

LEMMA ListedKeeps ==
  ASSUME PageInv, CleanInv, NEW j, Listed(j)
  PROVE  CleanInv'
<1>1. /\ j \in jobs /\ j.kind = "list" /\ jobs' = jobs \ {j} /\ j \in Listings
      /\ UNCHANGED <<disk, restore, overlapped>>
  BY DEF Listed, Listings
<1>2. ~overlapped => \A k \in jobs' : ~Foreground(k)
  BY <1>1 DEF PageInv, Alone
<1>3. CASE dir' = j.dir /\ Shows(Blank(DOMAIN disk[j.dir])) /\ home' = None /\ history' = "fresh"
  <2>1. st'.draft = None /\ st'.past = <<>> /\ st'.future = <<>>
    BY <1>3 DEF Shows, Blank
  <2> QED
    BY <1>1, <1>2, <1>3, <2>1, NobodyWrites, NoHistory
       DEF CleanInv, DirsKnown, FileInv, FilesShaped, PageFaithful
<1>4. CASE UNCHANGED <<dir, st, home, history>>
  BY <1>1, <1>2, <1>4, NobodyWrites, StateStays
     DEF CleanInv, DirsKnown, FileInv, FilesShaped, SameState, SameHistory
<1> QED
  BY <1>3, <1>4 DEF Listed

LEMMA SelectFileKeeps ==
  ASSUME PageInv, CleanInv, NEW name, SelectFile(name)
  PROVE  CleanInv'
<1>0. PICK new : new = [kind |-> "select", dir |-> dir, name |-> name, files |-> st.files,
                        live |-> TRUE, config |-> None, layout |-> None]
  OBVIOUS
<1>1. /\ jobs' = Superseded(jobs) \cup {new} /\ st' = [st EXCEPT !.busy = TRUE]
      /\ overlapped' = (overlapped \/ Listings # {}) /\ ~st.busy /\ dir # None
      /\ UNCHANGED <<disk, dir, restore, home, history>>
  BY <1>0 DEF SelectFile
<1>2. SameState(st', st) /\ SameHistory(st', st)
  BY <1>1 DEF SameState, SameHistory, PageInv, PageTypes, StateFields
<1>3. new.kind = "select" /\ new.dir = dir /\ new.config = None
  BY <1>0
<1>4. DirsKnown'
  <2>1. \A j \in Superseded(jobs) : j.kind = "list" => j \in jobs
    BY SupersededJobs DEF PageInv
  <2> QED
    BY <1>1, <1>3, <2>1 DEF DirsKnown, CleanInv
<1>5. ASSUME ~overlapped'
      PROVE  FileInv'
  <2>1. \A j \in jobs : j.kind # "save"
    BY <1>1, <1>5, NotBusy DEF Foreground
  <2>2. \A j \in Superseded(jobs) : ~Foreground(j)
    BY <2>1, NoneForeground DEF PageInv
  <2>3. (Selecting(new))'
    BY <1>1, <1>3 DEF Selecting, CleanInv, DirsKnown
  <2>4. JobsFaithful'
    BY <1>1, <1>3, <2>2, <2>3 DEF JobsFaithful, Foreground
  <2>5. FileInv
    BY <1>1, <1>5 DEF CleanInv
  <2> QED
    BY <1>1, <1>2, <2>4, <2>5, StateStays DEF FileInv, FilesShaped
<1> QED
  BY <1>4, <1>5 DEF CleanInv

\* The callback j is over, and the page shows what it showed.
LEMMA EndKeeps ==
  ASSUME CleanInv, NEW j, jobs' = jobs \ {j},
         UNCHANGED <<disk, dir, restore, overlapped, home, history>>,
         SameState(st', st), SameHistory(st', st)
  PROVE  CleanInv'
BY StateStays, JobsStay DEF CleanInv, DirsKnown, FileInv, FilesShaped

LEMMA UnreadKeeps ==
  ASSUME PageInv, CleanInv, NEW j \in jobs, Unread(j), UNCHANGED <<disk, dir, restore, overlapped>>
  PROVE  CleanInv'
<1>1. /\ jobs' = jobs \ {j} /\ UNCHANGED <<home, history>>
      /\ st' = IF j.live THEN [st EXCEPT !.busy = FALSE] ELSE st
  BY DEF Unread
<1>2. SameState(st', st) /\ SameHistory(st', st)
  BY <1>1 DEF SameState, SameHistory, PageInv, PageTypes, StateFields
<1> QED
  BY <1>1, <1>2, EndKeeps

LEMMA RefusedKeeps ==
  ASSUME PageInv, CleanInv, NEW j \in jobs, j.kind = "select", Refused(j),
         UNCHANGED <<disk, dir, restore, overlapped>>
  PROVE  CleanInv'
<1>1. jobs' = jobs \ {j} /\ UNCHANGED history
  BY DEF Refused
<1>2. CASE ~j.live
  BY <1>1, <1>2, EndKeeps DEF Refused, SameState, SameHistory
<1>3. CASE j.live
  <2>1. st' = [st EXCEPT !.busy = FALSE, !.selected = j.name, !.draft = None]
    BY <1>3 DEF Refused, Shows
  <2>2. st'.draft = None /\ SameHistory(st', st)
    BY <2>1 DEF SameHistory, PageInv, PageTypes, StateFields
  <2>3. ~overlapped => \A k \in jobs' : ~Foreground(k)
    BY <1>1, <1>3 DEF PageInv, Alone, Foreground
  <2>4. HistoryFaithful => HistoryFaithful'
    BY <2>2 DEF HistoryFaithful, SameHistory
  <2> QED
    BY <1>1, <2>2, <2>3, <2>4, NobodyWrites DEF CleanInv, DirsKnown, FileInv, FilesShaped, PageFaithful
<1> QED
  BY <1>2, <1>3

LEMMA ParsedKeeps ==
  ASSUME PageInv, CleanInv, NEW j \in jobs, Parsed(j)
  PROVE  CleanInv'
<1>1. j.kind = "select" /\ DOMAIN j = SelectFields /\ UNCHANGED <<disk, dir, restore, overlapped>>
  BY DEF Parsed, PageInv, PageTypes
<1>2. CASE Unread(j) \/ Refused(j)
  BY <1>1, <1>2, UnreadKeeps, RefusedKeeps
<1>0. PICK file, k : /\ file = disk[j.dir][j.name]
                     /\ k = [j EXCEPT !.config = Normalized(file.config), !.layout = file.layout]
  OBVIOUS
<1>3. CASE /\ j.name \in DOMAIN disk[j.dir] /\ UNCHANGED <<st, home, history>>
           /\ jobs' = (jobs \ {j}) \cup IF j.live THEN {k} ELSE {}
  <2>1. CASE ~j.live
    BY <1>1, <1>3, <2>1, EndKeeps DEF SameState, SameHistory
  <2>2. CASE j.live
    <3>1. /\ k.kind = "select" /\ k.live /\ k.dir = j.dir /\ k.name = j.name
          /\ k.config = Normalized(file.config) /\ k.layout = file.layout
      BY <1>0, <1>1, <2>2 DEF SelectFields
    <3>2. jobs' = (jobs \ {j}) \cup {k}
      BY <1>3, <2>2
    <3>3. DirsKnown'
      BY <1>1, <3>1, <3>2 DEF CleanInv, DirsKnown
    <3>4. ASSUME ~overlapped
          PROVE  FileInv'
      <4>1. FileInv /\ Selecting(j)
        BY <1>1, <2>2, <3>4 DEF CleanInv, FileInv, JobsFaithful
      <4>2. (Selecting(k))'
        BY <1>0, <1>1, <1>3, <3>1, <4>1 DEF Selecting
      <4>3. \A i \in jobs \ {j} : ~Foreground(i)
        BY <1>1, <2>2, <3>4 DEF PageInv, Alone, Foreground
      <4>4. JobsFaithful'
        BY <3>1, <3>2, <4>2, <4>3 DEF JobsFaithful, Foreground
      <4> QED
        BY <1>1, <1>3, <4>1, <4>4, StateStays DEF FileInv, FilesShaped, SameState, SameHistory
    <3> QED
      BY <1>1, <3>3, <3>4 DEF CleanInv
  <2> QED
    BY <2>1, <2>2
<1> QED
  BY <1>0, <1>2, <1>3 DEF Parsed

LEMMA LaidOutKeeps ==
  ASSUME PageInv, CleanInv, NEW j \in jobs, LaidOut(j)
  PROVE  CleanInv'
<1>1. j.kind = "select" /\ j.config # None /\ UNCHANGED <<disk, dir, restore, overlapped>>
  BY DEF LaidOut
<1>2. CASE Refused(j)
  BY <1>1, <1>2, RefusedKeeps
<1>3. CASE jobs' = jobs \ {j} /\ ~j.live /\ UNCHANGED <<st, home, history>>
  BY <1>1, <1>3, EndKeeps DEF SameState, SameHistory
<1>4. CASE /\ jobs' = jobs \ {j} /\ j.live /\ home' = <<j.dir, j.name>> /\ history' = "fresh"
           /\ Shows(Showing(j.files, j.name, j.config, Resolve(j.config, j.layout)))
  <2>1. /\ st'.draft = j.config /\ st'.positions = Resolve(j.config, j.layout)
        /\ st'.past = <<>> /\ st'.future = <<>>
    BY <1>4 DEF Shows, Showing, Blank
  <2>2. DirsKnown'
    BY <1>1, <1>4 DEF CleanInv, DirsKnown
  <2>3. ASSUME ~overlapped
        PROVE  FileInv'
    <3> DEFINE file == disk[j.dir][j.name]
    <3>1. /\ FileInv /\ j.dir \in DOMAIN disk /\ j.name \in DOMAIN disk[j.dir]
          /\ j.config = Normalized(file.config) /\ j.layout = file.layout
      BY <1>1, <1>4, <2>3 DEF CleanInv, FileInv, JobsFaithful, Selecting
    <3>2. HasNodes(j.config)
      BY <3>1, NormalizedNodes DEF FileInv, FilesShaped, IsFile
    <3>3. Stored' /\ OnDisk' = file
      BY <1>1, <1>4, <3>1 DEF Stored, OnDisk
    <3>4. Settled(j.config, Resolve(j.config, j.layout))
      BY ResolveSettles
    <3>5. Known(st)' /\ Faithful(st)'
      BY <2>1, <3>1, <3>2, <3>3, <3>4 DEF Known, Faithful
    <3>6. \A k \in jobs' : ~Foreground(k)
      BY <1>1, <1>4, <2>3 DEF PageInv, Alone, Foreground
    <3> QED
      BY <1>1, <2>1, <3>1, <3>5, <3>6, NobodyWrites, NoHistory DEF FileInv, FilesShaped, PageFaithful
  <2> QED
    BY <1>1, <2>2, <2>3 DEF CleanInv
<1> QED
  BY <1>2, <1>3, <1>4 DEF LaidOut

LEMMA CreateNewFileKeeps ==
  ASSUME PageInv, CleanInv, CreateNewFile
  PROVE  CleanInv'
<1> DEFINE positions == [f \in {MainFlow} |-> [key \in {<<"node", "main">>} |-> 0]]
           next == [Showing(st.files \cup {NewName}, NewName, MinimalConfigOf, positions)
                    EXCEPT !.dirtyBusiness = TRUE, !.dirtyLayout = TRUE]
<1>1. /\ jobs' = Superseded(jobs) /\ st' = next /\ ~st.busy /\ history' = "fresh"
      /\ overlapped' = (overlapped \/ Listings # {}) /\ UNCHANGED <<disk, dir, restore>>
  BY DEF CreateNewFile, Shows
<1>2. /\ st'.draft = MinimalConfigOf /\ st'.positions = positions /\ st'.dirtyBusiness
      /\ st'.past = <<>> /\ st'.future = <<>>
  BY <1>1 DEF Showing, Blank
<1> HIDE DEF next
<1>3. HasNodes(MinimalConfigOf) /\ Settled(MinimalConfigOf, positions)
  <2>1. /\ HasNodes(MinimalConfigOf) /\ DOMAIN MinimalConfigOf.flows = {MainFlow}
        /\ DOMAIN MinimalConfigOf.flows[MainFlow].nodes = {"main"}
    BY DEF MinimalConfigOf, MinimalFlowDefOf, HasNodes
  <2>2. /\ DOMAIN positions = {MainFlow} /\ positions = [f \in DOMAIN positions |-> positions[f]]
        /\ DOMAIN positions[MainFlow] = {<<"node", "main">>}
        /\ positions[MainFlow] = [k \in DOMAIN positions[MainFlow] |-> positions[MainFlow][k]]
        /\ positions[MainFlow][<<"node", "main">>] = 0
    OBVIOUS
  <2> HIDE DEF positions
  <2> QED
    BY <2>1, <2>2 DEF Settled, OwnPlace
<1> HIDE DEF positions
<1>4. DirsKnown'
  <2>1. \A j \in Superseded(jobs) : j.kind = "list" => j \in jobs
    BY SupersededJobs DEF PageInv
  <2> QED
    BY <1>1, <2>1 DEF DirsKnown, CleanInv
<1>5. ASSUME ~overlapped'
      PROVE  FileInv'
  <2>1. \A j \in jobs : j.kind # "save"
    BY <1>1, <1>5, NotBusy DEF Foreground
  <2>2. \A j \in jobs' : ~Foreground(j)
    BY <1>1, <2>1, NoneForeground DEF PageInv
  <2>3. Known(st)' /\ Faithful(st)'
    BY <1>2, <1>3 DEF Known, Faithful, IsDirty
  <2>4. FileInv
    BY <1>1, <1>5 DEF CleanInv
  <2> QED
    BY <1>1, <1>2, <2>2, <2>3, <2>4, NobodyWrites, NoHistory DEF FileInv, FilesShaped, PageFaithful
<1> QED
  BY <1>4, <1>5 DEF CleanInv

\* An edit of the draft that is shown: the entry it leaves in the history.
LEMMA SnapshotSame == \A s : SameState(SnapshotOf(s), s)
BY DEF SnapshotOf, SameState

LEMMA SameFaithful ==
  ASSUME NEW s, SameState(s, st)
  PROVE  (Known(st) => Known(s)) /\ (Faithful(st) => Faithful(s))
BY DEF Known, Faithful, IsDirty, SameState

\* The entries after an edit, an undo and a redo are those before, and the
\* state that is left.
LEMMA LeftBehind ==
  ASSUME NEW s, SameState(s, st), NEW entries, UNCHANGED <<disk, home>>,
         st.draft # None, PageFaithful,
         history' = "fresh" => history = "fresh",
         \A e \in entries : Known(e) /\ (history = "fresh" => Faithful(e)),
         st'.past \in Seq(entries \cup {s}), st'.future \in Seq(entries \cup {s})
  PROVE  HistoryFaithful'
<1>1. \A e : (Known(e))' = Known(e) /\ (Faithful(e))' = Faithful(e)
  BY DEF Known, Faithful, Stored, OnDisk
<1>2. \A e \in entries \cup {s} : (Known(e))' /\ (history' = "fresh" => (Faithful(e))')
  BY <1>1, SameFaithful DEF PageFaithful
<1> QED
  BY <1>2 DEF HistoryFaithful

LEMMA PastGrows ==
  ASSUME NEW t, DOMAIN t = StateFields, NEW entries, t.past \in Seq(entries)
  PROVE  /\ WithPast(t).past \in Seq(entries \cup {SnapshotOf(t)}) /\ WithPast(t).future = <<>>
         /\ SameState(WithPast(t), t)
<1>1. PICK s : s = SnapshotOf(t)
  OBVIOUS
<1>2. PICK past : past = Append(t.past, s)
  OBVIOUS
<1>3. past \in Seq(entries \cup {s}) /\ Len(past) \in Nat
  <2>1. t.past \in Seq(entries \cup {s})
    OBVIOUS
  <2> QED
    BY <1>2, <2>1
<1>4. PICK m : m = IF Len(past) > PanelHistoryLimit THEN Len(past) - PanelHistoryLimit + 1 ELSE 1
  OBVIOUS
<1>5. m \in 1..Len(past) + 1
  BY <1>3, <1>4, PanelHistoryLimitAssumption
<1>6. SubSeq(past, m, Len(past)) \in Seq(entries \cup {s})
  BY <1>3, <1>5, SubSeqProperties
<1>7. WithPast(t) = [t EXCEPT !.future = <<>>, !.past = SubSeq(past, m, Len(past))]
  BY <1>1, <1>2, <1>4 DEF WithPast
<1>8. PICK cut : cut = SubSeq(past, m, Len(past))
  OBVIOUS
<1>9. WithPast(t) = [t EXCEPT !.future = <<>>, !.past = cut]
  BY <1>7, <1>8
<1> QED
  BY <1>1, <1>6, <1>8, <1>9 DEF SameState, StateFields

\* An edit in place.
LEMMA EditKeeps ==
  ASSUME PageInv, CleanInv, ~st.busy, st.draft # None,
         UNCHANGED <<disk, dir, jobs, restore, home, history, overlapped>>,
         Known(st) => Known(st)',
         history # "crossed" /\ Known(st) /\ Faithful(st) => Faithful(st)',
         NEW s, SameState(s, st),
         \/ SameHistory(st', st)
         \/ \A entries : st.past \in Seq(entries) =>
              st'.past \in Seq(entries \cup {s}) /\ st'.future = <<>>
  PROVE  CleanInv'
<1>1. DirsKnown'
  BY DEF CleanInv, DirsKnown
<1>2. ASSUME ~overlapped
      PROVE  FileInv'
  <2>1. FileInv /\ \A j \in jobs' : ~Foreground(j)
    BY <1>2, NotBusy DEF CleanInv
  <2>2. PageFaithful'
    BY <2>1 DEF FileInv, PageFaithful
  <2>3. PICK entries : /\ st.past \in Seq(entries) /\ st.future \in Seq(entries)
                       /\ \A e \in entries : Known(e) /\ (history = "fresh" => Faithful(e))
    BY <2>1 DEF FileInv, HistoryFaithful
  <2>4. st'.past \in Seq(entries \cup {s}) /\ st'.future \in Seq(entries \cup {s})
    <3>1. CASE SameHistory(st', st)
      BY <2>3, <3>1 DEF SameHistory
    <3>2. CASE ~SameHistory(st', st)
      <4>1. st'.past \in Seq(entries \cup {s}) /\ st'.future = <<>>
        BY <2>3, <3>2
      <4>2. <<>> \in Seq(entries \cup {s})
        OBVIOUS
      <4> QED
        BY <4>1, <4>2
    <3> QED
      BY <3>1, <3>2
  <2>5. HistoryFaithful'
    BY <2>1, <2>3, <2>4, LeftBehind DEF FileInv
  <2> QED
    BY <2>1, <2>2, <2>5, NobodyWrites DEF FileInv, FilesShaped
<1> QED
  BY <1>1, <1>2 DEF CleanInv

LEMMA PersonaEdits ==
  ASSUME PageInv, CleanInv, ApplyPersona
  PROVE  CleanInv'
<1>1. ~st.busy /\ UNCHANGED <<disk, dir, jobs, restore, home, history, overlapped>>
  BY DEF ApplyPersona
<1>2. PICK clear \in BOOLEAN : RunEdit(ApplyPersonaEdit([st EXCEPT !.personaInput = "w"], clear))
  BY DEF ApplyPersona
<1>3. PICK t : t = [st EXCEPT !.personaInput = "w"]
  OBVIOUS
<1>4. DOMAIN t = StateFields /\ SameState(t, st) /\ SameHistory(t, st)
  BY <1>3 DEF SameState, SameHistory, PageInv, PageTypes, StateFields
<1>5. st' = ApplyPersonaEdit(t, clear).state /\ ApplyPersonaEdit(t, clear).ok
  BY <1>2, <1>3 DEF RunEdit, Shows
<1>6. t.draft # None
  BY <1>5 DEF ApplyPersonaEdit, Rejected
<1>7. \/ st' = t
      \/ \E p, i : st' = [[WithPast(t) EXCEPT !.draft = [t.draft EXCEPT !.persona = p], !.dirtyBusiness = TRUE]
                          EXCEPT !.personaInput = i]
  BY <1>5 DEF ApplyPersonaEdit, Rejected, NoOp, Applied
<1>8. CASE st' = t
  <2>1. (Known(st) => Known(st)') /\ (Faithful(st) => Faithful(st)')
    BY <1>1, <1>4, <1>8 DEF Known, Faithful, Stored, OnDisk, IsDirty, SameState
  <2> QED
    BY <1>1, <1>4, <1>6, <1>8, <2>1, EditKeeps DEF SameState
<1>9. CASE st' # t
  <2>1. PICK p, i : st' = [[WithPast(t) EXCEPT !.draft = [t.draft EXCEPT !.persona = p], !.dirtyBusiness = TRUE]
                           EXCEPT !.personaInput = i]
    BY <1>7, <1>9
  <2>2. PICK w : w = WithPast(t)
    OBVIOUS
  <2>3. PICK d : d = [st.draft EXCEPT !.persona = p]
    OBVIOUS
  <2>4. DOMAIN w = StateFields
    BY <1>4, <2>2, EditsKeep
  <2>5. st' = [[w EXCEPT !.draft = d, !.dirtyBusiness = TRUE] EXCEPT !.personaInput = i]
    BY <1>4, <2>1, <2>2, <2>3 DEF SameState
  <2>6. /\ st'.draft = d /\ st'.positions = w.positions /\ st'.dirtyBusiness
        /\ st'.past = w.past /\ st'.future = w.future
    BY <2>4, <2>5 DEF StateFields
  <2>7. w.positions = st.positions
    <3>1. w.positions = t.positions
      BY <1>4, <2>2 DEF WithPast, StateFields
    <3> QED
      BY <1>4, <3>1 DEF SameState
  <2>8. HasNodes(st.draft) => HasNodes(d) /\ SameNodes(st.draft, d)
    BY <2>3 DEF HasNodes, SameNodes
  <2>9. Known(st) => Known(st)'
    BY <2>6, <2>8 DEF Known
  <2>10. Known(st) /\ Faithful(st) => Faithful(st)'
    BY <2>6, <2>7, <2>8, SettledSameNodes DEF Known, Faithful, IsDirty
  <2>11. \A entries : st.past \in Seq(entries) =>
           st'.past \in Seq(entries \cup {SnapshotOf(t)}) /\ st'.future = <<>>
    BY <1>4, <2>2, <2>6, PastGrows DEF SameHistory
  <2>12. PICK s : s = SnapshotOf(t)
    OBVIOUS
  <2>13. SameState(s, st)
    BY <1>4, <2>12, SnapshotSame DEF SameState
  <2>14. \A entries : st.past \in Seq(entries) =>
           st'.past \in Seq(entries \cup {s}) /\ st'.future = <<>>
    BY <2>11, <2>12
  <2>15. st.draft # None
    BY <1>4, <1>6 DEF SameState
  <2> QED
    BY <1>1, <2>9, <2>10, <2>13, <2>14, <2>15, EditKeeps
<1> QED
  BY <1>8, <1>9

LEMMA MoveEdits ==
  ASSUME PageInv, CleanInv, MoveNode
  PROVE  CleanInv'
<1>1. ~st.busy /\ UNCHANGED <<disk, dir, jobs, restore, home, history, overlapped>>
  BY DEF MoveNode
<1>2. PICK key : RunEdit(MoveNodeEdit(st, MainFlow, key, Drag))
  BY DEF MoveNode
<1>3. st' = MoveNodeEdit(st, MainFlow, key, Drag).state /\ MoveNodeEdit(st, MainFlow, key, Drag).ok
  BY <1>2 DEF RunEdit, Shows
<1>4. PICK table : table = IF MainFlow \in DOMAIN st.positions THEN st.positions[MainFlow] ELSE <<>>
  OBVIOUS
<1>5. PICK moved : moved = With(st.positions, MainFlow, With(table, key, Drag))
  OBVIOUS
<1>6. st.draft # None /\ Drag \in Nat
  BY <1>3 DEF MoveNodeEdit, Rejected
<1>7. st' = st \/ st' = [WithPast(st) EXCEPT !.positions = With(@, MainFlow, With(table, key, Drag)), !.dirtyLayout = TRUE]
  BY <1>3, <1>4 DEF MoveNodeEdit, Rejected, NoOp
<1>8. CASE st' = st
  <2>1. (Known(st) => Known(st)') /\ (Faithful(st) => Faithful(st)')
    BY <1>1, <1>8 DEF Known, Faithful, Stored, OnDisk, IsDirty
  <2> QED
    BY <1>1, <1>6, <1>8, <2>1, EditKeeps DEF SameState, SameHistory
<1>9. CASE st' # st
  <2>1. PICK w : w = WithPast(st)
    OBVIOUS
  <2>2. DOMAIN w = StateFields /\ DOMAIN st = StateFields
    BY <2>1, EditsKeep DEF PageInv, PageTypes
  <2>3. SameState(w, st)
    BY <2>1, <2>2 DEF WithPast, SameState, StateFields
  <2>4. st' = [w EXCEPT !.positions = moved, !.dirtyLayout = TRUE]
    BY <1>5, <1>7, <1>9, <2>1, <2>2, <2>3 DEF SameState
  <2>5. /\ st'.draft = st.draft /\ st'.positions = moved /\ st'.dirtyBusiness = st.dirtyBusiness
        /\ st'.dirtyLayout /\ st'.past = w.past /\ st'.future = w.future
    BY <2>2, <2>3, <2>4 DEF SameState, StateFields
  <2>6. Known(st) => Known(st)'
    BY <1>1, <2>5 DEF Known, Stored
  <2>7. Faithful(st) => Faithful(st)'
    <3>1. Settled(st.draft, st.positions) => Settled(st.draft, moved)
      <4> SUFFICES ASSUME Settled(st.draft, st.positions) PROVE Settled(st.draft, moved)
        OBVIOUS
      <4>1. table = st.positions[MainFlow]
        BY <1>4 DEF Settled
      <4>2. moved = With(st.positions, MainFlow, With(st.positions[MainFlow], key, Drag))
        BY <1>5, <4>1
      <4> QED
        BY <1>6, <4>2, MovedSettled
    <3> QED
      BY <1>1, <2>5, <3>1 DEF Faithful, IsDirty, OnDisk
  <2>8. PICK s : s = SnapshotOf(st)
    OBVIOUS
  <2>9. \A entries : st.past \in Seq(entries) =>
          st'.past \in Seq(entries \cup {s}) /\ st'.future = <<>>
    BY <2>1, <2>2, <2>5, <2>8, PastGrows
  <2> QED
    BY <1>1, <1>6, <2>6, <2>7, <2>8, <2>9, SnapshotSame, EditKeeps
<1> QED
  BY <1>8, <1>9

\* A step in the history: an entry comes back, and what was there is an entry.
LEMMA HistoryEdits ==
  ASSUME PageInv, CleanInv, NEW edit \in {UndoEdit(st), RedoEdit(st)}, RestoreHistory(edit)
  PROVE  CleanInv'
<1>1. /\ ~st.busy /\ UNCHANGED <<disk, dir, jobs, restore, home, overlapped>>
      /\ edit.ok /\ st' = edit.state
      /\ history' = IF history = "fresh" THEN "fresh" ELSE "crossed"
  BY DEF RestoreHistory, Shows
<1>2. st.draft # None /\ DOMAIN st = StateFields
  BY <1>1, HistoryKeeps DEF PageInv, PageTypes
<1>3. DirsKnown'
  BY <1>1 DEF CleanInv, DirsKnown
<1>4. ASSUME ~overlapped
      PROVE  FileInv'
  <2>1. FileInv /\ \A j \in jobs' : ~Foreground(j)
    BY <1>1, <1>4, NotBusy DEF CleanInv
  <2>2. PICK entries : /\ st.past \in Seq(entries) /\ st.future \in Seq(entries)
                       /\ \A e \in entries : Known(e) /\ (history = "fresh" => Faithful(e))
    BY <1>2, <2>1 DEF FileInv, HistoryFaithful
  <2>3. PICK s : s = SnapshotOf(st)
    OBVIOUS
  <2>4. st.past \in Seq(entries \cup {s}) /\ st.future \in Seq(entries \cup {s})
    BY <2>2
  <2>5. \E e \in entries, p, f \in Seq(entries \cup {s}) : st' = [Back(st, e) EXCEPT !.past = p, !.future = f]
    <3>1. CASE edit = UndoEdit(st)
      <4>1. Len(st.past) # 0
        BY <1>1, <3>1 DEF UndoEdit, Rejected
      <4>2. PICK e, p, f : /\ e = st.past[Len(st.past)] /\ p = SubSeq(st.past, 1, Len(st.past) - 1)
                           /\ f = Append(st.future, s)
        OBVIOUS
      <4>3. e \in entries /\ p \in Seq(entries \cup {s}) /\ f \in Seq(entries \cup {s})
        BY <2>2, <2>4, <4>1, <4>2, SubSeqProperties
      <4>4. Back(st, e).past = st.past /\ Back(st, e).future = st.future
        BY <1>2 DEF Back, StateFields
      <4>5. st' = [Back(st, e) EXCEPT !.past = SubSeq(@, 1, Len(@) - 1), !.future = Append(@, s)]
        BY <1>1, <1>2, <2>3, <3>1, <4>1, <4>2 DEF UndoEdit, NoOp
      <4>6. st' = [Back(st, e) EXCEPT !.past = p, !.future = f]
        BY <1>2, <4>2, <4>4, <4>5
      <4> QED
        BY <4>3, <4>6
    <3>2. CASE edit = RedoEdit(st)
      <4>1. Len(st.future) # 0
        BY <1>1, <3>2 DEF RedoEdit, Rejected
      <4>2. PICK e, p, f : /\ e = st.future[Len(st.future)] /\ f = SubSeq(st.future, 1, Len(st.future) - 1)
                           /\ p = Append(st.past, s)
        OBVIOUS
      <4>3. e \in entries /\ p \in Seq(entries \cup {s}) /\ f \in Seq(entries \cup {s})
        BY <2>2, <2>4, <4>1, <4>2, SubSeqProperties
      <4>4. Back(st, e).past = st.past /\ Back(st, e).future = st.future
        BY <1>2 DEF Back, StateFields
      <4>5. st' = [Back(st, e) EXCEPT !.future = SubSeq(@, 1, Len(@) - 1), !.past = Append(@, s)]
        BY <1>1, <1>2, <2>3, <3>2, <4>1, <4>2 DEF RedoEdit, NoOp
      <4>6. st' = [Back(st, e) EXCEPT !.past = p, !.future = f]
        BY <1>2, <4>2, <4>4, <4>5, EditsKeep DEF StateFields
      <4> QED
        BY <4>3, <4>6
    <3> QED
      BY <3>1, <3>2
  <2>6. PICK e \in entries, p, f \in Seq(entries \cup {s}) : st' = [Back(st, e) EXCEPT !.past = p, !.future = f]
    BY <2>5
  <2>7. PICK b : b = Back(st, e)
    OBVIOUS
  <2>8. DOMAIN b = StateFields /\ SameState(b, e)
    BY <1>2, <2>7 DEF Back, SameState, StateFields
  <2>9. st' = [b EXCEPT !.past = p, !.future = f]
    BY <2>6, <2>7
  <2>10. SameState(st', e) /\ st'.past = p /\ st'.future = f
    BY <2>8, <2>9 DEF SameState, StateFields
  <2>11. PageFaithful'
    <3>1. Known(e) /\ (history = "fresh" => Faithful(e))
      BY <2>2, <2>6
    <3>2. (Known(e) => Known(st)') /\ (Faithful(e) => Faithful(st)')
      BY <1>1, <2>10 DEF Known, Faithful, IsDirty, Stored, OnDisk, SameState
    <3> QED
      BY <1>1, <3>1, <3>2 DEF PageFaithful
  <2>12. SameState(s, st)
    BY <2>3, SnapshotSame
  <2>13. HistoryFaithful'
    BY <1>1, <1>2, <2>1, <2>2, <2>6, <2>10, <2>12, LeftBehind DEF FileInv
  <2> QED
    BY <1>1, <2>1, <2>11, <2>13, NobodyWrites DEF FileInv, FilesShaped
<1> QED
  BY <1>1, <1>3, <1>4 DEF CleanInv

LEMMA PreviewedKeeps ==
  ASSUME PageInv, CleanInv, NEW p \in previews, Previewed(p)
  PROVE  CleanInv'
<1>1. UNCHANGED <<disk, dir, jobs, restore, home, history, overlapped>>
  BY DEF Previewed
<1>2. SameState(st', st) /\ SameHistory(st', st)
  BY DEF Previewed, SameState, SameHistory, PageInv, PageTypes, StateFields
<1> QED
  BY <1>1, <1>2, StateStays, JobsStay DEF CleanInv, DirsKnown, FileInv, FilesShaped

LEMMA SaveKeeps ==
  ASSUME PageInv, CleanInv, Save
  PROVE  CleanInv'
<1>0. PICK new : new = [kind |-> "save", dir |-> dir, name |-> st.selected, draft |-> st.draft,
                        positions |-> st.positions, writeYaml |-> st.dirtyBusiness, at |-> "validate"]
  OBVIOUS
<1>1. /\ jobs' = jobs \cup {new} /\ st' = [st EXCEPT !.busy = TRUE]
      /\ overlapped' = (overlapped \/ Listings # {}) /\ UNCHANGED <<disk, dir, restore, home, history>>
      /\ ~st.busy /\ dir # None /\ st.draft # None /\ st.selected # None /\ IsDirty(st)
  BY <1>0 DEF Save
<1>2. SameState(st', st) /\ SameHistory(st', st)
  BY <1>1 DEF SameState, SameHistory, PageInv, PageTypes, StateFields
<1>3. /\ new.kind = "save" /\ new.dir = dir /\ new.name = st.selected /\ new.draft = st.draft
      /\ new.positions = st.positions /\ new.writeYaml = st.dirtyBusiness /\ new.at = "validate"
  BY <1>0
<1>4. DirsKnown'
  BY <1>1, <1>3 DEF CleanInv, DirsKnown
<1>5. ASSUME ~overlapped'
      PROVE  FileInv'
  <2>1. FileInv /\ \A j \in jobs : ~Foreground(j)
    BY <1>1, <1>5, NotBusy DEF CleanInv
  <2>2. home = <<dir, st.selected>> /\ dir \in DOMAIN disk
    BY <1>1, <1>5 DEF PageInv, DraftIsOfItsFile, Shown, CleanInv, DirsKnown
  <2>3. IsDirty(st')
    BY <1>1, <1>2 DEF IsDirty, SameState
  <2>4. (Saving(new))'
    BY <1>1, <1>2, <1>3, <2>2, <2>3 DEF Saving, SameState
  <2>5. JobsFaithful'
    BY <1>1, <1>3, <2>1, <2>4 DEF JobsFaithful, Foreground
  <2> QED
    BY <1>1, <1>2, <2>1, <2>5, StateStays DEF FileInv, FilesShaped
<1> QED
  BY <1>4, <1>5 DEF CleanInv

\* Only the save writes, and what it writes is in the file from then on.
LEMMA WrittenFile ==
  ASSUME NEW j, NEW file, FilesShaped, IsFile(file), j.dir \in DOMAIN disk,
         home = <<j.dir, j.name>>, Write(j, file), UNCHANGED home
  PROVE  FilesShaped' /\ Stored' /\ OnDisk' = file
<1>1. DOMAIN disk' = DOMAIN disk /\ disk' = [disk EXCEPT ![j.dir] = With(disk[j.dir], j.name, file)]
  BY DEF Write
<1>2. /\ disk'[j.dir] = With(disk[j.dir], j.name, file)
      /\ \A d \in DOMAIN disk : d # j.dir => disk'[d] = disk[d]
  BY <1>1
<1>3. /\ DOMAIN disk'[j.dir] = DOMAIN disk[j.dir] \cup {j.name} /\ disk'[j.dir][j.name] = file
      /\ \A name \in DOMAIN disk[j.dir] : name # j.name => disk'[j.dir][name] = disk[j.dir][name]
  BY <1>2 DEF With
<1> QED
  BY <1>1, <1>2, <1>3 DEF FilesShaped, Stored, OnDisk

\* The history over a write: it was empty, or has been overtaken.
LEMMA HistoryOverWrite ==
  ASSUME NEW j, NEW file, HistoryFaithful, Write(j, file), SameHistory(st', st), Stored', st.draft # None
  PROVE  HistoryFaithful'
<1>1. PICK entries : /\ st.past \in Seq(entries) /\ st.future \in Seq(entries)
                     /\ \A s \in entries : Known(s)
  BY DEF HistoryFaithful
<1>2. CASE st.past = <<>> /\ st.future = <<>>
  BY <1>2, NoHistory DEF SameHistory
<1>3. CASE ~(st.past = <<>> /\ st.future = <<>>)
  <2>1. history' # "fresh"
    BY <1>3 DEF Write
  <2>2. \A s : Known(s) => (Known(s))'
    BY DEF Known
  <2>3. st'.past \in Seq(entries) /\ st'.future \in Seq(entries) /\ \A s \in entries : (Known(s))'
    BY <1>1, <2>2 DEF SameHistory
  <2> QED
    BY <2>1, <2>3 DEF HistoryFaithful
<1> QED
  BY <1>2, <1>3

\* A save that is over, with what it saved in the file.
LEMMA SavedState ==
  ASSUME PageInv, NEW j, Saved(j)
  PROVE  /\ jobs' = jobs \ {j} /\ st'.draft = j.draft /\ st'.positions = st.positions
         /\ ~st'.dirtyBusiness /\ ~st'.dirtyLayout /\ SameHistory(st', st)
<1>1. /\ jobs' = jobs \ {j}
      /\ st' = [st EXCEPT !.busy = FALSE, !.draft = j.draft, !.dirtyBusiness = FALSE, !.dirtyLayout = FALSE]
  BY DEF Saved, Shows
<1> QED
  BY <1>1 DEF SameHistory, PageInv, PageTypes, StateFields

\* What a save that goes on may rely on.
Writing(j) ==
  /\ PageInv /\ FileInv /\ j \in jobs /\ j.kind = "save" /\ DOMAIN j = SaveFields
  /\ Saving(j) /\ st.draft # None /\ \A k \in jobs \ {j} : ~Foreground(k)
  /\ Known(st) /\ (history # "crossed" => Faithful(st))
  /\ HasNodes(Normalized(st.draft)) /\ SameNodes(st.draft, Normalized(st.draft))

\* It goes on as k.
LEMMA OnlyJob ==
  ASSUME NEW j, NEW k, \A i \in jobs \ {j} : ~Foreground(i), jobs' = (jobs \ {j}) \cup {k},
         k.kind = "save", (Saving(k))'
  PROVE  JobsFaithful'
BY DEF JobsFaithful, Foreground

LEMMA ValidatedKeeps ==
  ASSUME NEW j, Writing(j), Validated(j), UNCHANGED home
  PROVE  FileInv'
<1>1. PICK k : k = [j EXCEPT !.draft = Normalized(@), !.at = IF j.writeYaml THEN "yaml" ELSE "layout"]
  OBVIOUS
<1>2. jobs' = (jobs \ {j}) \cup {k} /\ j.at = "validate" /\ UNCHANGED <<disk, st, history>>
  BY <1>1 DEF Validated
<1>3. /\ k.kind = "save" /\ k.dir = j.dir /\ k.name = j.name /\ k.positions = j.positions
      /\ k.writeYaml = j.writeYaml /\ k.draft = Normalized(j.draft)
      /\ k.at = IF j.writeYaml THEN "yaml" ELSE "layout"
  BY <1>1 DEF Writing, SaveFields
<1>4. k.draft = Normalized(st.draft)
  BY <1>2, <1>3 DEF Writing, Saving
<1>5. ASSUME k.at = "layout"
      PROVE  Stored /\ (history # "crossed" => Normalized(OnDisk.config) = k.draft)
  <2>1. ~st.dirtyBusiness
    BY <1>3, <1>5 DEF Writing, Saving
  <2> QED
    BY <1>4, <2>1, NormalizedTwice DEF Writing, Known, Faithful
<1>6. Saving(k)
  BY <1>3, <1>4, <1>5 DEF Writing, Saving
<1>7. (Saving(k))'
  BY <1>2, <1>6 DEF Saving, Stored, OnDisk
<1> QED
  BY <1>2, <1>3, <1>7, OnlyJob, StateStays DEF Writing, FileInv, FilesShaped, SameState, SameHistory

LEMMA YamlKeeps ==
  ASSUME NEW j, Writing(j), YamlWritten(j), UNCHANGED home
  PROVE  FileInv'
<1>1. PICK k : k = [j EXCEPT !.at = "layout"]
  OBVIOUS
<1>2. PICK file : file = [File(j) EXCEPT !.config = j.draft]
  OBVIOUS
<1>3. jobs' = (jobs \ {j}) \cup {k} /\ j.at = "yaml" /\ st' = st /\ Write(j, file)
  BY <1>1, <1>2 DEF YamlWritten, SaveGoesOn
<1>4. /\ k.kind = "save" /\ k.dir = j.dir /\ k.name = j.name /\ k.positions = j.positions
      /\ k.writeYaml = j.writeYaml /\ k.draft = j.draft /\ k.at = "layout"
  BY <1>1 DEF Writing, SaveFields
<1>5. /\ j.draft = Normalized(st.draft) /\ st.dirtyBusiness /\ j.dir \in DOMAIN disk
      /\ home = <<j.dir, j.name>> /\ j.positions = st.positions /\ j.writeYaml = st.dirtyBusiness
  BY <1>3 DEF Writing, Saving
<1>6. DOMAIN File(j) = {"config", "layout"}
  BY <1>5 DEF File, Writing, FileInv, FilesShaped, IsFile
<1>7. file.config = j.draft /\ IsFile(file)
  BY <1>2, <1>5, <1>6 DEF Writing, IsFile
<1>8. FilesShaped' /\ Stored' /\ OnDisk' = file
  BY <1>3, <1>5, <1>7, WrittenFile DEF Writing, FileInv
<1>9. history' # "crossed" => history # "crossed"
  BY <1>3 DEF Write
<1>10. PageFaithful'
  BY <1>3, <1>5, <1>8, <1>9 DEF Writing, PageFaithful, Known, Faithful, IsDirty
<1>11. HistoryFaithful'
  BY <1>3, <1>8, HistoryOverWrite DEF Writing, FileInv, SameHistory
<1>12. j.dir \in DOMAIN disk'
  BY <1>3, <1>5 DEF Write
<1>13. Normalized(file.config) = k.draft
  BY <1>4, <1>5, <1>7, NormalizedTwice
<1>14. (Saving(k))'
  BY <1>3, <1>4, <1>5, <1>8, <1>12, <1>13 DEF Saving, IsDirty
<1> QED
  BY <1>3, <1>4, <1>8, <1>10, <1>11, <1>14, OnlyJob DEF Writing, FileInv

LEMMA LayoutKeeps ==
  ASSUME NoTables, NEW j, Writing(j), LayoutWritten(j), UNCHANGED home
  PROVE  FileInv'
<1>1. PICK k : k = [j EXCEPT !.at = "reread"]
  OBVIOUS
<1>2. PICK layout : layout = Resolve(j.draft, j.positions)
  OBVIOUS
<1>3. PICK file : file = [File(j) EXCEPT !.layout = layout]
  OBVIOUS
<1>4. /\ j.at = "layout" /\ Write(j, file)
      /\ j.writeYaml => jobs' = (jobs \ {j}) \cup {k} /\ st' = st
      /\ ~j.writeYaml => Saved(j)
  BY <1>1, <1>2, <1>3 DEF LayoutWritten, SaveGoesOn
<1>5. /\ k.kind = "save" /\ k.dir = j.dir /\ k.name = j.name /\ k.positions = j.positions
      /\ k.writeYaml = j.writeYaml /\ k.draft = j.draft /\ k.at = "reread"
  BY <1>1 DEF Writing, SaveFields
<1>6. /\ j.draft = Normalized(st.draft) /\ j.dir \in DOMAIN disk /\ Stored
      /\ home = <<j.dir, j.name>> /\ j.positions = st.positions /\ j.writeYaml = st.dirtyBusiness
      /\ IsDirty(st) /\ (history # "crossed" => Normalized(OnDisk.config) = j.draft)
  BY <1>4 DEF Writing, Saving
<1>7. File(j) = OnDisk
  BY <1>6 DEF File, Stored, OnDisk
<1>8. IsFile(OnDisk)
  BY <1>6 DEF Writing, FileInv, FilesShaped, Stored, OnDisk
<1>9. file.config = OnDisk.config /\ file.layout = layout /\ IsFile(file)
  BY <1>3, <1>7, <1>8 DEF IsFile
<1>10. FilesShaped' /\ Stored' /\ OnDisk' = file
  BY <1>4, <1>6, <1>9, WrittenFile DEF Writing, FileInv
<1>11. history' # "crossed" => history # "crossed"
  BY <1>4 DEF Write
<1>12. j.dir \in DOMAIN disk'
  BY <1>4, <1>6 DEF Write
<1>13. history # "crossed" =>
         /\ Settled(j.draft, st.positions) /\ layout = st.positions
         /\ Resolve(j.draft, layout) = st.positions
         /\ Normalized(file.config) = j.draft
  <2> SUFFICES ASSUME history # "crossed"
               PROVE  /\ Settled(j.draft, st.positions) /\ layout = st.positions
                      /\ Resolve(j.draft, layout) = st.positions
                      /\ Normalized(file.config) = j.draft
    OBVIOUS
  <2>1. Settled(j.draft, st.positions)
    BY <1>6, SettledSameNodes DEF Writing, Faithful
  <2>2. Resolve(j.draft, st.positions) = st.positions
    BY <2>1, SettledResolves
  <2> QED
    BY <1>2, <1>6, <1>9, <2>1, <2>2
<1>14. CASE j.writeYaml
  <2>1. PageFaithful'
    BY <1>4, <1>6, <1>10, <1>11, <1>14 DEF Writing, PageFaithful, Known, Faithful, IsDirty
  <2>2. HistoryFaithful'
    BY <1>4, <1>10, <1>14, HistoryOverWrite DEF Writing, FileInv, SameHistory
  <2>3. (Saving(k))'
    BY <1>4, <1>5, <1>6, <1>9, <1>10, <1>11, <1>12, <1>13, <1>14 DEF Saving, IsDirty
  <2> QED
    BY <1>4, <1>5, <1>10, <1>14, <2>1, <2>2, <2>3, OnlyJob DEF Writing, FileInv
<1>15. CASE ~j.writeYaml
  <2>1. /\ jobs' = jobs \ {j} /\ st'.draft = j.draft /\ st'.positions = st.positions
        /\ ~st'.dirtyBusiness /\ ~st'.dirtyLayout /\ SameHistory(st', st)
    BY <1>4, <1>15, SavedState DEF Writing
  <2>2. PageFaithful'
    BY <1>6, <1>9, <1>10, <1>11, <1>13, <2>1 DEF Writing, PageFaithful, Known, Faithful
  <2>3. HistoryFaithful'
    BY <1>4, <1>10, <2>1, HistoryOverWrite DEF Writing, FileInv
  <2> QED
    BY <1>10, <2>1, <2>2, <2>3, NobodyWrites DEF Writing, FileInv
<1> QED
  BY <1>14, <1>15

LEMMA RereadKeeps ==
  ASSUME NEW j, Writing(j), Reread(j), UNCHANGED home
  PROVE  FileInv'
<1>1. j.at = "reread" /\ Saved(j) /\ UNCHANGED <<disk, history>>
  BY DEF Reread
<1>2. /\ jobs' = jobs \ {j} /\ st'.draft = j.draft /\ st'.positions = st.positions
      /\ ~st'.dirtyBusiness /\ ~st'.dirtyLayout /\ SameHistory(st', st)
  BY <1>1, SavedState DEF Writing
<1>3. /\ j.draft = Normalized(st.draft) /\ Stored /\ j.positions = st.positions
      /\ history # "crossed" => /\ Normalized(OnDisk.config) = j.draft
                               /\ Resolve(j.draft, OnDisk.layout) = j.positions
  BY <1>1 DEF Writing, Saving
<1>4. Stored' /\ OnDisk' = OnDisk
  BY <1>1, <1>3 DEF Stored, OnDisk
<1>5. history # "crossed" => Settled(j.draft, st.positions)
  BY <1>3, SettledSameNodes DEF Writing, Faithful
<1>6. PageFaithful'
  BY <1>1, <1>2, <1>3, <1>4, <1>5 DEF Writing, PageFaithful, Known, Faithful
<1>7. HistoryFaithful'
  <2>1. \A s : (Known(s))' = Known(s) /\ (Faithful(s))' = Faithful(s)
    BY <1>1 DEF Known, Faithful, Stored, OnDisk
  <2>2. PICK entries : /\ st.past \in Seq(entries) /\ st.future \in Seq(entries)
                       /\ \A s \in entries : Known(s) /\ (history = "fresh" => Faithful(s))
    BY DEF Writing, FileInv, HistoryFaithful
  <2>3. /\ st'.past \in Seq(entries) /\ st'.future \in Seq(entries)
        /\ \A s \in entries : (Known(s))' /\ (history' = "fresh" => (Faithful(s))')
    BY <1>1, <1>2, <2>1, <2>2 DEF SameHistory
  <2> QED
    BY <2>3 DEF HistoryFaithful
<1>8. \A k \in jobs' : ~Foreground(k)
  BY <1>2 DEF Writing
<1> QED
  BY <1>1, <1>6, <1>7, <1>8, NobodyWrites DEF Writing, FileInv, FilesShaped

LEMMA SaveNextKeeps ==
  ASSUME NoTables, PageInv, CleanInv, NEW j \in jobs, SaveNext(j)
  PROVE  CleanInv'
<1>1. j.kind = "save" /\ UNCHANGED <<dir, restore, home, overlapped>> /\ DOMAIN j = SaveFields /\ DOMAIN st = StateFields
  BY DEF SaveNext, PageInv, PageTypes
<1>2. CASE SaveFails(j)
  <2>1. jobs' = jobs \ {j} /\ st' = [st EXCEPT !.busy = FALSE] /\ UNCHANGED <<disk, history>>
    BY <1>2 DEF SaveFails
  <2> QED
    BY <1>1, <2>1, EndKeeps DEF SameState, SameHistory, StateFields
<1>3. ASSUME Validated(j) \/ YamlWritten(j) \/ LayoutWritten(j) \/ Reread(j)
      PROVE  CleanInv'
  <2>1. \A k \in jobs' : k \in jobs \/ (k.kind = "save" /\ k.dir = j.dir)
    BY <1>1, <1>3 DEF Validated, YamlWritten, LayoutWritten, Reread, SaveGoesOn, Saved, SaveFields
  <2>2. DOMAIN disk' = DOMAIN disk
    BY <1>3 DEF Validated, YamlWritten, LayoutWritten, Reread, Write
  <2>3. DirsKnown'
    BY <1>1, <2>1, <2>2 DEF CleanInv, DirsKnown
  <2>4. ASSUME ~overlapped
        PROVE  FileInv'
    <3>1. /\ FileInv /\ Saving(j) /\ st.draft # None
          /\ \A k \in jobs \ {j} : ~Foreground(k)
      BY <1>1, <2>4 DEF CleanInv, FileInv, JobsFaithful, PageInv, Alone, Foreground
    <3>2. Known(st) /\ (history # "crossed" => Faithful(st))
      BY <3>1 DEF FileInv, PageFaithful
    <3>3. HasNodes(Normalized(st.draft)) /\ SameNodes(st.draft, Normalized(st.draft))
      BY <3>2, NormalizedNodes DEF Known
    <3>4. Writing(j)
      BY <1>1, <3>1, <3>2, <3>3 DEF Writing
    <3> QED
      BY <1>1, <1>3, <3>4, ValidatedKeeps, YamlKeeps, LayoutKeeps, RereadKeeps
  <2> QED
    BY <1>1, <2>3, <2>4 DEF CleanInv
<1> QED
  BY <1>2, <1>3 DEF SaveNext

LEMMA CleanStep ==
  ASSUME NoTables, PageInv, CleanInv, PanelNext
  PROVE  CleanInv'
<1>1. CASE \E d \in DOMAIN disk : OpenDirectory(d)
  BY <1>1, OpeningKeeps DEF OpenDirectory
<1>2. CASE RestoreGranted \/ RestoreDirectory
  <2>1. AdoptDirectory(Remembered) /\ restore # "over" /\ restore' = "over"
    BY <1>2 DEF RestoreGranted, RestoreDirectory
  <2>2. Remembered \in DOMAIN disk
    BY <2>1 DEF CleanInv, DirsKnown
  <2> QED
    BY <2>1, <2>2, OpeningKeeps
<1>3. CASE RestoreRefused
  <2>1. restore # "over" /\ UNCHANGED <<disk, dir, st, jobs, home, history, overlapped>>
    BY <1>3 DEF RestoreRefused
  <2> QED
    BY <2>1, StateStays, JobsStay DEF CleanInv, DirsKnown, FileInv, FilesShaped, SameState, SameHistory
<1>4. CASE \E j \in jobs : Listed(j) \/ Parsed(j) \/ LaidOut(j) \/ SaveNext(j)
  BY <1>4, ListedKeeps, ParsedKeeps, LaidOutKeeps, SaveNextKeeps
<1>5. CASE \E name \in st.files : SelectFile(name)
  BY <1>5, SelectFileKeeps
<1>6. CASE CreateNewFile \/ Save
  BY <1>6, CreateNewFileKeeps, SaveKeeps
<1>7. CASE ApplyPersona \/ MoveNode
  BY <1>7, PersonaEdits, MoveEdits
<1>8. CASE RestoreHistory(UndoEdit(st)) \/ RestoreHistory(RedoEdit(st))
  BY <1>8, HistoryEdits
<1>9. CASE \E p \in previews : Previewed(p)
  BY <1>9, PreviewedKeeps
<1> QED
  BY <1>1, <1>2, <1>3, <1>4, <1>5, <1>6, <1>7, <1>8, <1>9 DEF PanelNext

LEMMA InitCleanInv ==
  ASSUME Init
  PROVE  CleanInv
<1>1. /\ jobs = {} /\ history = "fresh"
      /\ (restore # "over" \/ dir # None => dir \in {None, Remembered} /\ disk \in Disks)
      /\ disk = <<>> \/ disk \in Disks
  BY DEF Init, PanelInit, PanelIdle
<1>2. DirsKnown
  BY <1>1, DisksAssumption DEF DirsKnown
<1>3. FilesShaped
  <2>1. CASE disk = <<>>
    BY <2>1 DEF FilesShaped
  <2>2. CASE disk \in Disks
    BY <2>2, DisksAssumption DEF FilesShaped
  <2> QED
    BY <1>1, <2>1, <2>2
<1>4. JobsFaithful
  BY <1>1 DEF JobsFaithful
<1>5. \A files, name, c, p : /\ Blank(files).past = <<>> /\ Blank(files).future = <<>> /\ Blank(files).draft = None
                             /\ Showing(files, name, c, p).past = <<>> /\ Showing(files, name, c, p).future = <<>>
                             /\ Showing(files, name, c, p).draft = c /\ Showing(files, name, c, p).positions = p
  BY DEF Blank, Showing
<1>6. CASE st = Blank({})
  <2>1. st.draft = None /\ st.past = <<>> /\ st.future = <<>>
    BY <1>5, <1>6
  <2>2. HistoryFaithful
    <3>1. <<>> \in Seq({})
      OBVIOUS
    <3>2. st.past \in Seq({}) /\ st.future \in Seq({})
      BY <2>1, <3>1
    <3>3. \A s \in {} : Known(s) /\ (history = "fresh" => Faithful(s))
      OBVIOUS
    <3> QED
      BY <3>2, <3>3 DEF HistoryFaithful
  <2> QED
    BY <1>2, <1>3, <1>4, <2>1, <2>2 DEF CleanInv, FileInv, PageFaithful
<1>7. ASSUME disk \in Disks, NEW name \in DOMAIN disk[Remembered], home = <<Remembered, name>>,
             NEW file, file = disk[Remembered][name],
             st = [Showing(DOMAIN disk[Remembered], name, Normalized(file.config),
                           Resolve(Normalized(file.config), file.layout))
                   EXCEPT !.preview = Normalized(file.config)]
      PROVE  CleanInv
  <2>1. /\ st.draft = Normalized(file.config) /\ st.positions = Resolve(Normalized(file.config), file.layout)
        /\ st.past = <<>> /\ st.future = <<>>
    BY <1>7 DEF Showing, Blank
  <2>2. Stored /\ OnDisk = file /\ HasNodes(file.config)
    BY <1>3, <1>7, DisksAssumption DEF Stored, OnDisk, FilesShaped, IsFile
  <2>3. Settled(st.draft, st.positions)
    BY <2>1, ResolveSettles
  <2>4. Known(st) /\ Faithful(st)
    BY <2>1, <2>2, <2>3, NormalizedNodes DEF Known, Faithful
  <2>5. HistoryFaithful
    <3>1. <<>> \in Seq({})
      OBVIOUS
    <3>2. st.past \in Seq({}) /\ st.future \in Seq({})
      BY <2>1, <3>1
    <3>3. \A s \in {} : Known(s) /\ (history = "fresh" => Faithful(s))
      OBVIOUS
    <3> QED
      BY <3>2, <3>3 DEF HistoryFaithful
  <2> QED
    BY <1>2, <1>3, <1>4, <2>4, <2>5 DEF CleanInv, FileInv, PageFaithful
<1>8. CASE st # Blank({})
  <2>1. PICK name \in DOMAIN disk[Remembered] :
          /\ disk \in Disks /\ home = <<Remembered, name>>
          /\ st = [Showing(DOMAIN disk[Remembered], name, Normalized(disk[Remembered][name].config),
                           Resolve(Normalized(disk[Remembered][name].config), disk[Remembered][name].layout))
                   EXCEPT !.preview = Normalized(disk[Remembered][name].config)]
    BY <1>8 DEF Init, PanelInit, PanelIdle
  <2>2. PICK file : file = disk[Remembered][name]
    OBVIOUS
  <2> QED
    BY <1>7, <2>1, <2>2
<1> QED
  BY <1>6, <1>8

\* A page that says it is saved shows what selecting its file again would
\* show, whatever failed, was superseded or was undone, as long as the history
\* has not been followed to before a write and no listing ran beside another
\* callback.  None and Corrupt are assumed not to be tables.
THEOREM CleanPagesAreWritten ==
  ASSUME NoTables
  PROVE  Spec => []CleanIsWrittenAtFirst
<1>1. PageInv /\ CleanInv /\ [Next]_editorVars => CleanInv'
  <2>1. CASE PanelNext
    BY <2>1, CleanStep
  <2>2. CASE UNCHANGED panelVars
    BY <2>2, StateStays, JobsStay
       DEF panelVars, CleanInv, DirsKnown, FileInv, FilesShaped, SameState, SameHistory
  <2> QED
    BY <2>1, <2>2 DEF Next, editorVars
<1>2. PageInv /\ CleanInv => CleanIsWrittenAtFirst
  BY DEF CleanInv, FileInv, PageFaithful, Known, Faithful, IsDirty, Stored, OnDisk,
     CleanIsWrittenAtFirst, CleanIsWritten, Shown
<1> QED
  BY <1>1, <1>2, InitCleanInv, PageHolds, PTL DEF Spec

-----------------------------------------------------------------------------
(* What the references of a definition need.                               *)

\* The references of a node of flow are to what is there.
Resolves(c, flow, node) ==
  /\ \A t \in NodeTargets(node) : TargetDeclared(flow, t)
  /\ node.kind = "actor" => node.who = "manager" \/ node.who \in DOMAIN c.roles
  /\ node.kind = "child" => node.who \in DOMAIN c.flows
FlowResolves(c, flow) ==
  flow.start \in DOMAIN flow.nodes /\ \A n \in DOMAIN flow.nodes : Resolves(c, flow, flow.nodes[n])
Resolved(c) == \A f \in DOMAIN c.flows : FlowResolves(c, c.flows[f])

LEMMA NothingDangles ==
  ASSUME NEW c
  PROVE  Dangling(c) = {} <=> Resolved(c)
<1> DEFINE bad(f) == LET flow == c.flows[f] IN
         {<<f, "start">> : x \in {flow.start} \ DOMAIN flow.nodes}
           \cup {<<f, n>> : n \in {x \in DOMAIN flow.nodes :
                 LET node == flow.nodes[x] IN
                 \/ \E t \in NodeTargets(node) : ~TargetDeclared(flow, t)
                 \/ node.kind = "actor" /\ node.who # "manager" /\ node.who \notin DOMAIN c.roles
                 \/ node.kind = "child" /\ node.who \notin DOMAIN c.flows}}
<1>1. Dangling(c) = UNION {bad(f) : f \in DOMAIN c.flows}
  BY DEF Dangling
<1>2. ASSUME NEW f \in DOMAIN c.flows
      PROVE  bad(f) = {} <=> FlowResolves(c, c.flows[f])
  <2> DEFINE unresolved == {x \in DOMAIN c.flows[f].nodes : ~Resolves(c, c.flows[f], c.flows[f].nodes[x])}
             unstarted == {c.flows[f].start} \ DOMAIN c.flows[f].nodes
  <2>1. bad(f) = {<<f, "start">> : x \in unstarted} \cup {<<f, n>> : n \in unresolved}
    BY DEF Resolves
  <2> HIDE DEF bad
  <2>2. bad(f) = {} <=> unstarted = {} /\ unresolved = {}
    <3> HIDE DEF unstarted, unresolved
    <3> QED
      BY <2>1
  <2> QED
    BY <2>2 DEF FlowResolves
<1> HIDE DEF bad
<1> QED
  BY <1>1, <1>2 DEF Resolved

\* Definition d is what an edit may make of c.
Follows(c, d) == IsDefinition(d) /\ (Resolved(c) /\ ~Loses(c, d) => Resolved(d))

LEMMA RolesChange ==
  ASSUME NEW c, NEW d, IsDefinition(c),
         DOMAIN d = DOMAIN c, d.flows = c.flows, DOMAIN c.roles \subseteq DOMAIN d.roles
  PROVE  Follows(c, d)
BY DEF Follows, IsDefinition, Resolved, FlowResolves, Resolves

LEMMA FlowChanges ==
  ASSUME NEW c, IsDefinition(c), NEW f \in DOMAIN c.flows, NEW w, IsFlow(w),
         Resolved(c) => FlowResolves(c, w)
  PROVE  Follows(c, [c EXCEPT !.flows[f] = w])
<1> DEFINE d == [c EXCEPT !.flows[f] = w]
<1>1. /\ DOMAIN d = DOMAIN c /\ d.roles = c.roles /\ DOMAIN d.flows = DOMAIN c.flows
      /\ \A g \in DOMAIN d.flows : d.flows[g] = IF g = f THEN w ELSE c.flows[g]
  BY DEF IsDefinition
<1> HIDE DEF d
<1>2. IsDefinition(d)
  BY <1>1 DEF IsDefinition
<1>3. \A v : FlowResolves(c, v) <=> FlowResolves(d, v)
  BY <1>1 DEF FlowResolves, Resolves
<1>4. Resolved(c) => Resolved(d)
  BY <1>1, <1>3 DEF Resolved
<1>5. Follows(c, d)
  BY <1>2, <1>4 DEF Follows
<1> QED
  BY <1>5 DEF d

LEMMA NodeChanges ==
  ASSUME NEW c, IsDefinition(c), NEW f \in DOMAIN c.flows, NEW n, NEW x, IsNode(x),
         Resolved(c) => Resolves(c, c.flows[f], x)
  PROVE  Follows(c, SetNode(c, f, n, x))
<1> DEFINE v == c.flows[f]
           w == [v EXCEPT !.nodes = With(@, n, x)]
<1>1. IsFlow(v)
  BY DEF IsDefinition
<1>2. /\ DOMAIN w = DOMAIN v /\ w.start = v.start /\ w.returns = v.returns
      /\ DOMAIN w.nodes = DOMAIN v.nodes \cup {n}
      /\ \A m \in DOMAIN w.nodes : w.nodes[m] = IF m = n THEN x ELSE v.nodes[m]
  BY <1>1 DEF IsFlow, With
<1> HIDE DEF w
<1>3. IsFlow(w)
  BY <1>1, <1>2 DEF IsFlow
<1>4. \A y : Resolves(c, v, y) => Resolves(c, w, y)
  BY <1>2 DEF Resolves, TargetDeclared
<1>5. Resolved(c) => FlowResolves(c, w)
  BY <1>2, <1>4 DEF Resolved, FlowResolves
<1>6. Follows(c, [c EXCEPT !.flows[f] = w])
  BY <1>3, <1>5, FlowChanges
<1> QED
  BY <1>6 DEF w, SetNode

LEMMA RoutesChange ==
  ASSUME NEW c, IsDefinition(c), NEW f \in DOMAIN c.flows, NEW n \in DOMAIN c.flows[f].nodes,
         NEW routes, IsRoutes(routes),
         Resolved(c) => \A r \in DOMAIN routes : TargetDeclared(c.flows[f], routes[r].to)
  PROVE  Follows(c, [c EXCEPT !.flows[f].nodes[n].routes = routes])
<1> DEFINE v == c.flows[f]
           x == [v.nodes[n] EXCEPT !.routes = routes]
           w == [v EXCEPT !.nodes[n] = x]
<1>1. IsFlow(v) /\ IsNode(v.nodes[n])
  BY DEF IsDefinition, IsFlow
<1>2. DOMAIN x = DOMAIN v.nodes[n] /\ x.kind = v.nodes[n].kind /\ x.who = v.nodes[n].who /\ x.routes = routes
  BY <1>1 DEF IsNode
<1>3. IsNode(x) /\ (Resolved(c) => Resolves(c, v, x))
  <2> HIDE DEF x
  <2> QED
    BY <1>1, <1>2 DEF IsNode, Resolved, FlowResolves, Resolves, NodeTargets
<1>4. /\ DOMAIN w = DOMAIN v /\ w.start = v.start /\ w.returns = v.returns
      /\ DOMAIN w.nodes = DOMAIN v.nodes
      /\ \A m \in DOMAIN w.nodes : w.nodes[m] = IF m = n THEN x ELSE v.nodes[m]
  <2> HIDE DEF x
  <2> QED
    BY <1>1 DEF IsFlow
<1>5. IsFlow(w) /\ (Resolved(c) => FlowResolves(c, w))
  <2> HIDE DEF x, w
  <2>1. IsFlow(w)
    BY <1>1, <1>3, <1>4 DEF IsFlow
  <2>2. \A y : Resolves(c, v, y) => Resolves(c, w, y)
    BY <1>4 DEF Resolves, TargetDeclared
  <2> QED
    BY <1>3, <1>4, <2>1, <2>2 DEF Resolved, FlowResolves
<1>6. Follows(c, [c EXCEPT !.flows[f] = w])
  <2> HIDE DEF w
  <2> QED
    BY <1>5, FlowChanges
<1> QED
  BY <1>6

-----------------------------------------------------------------------------
(* Sessions.                                                               *)

IsSession(s) ==
  /\ DOMAIN s = {"config", "layout", "dirtyBusiness", "dirtyLayout", "past", "future"}
  /\ IsDefinition(s.config)
  /\ \E entries : /\ s.past \in Seq(entries) /\ s.future \in Seq(entries)
                  /\ \A e \in entries : IsDefinition(e.config)

\* Session h is what an edit of s may answer with.
Becomes(s, h) == IsSession(h) /\ Follows(s.config, h.config)

LEMMA NoChange ==
  ASSUME NEW s, IsSession(s)
  PROVE  Becomes(s, Refuse(s).session) /\ Becomes(s, Done(s).session)
BY RolesChange DEF Becomes, Refuse, Done, IsSession

LEMMA NewestIn ==
  ASSUME NEW entries, NEW h \in Seq(entries), NEW e
  PROVE  Newest(Append(h, e)) \in Seq(entries \cup {e})
<1>1. h \in Seq(entries \cup {e})
  OBVIOUS
<1>2. Append(h, e) \in Seq(entries \cup {e}) /\ Len(Append(h, e)) = Len(h) + 1
  BY <1>1
<1>3. CASE Len(Append(h, e)) > HistoryLimit
  <2>1. Append(h, e) # <<>>
    BY <1>2
  <2> QED
    BY <1>2, <1>3, <2>1, HeadTailProperties DEF Newest
<1>4. CASE ~(Len(Append(h, e)) > HistoryLimit)
  BY <1>2, <1>4 DEF Newest
<1> QED
  BY <1>3, <1>4

LEMMA PushedHistory ==
  ASSUME NEW s, IsSession(s)
  PROVE  /\ IsSession(PushHistory(s)) /\ PushHistory(s).config = s.config
         /\ DOMAIN PushHistory(s) = DOMAIN s
<1>1. PICK entries : /\ s.past \in Seq(entries) /\ s.future \in Seq(entries)
                     /\ \A e \in entries : IsDefinition(e.config)
  BY DEF IsSession
<1>2. PICK e : e = Snapshot(s)
  OBVIOUS
<1>3. IsDefinition(e.config)
  BY <1>2 DEF Snapshot, IsSession
<1>4. PICK past : past = Newest(Append(s.past, e))
  OBVIOUS
<1>5. past \in Seq(entries \cup {e})
  BY <1>1, <1>4, NewestIn
<1>6. PushHistory(s) = [s EXCEPT !.past = past, !.future = <<>>]
  BY <1>2, <1>4 DEF PushHistory
<1>7. <<>> \in Seq(entries \cup {e}) /\ \A x \in entries \cup {e} : IsDefinition(x.config)
  BY <1>1, <1>3
<1>8. PICK p : p = PushHistory(s)
  OBVIOUS
<1>9. /\ DOMAIN p = DOMAIN s /\ p.config = s.config /\ p.past = past /\ p.future = <<>>
  BY <1>6, <1>8 DEF IsSession
<1>10. IsSession(p)
  BY <1>5, <1>7, <1>9 DEF IsSession
<1> QED
  BY <1>8, <1>9, <1>10

LEMMA SessionChanges ==
  ASSUME NEW s, IsSession(s), NEW h, DOMAIN h = DOMAIN s, h.past = s.past, h.future = s.future,
         IsDefinition(h.config)
  PROVE  IsSession(h)
BY DEF IsSession

LEMMA EditChanges ==
  ASSUME NEW s, IsSession(s), NEW d, Follows(s.config, d)
  PROVE  /\ Becomes(s, Edited(s, d).session)
         /\ Becomes(s, EditUnlessSame(s, d).session)
         /\ \A layout, moved : Becomes(s, EditedWith(s, d, layout, moved).session)
<1>1. PICK p : p = PushHistory(s)
  OBVIOUS
<1>2. IsSession(p) /\ IsDefinition(d)
  BY <1>1, PushedHistory DEF Follows
<1>3. Becomes(s, Edited(s, d).session)
  <2>1. PICK h : h = [p EXCEPT !.config = d, !.dirtyBusiness = TRUE]
    OBVIOUS
  <2>2. DOMAIN h = DOMAIN p /\ h.past = p.past /\ h.future = p.future /\ h.config = d
    BY <1>2, <2>1 DEF IsSession
  <2> QED
    BY <1>1, <1>2, <2>1, <2>2, SessionChanges DEF Edited, Done, Becomes
<1>4. ASSUME NEW layout, NEW moved
      PROVE  Becomes(s, EditedWith(s, d, layout, moved).session)
  <2>1. PICK h : h = [p EXCEPT !.config = d, !.layout = layout, !.dirtyBusiness = TRUE,
                                !.dirtyLayout = @ \/ moved]
    OBVIOUS
  <2>2. DOMAIN h = DOMAIN p /\ h.past = p.past /\ h.future = p.future /\ h.config = d
    BY <1>2, <2>1 DEF IsSession
  <2> QED
    BY <1>1, <1>2, <2>1, <2>2, SessionChanges DEF EditedWith, Done, Becomes
<1> QED
  BY <1>3, <1>4, NoChange DEF EditUnlessSame

-----------------------------------------------------------------------------
(* The common persona, the Roles and the Judge.                            *)

LEMMA RoleTables ==
  ASSUME NEW c, IsDefinition(c)
  PROVE  /\ \A key, role : Follows(c, [c EXCEPT !.roles = With(@, key, role)])
         /\ \A key, role : Follows(c, [c EXCEPT !.roles[key] = role])
         /\ \A text : Follows(c, [c EXCEPT !.persona = text])
         /\ \A judge : Follows(c, [c EXCEPT !.judge = judge])
<1>1. ASSUME NEW key, NEW role
      PROVE  Follows(c, [c EXCEPT !.roles = With(@, key, role)])
  <2>1. PICK d : d = [c EXCEPT !.roles = With(@, key, role)]
    OBVIOUS
  <2>2. DOMAIN d = DOMAIN c /\ d.flows = c.flows /\ DOMAIN c.roles \subseteq DOMAIN d.roles
    BY <2>1 DEF IsDefinition, With
  <2> QED
    BY <2>1, <2>2, RolesChange
<1>2. ASSUME NEW key, NEW role
      PROVE  Follows(c, [c EXCEPT !.roles[key] = role])
  <2>1. PICK d : d = [c EXCEPT !.roles[key] = role]
    OBVIOUS
  <2>2. DOMAIN d = DOMAIN c /\ d.flows = c.flows /\ DOMAIN c.roles \subseteq DOMAIN d.roles
    BY <2>1 DEF IsDefinition
  <2> QED
    BY <2>1, <2>2, RolesChange
<1>3. ASSUME NEW text
      PROVE  Follows(c, [c EXCEPT !.persona = text])
  <2>1. PICK d : d = [c EXCEPT !.persona = text]
    OBVIOUS
  <2>2. DOMAIN d = DOMAIN c /\ d.flows = c.flows /\ DOMAIN c.roles \subseteq DOMAIN d.roles
    BY <2>1 DEF IsDefinition
  <2> QED
    BY <2>1, <2>2, RolesChange
<1>4. ASSUME NEW judge
      PROVE  Follows(c, [c EXCEPT !.judge = judge])
  <2>1. PICK d : d = [c EXCEPT !.judge = judge]
    OBVIOUS
  <2>2. DOMAIN d = DOMAIN c /\ d.flows = c.flows /\ DOMAIN c.roles \subseteq DOMAIN d.roles
    BY <2>1 DEF IsDefinition
  <2> QED
    BY <2>1, <2>2, RolesChange
<1> QED
  BY <1>1, <1>2, <1>3, <1>4

LEMMA RoleEdits ==
  ASSUME NEW s, IsSession(s), NEW key
  PROVE  /\ \A r : Becomes(s, AddRole(s, key, r).session)
         /\ \A text : Becomes(s, SetRolePersona(s, key, text).session)
         /\ \A m : Becomes(s, SetRoleModel(s, key, m).session)
         /\ \A m : Becomes(s, SetRoleFallbackModel(s, key, m).session)
         /\ \A on : Becomes(s, SetRoleCompactBeforeReuse(s, key, on).session)
         /\ \A reuse : Becomes(s, SetRoleReuse(s, key, reuse).session)
         /\ \A deny : Becomes(s, SetRoleDeny(s, key, deny).session)
<1>1. IsDefinition(s.config)
  BY DEF IsSession
<1>2. /\ \A role : Becomes(s, Edited(s, [s.config EXCEPT !.roles = With(@, key, role)]).session)
      /\ \A role : Becomes(s, SetRole(s, key, role).session)
  BY <1>1, RoleTables, EditChanges DEF SetRole
<1> QED
  BY <1>2, NoChange DEF AddRole, SetRolePersona, SetRoleModel, SetRoleFallbackModel,
     SetRoleCompactBeforeReuse, SetRoleReuse, SetRoleDeny

LEMMA PersonaAndJudgeEdits ==
  ASSUME NEW s, IsSession(s)
  PROVE  /\ \A text : Becomes(s, SetActorCommonPersona(s, text).session)
         /\ \A text : Becomes(s, SetJudgePersona(s, text).session)
         /\ \A m : Becomes(s, SetJudgeModel(s, m).session)
         /\ \A m : Becomes(s, SetJudgeFallbackModel(s, m).session)
         /\ \A deny : Becomes(s, SetJudgeDeny(s, deny).session)
<1>1. IsDefinition(s.config)
  BY DEF IsSession
<1>2. /\ \A text : Becomes(s, EditUnlessSame(s, [s.config EXCEPT !.persona = text]).session)
      /\ \A judge : Becomes(s, EditUnlessSame(s, [s.config EXCEPT !.judge = judge]).session)
  BY <1>1, RoleTables, EditChanges
<1>3. /\ \A x : [s.config EXCEPT !.judge.persona = x] = [s.config EXCEPT !.judge = [@ EXCEPT !.persona = x]]
      /\ \A x : [s.config EXCEPT !.judge.model = x] = [s.config EXCEPT !.judge = [@ EXCEPT !.model = x]]
      /\ \A x : [s.config EXCEPT !.judge.fallback = x] = [s.config EXCEPT !.judge = [@ EXCEPT !.fallback = x]]
      /\ \A x : [s.config EXCEPT !.judge.deny = x] = [s.config EXCEPT !.judge = [@ EXCEPT !.deny = x]]
  OBVIOUS
<1>4. \A text : Becomes(s, SetActorCommonPersona(s, text).session)
  BY <1>2, NoChange DEF SetActorCommonPersona
<1>5. \A text : Becomes(s, SetJudgePersona(s, text).session)
  BY <1>2, <1>3, NoChange DEF SetJudgePersona
<1>6. \A m : Becomes(s, SetJudgeModel(s, m).session)
  BY <1>2, <1>3, NoChange DEF SetJudgeModel
<1>7. \A m : Becomes(s, SetJudgeFallbackModel(s, m).session)
  BY <1>2, <1>3, NoChange DEF SetJudgeFallbackModel
<1>8. \A deny : Becomes(s, SetJudgeDeny(s, deny).session)
  BY <1>2, <1>3, NoChange DEF SetJudgeDeny
<1> QED
  BY <1>4, <1>5, <1>6, <1>7, <1>8

\* A map with one key renamed.
RenamedKey(f, old, new) == Renamed(f, [x \in {old} |-> new])
IsRenaming(f, old, new, g) ==
  /\ DOMAIN g = (DOMAIN f \ {old}) \cup {new}
  /\ \A k \in DOMAIN g : g[k] = IF k = new THEN f[old] ELSE f[k]

LEMMA RenamedOne ==
  ASSUME NEW f, NEW old, old \in DOMAIN f, NEW new, NEW g, g = RenamedKey(f, old, new)
  PROVE  IsRenaming(f, old, new, g)
<1> DEFINE rn == [x \in {old} |-> new]
<1>1. DOMAIN rn = {old} /\ \A x \in {old} : rn[x] = new
  OBVIOUS
<1>2. {rn[x] : x \in DOMAIN rn} = {new}
  BY <1>1
<1>3. \A k : (\E x \in DOMAIN rn : rn[x] = k) <=> k = new
  BY <1>1
<1>4. (CHOOSE x \in DOMAIN rn : rn[x] = new) = old
  BY <1>1
<1> HIDE DEF rn
<1>5. g = Renamed(f, rn)
  BY DEF rn, RenamedKey
<1>6. g = [k \in (DOMAIN f \ {old}) \cup {new} |->
            IF \E x \in DOMAIN rn : rn[x] = k THEN f[CHOOSE x \in DOMAIN rn : rn[x] = k] ELSE f[k]]
  BY <1>1, <1>2, <1>5 DEF Renamed
<1>7. DOMAIN g = (DOMAIN f \ {old}) \cup {new}
  BY <1>6
<1>8. ASSUME NEW k \in DOMAIN g
      PROVE  g[k] = IF k = new THEN f[old] ELSE f[k]
  <2>1. CASE k = new
    BY <1>3, <1>4, <1>6, <1>7, <2>1
  <2>2. CASE k # new
    BY <1>3, <1>6, <1>7, <2>2
  <2> QED
    BY <2>1, <2>2
<1> QED
  BY <1>7, <1>8 DEF IsRenaming

\* The nodes of every flow change, and no name of a flow or node.
LEMMA AllNodesChange ==
  ASSUME NEW c, IsDefinition(c), NEW d, DOMAIN d = DOMAIN c,
         DOMAIN d.flows = DOMAIN c.flows,
         \A f \in DOMAIN c.flows :
           /\ DOMAIN d.flows[f] = DOMAIN c.flows[f] /\ d.flows[f].start = c.flows[f].start
           /\ DOMAIN d.flows[f].nodes = DOMAIN c.flows[f].nodes
           /\ \A n \in DOMAIN c.flows[f].nodes :
                /\ IsNode(d.flows[f].nodes[n])
                /\ Resolved(c) => Resolves(d, d.flows[f], d.flows[f].nodes[n])
  PROVE  Follows(c, d)
<1>1. IsDefinition(d)
  BY DEF IsDefinition, IsFlow
<1>2. Resolved(c) => Resolved(d)
  BY DEF Resolved, FlowResolves
<1> QED
  BY <1>1, <1>2 DEF Follows

LEMMA RoleRenames ==
  ASSUME NEW s, IsSession(s), NEW old, NEW new
  PROVE  Becomes(s, RenameRole(s, old, new).session)
<1> DEFINE c == s.config
<1>1. IsDefinition(c)
  BY DEF IsSession
<1>2. CASE old \in DOMAIN c.roles
  <2> DEFINE played(f, n) == LET node == c.flows[f].nodes[n] IN
               IF node.kind = "actor" /\ node.who = old THEN [node EXCEPT !.who = new] ELSE node
  <2>0. PICK roles, base : roles = RenamedKey(c.roles, old, new) /\ base = [c EXCEPT !.roles = roles]
    OBVIOUS
  <2>1. PICK d : d = WithNodes(base, played)
    OBVIOUS
  <2>2. DOMAIN base = DOMAIN c /\ base.roles = roles /\ base.flows = c.flows
    BY <1>1, <2>0 DEF IsDefinition
  <2>3. DOMAIN roles = (DOMAIN c.roles \ {old}) \cup {new}
    <3>1. IsRenaming(c.roles, old, new, roles)
      BY <1>2, <2>0, RenamedOne
    <3> QED
      BY <3>1 DEF IsRenaming
  <2> HIDE DEF played
  <2>4. d = [base EXCEPT !.flows = [f \in DOMAIN base.flows |->
               [base.flows[f] EXCEPT !.nodes = [n \in DOMAIN base.flows[f].nodes |-> played(f, n)]]]]
    BY <2>1 DEF WithNodes
  <2>5. /\ DOMAIN d = DOMAIN c /\ d.roles = roles /\ DOMAIN d.flows = DOMAIN c.flows
        /\ \A f \in DOMAIN c.flows :
             d.flows[f] = [c.flows[f] EXCEPT !.nodes = [n \in DOMAIN c.flows[f].nodes |-> played(f, n)]]
    BY <1>1, <2>2, <2>4 DEF IsDefinition
  <2>6. ASSUME NEW f \in DOMAIN c.flows
        PROVE  /\ DOMAIN d.flows[f] = DOMAIN c.flows[f] /\ d.flows[f].start = c.flows[f].start
               /\ d.flows[f].returns = c.flows[f].returns
               /\ DOMAIN d.flows[f].nodes = DOMAIN c.flows[f].nodes
               /\ \A n \in DOMAIN c.flows[f].nodes : d.flows[f].nodes[n] = played(f, n)
    <3>1. PICK w, nodes : w = c.flows[f] /\ nodes = [n \in DOMAIN w.nodes |-> played(f, n)]
      OBVIOUS
    <3>2. IsFlow(w) /\ d.flows[f] = [w EXCEPT !.nodes = nodes]
      BY <1>1, <2>5, <3>1 DEF IsDefinition
    <3>3. DOMAIN nodes = DOMAIN w.nodes /\ \A n \in DOMAIN w.nodes : nodes[n] = played(f, n)
      BY <3>1
    <3> QED
      BY <3>1, <3>2, <3>3 DEF IsFlow
  <2>7. ASSUME NEW f \in DOMAIN c.flows, NEW n \in DOMAIN c.flows[f].nodes
        PROVE  /\ IsNode(d.flows[f].nodes[n])
               /\ Resolved(c) => Resolves(d, d.flows[f], d.flows[f].nodes[n])
    <3>1. PICK x : x = c.flows[f].nodes[n]
      OBVIOUS
    <3>2. PICK y : y = d.flows[f].nodes[n]
      OBVIOUS
    <3>3. IsNode(x)
      BY <1>1, <3>1 DEF IsDefinition, IsFlow
    <3>4. y = IF x.kind = "actor" /\ x.who = old THEN [x EXCEPT !.who = new] ELSE x
      BY <2>6, <3>1, <3>2 DEF played
    <3>5. /\ DOMAIN y = DOMAIN x /\ y.kind = x.kind /\ y.routes = x.routes
          /\ y.who = IF x.kind = "actor" /\ x.who = old THEN new ELSE x.who
      BY <3>3, <3>4 DEF IsNode
    <3>6. IsNode(y)
      BY <3>3, <3>5 DEF IsNode
    <3>7. Resolved(c) => Resolves(c, c.flows[f], x)
      BY <3>1 DEF Resolved, FlowResolves
    <3>8. Resolved(c) => Resolves(d, d.flows[f], y)
      BY <2>3, <2>5, <2>6, <3>5, <3>7 DEF Resolves, NodeTargets, TargetDeclared
    <3> QED
      BY <3>2, <3>6, <3>8
  <2>8. Follows(c, d)
    BY <1>1, <2>5, <2>6, <2>7, AllNodesChange
  <2>9. Becomes(s, Edited(s, d).session)
    BY <2>8, EditChanges
  <2> QED
    BY <2>0, <2>1, <2>9, NoChange DEF RenameRole, RenamedKey, played
<1>3. CASE old \notin DOMAIN c.roles
  BY <1>3, NoChange DEF RenameRole
<1> QED
  BY <1>2, <1>3

\* What is defined no longer.
LEMMA Less ==
  ASSUME NEW c, NEW d, IsDefinition(d), NEW x, x \in Declared(c), x \notin Declared(d),
         Declared(d) \subseteq Declared(c)
  PROVE  Follows(c, d)
BY DEF Loses, Follows

LEMMA RoleDeletes ==
  ASSUME NEW s, IsSession(s), NEW key
  PROVE  Becomes(s, DeleteRole(s, key).session)
<1> DEFINE c == s.config
<1>1. PICK d : d = [c EXCEPT !.roles = Without(@, key)]
  OBVIOUS
<1>2. IsDefinition(c)
  BY DEF IsSession
<1>3. DOMAIN d = DOMAIN c /\ d.flows = c.flows /\ DOMAIN d.roles = DOMAIN c.roles \ {key}
  BY <1>1, <1>2 DEF IsDefinition, Without
<1>4. IsDefinition(d)
  BY <1>2, <1>3 DEF IsDefinition
<1>5. Declared(d) \subseteq Declared(c) /\ <<"role", key>> \notin Declared(d)
  BY <1>3 DEF Declared
<1>6. key \in DOMAIN c.roles => <<"role", key>> \in Declared(c)
  BY DEF Declared
<1> QED
  BY <1>1, <1>4, <1>5, <1>6, Less, EditChanges, NoChange DEF DeleteRole

-----------------------------------------------------------------------------
(* Nodes, results and returns.                                             *)

LEMMA TargetIsDeclared ==
  ASSUME NEW flow, NEW t, NEW self, TargetOk(flow, t, self)
  PROVE  TargetDeclared(flow, t)
BY DEF TargetOk, TargetDeclared

LEMMA NodeAdds ==
  ASSUME NEW s, IsSession(s), NEW f \in DOMAIN s.config.flows, NEW n, NEW x, IsNode(x),
         Resolved(s.config) => Resolves(s.config, s.config.flows[f], x)
  PROVE  /\ Becomes(s, AddNode(s, f, n, x).session)
         /\ Becomes(s, EditUnlessSame(s, SetNode(s.config, f, n, x)).session)
         /\ Becomes(s, Edited(s, SetNode(s.config, f, n, x)).session)
BY NodeChanges, EditChanges DEF AddNode, IsSession

LEMMA RoutesSet ==
  ASSUME NEW s, IsSession(s), NEW f, NEW n, NodeExists(s, f, n), NEW routes, IsRoutes(routes),
         Resolved(s.config) =>
           \A r \in DOMAIN routes : TargetDeclared(s.config.flows[f], routes[r].to)
  PROVE  /\ Becomes(s, Edited(s, SetRoutes(s, f, n, routes)).session)
         /\ Becomes(s, EditUnlessSame(s, SetRoutes(s, f, n, routes)).session)
         /\ \A layout, moved :
              Becomes(s, EditedWith(s, SetRoutes(s, f, n, routes), layout, moved).session)
BY RoutesChange, EditChanges DEF SetRoutes, IsSession, NodeExists

\* A node that is there, and its results.
LEMMA NodeIn ==
  ASSUME NEW s, IsSession(s), NEW f, NEW n, NodeExists(s, f, n)
  PROVE  LET x == s.config.flows[f].nodes[n] IN
         /\ IsNode(x) /\ IsRoutes(x.routes) /\ RoutesOf(s, f, n) = x.routes
         /\ IsFlow(s.config.flows[f]) /\ f \in DOMAIN s.config.flows
         /\ Resolved(s.config) =>
              /\ Resolves(s.config, s.config.flows[f], x)
              /\ \A r \in DOMAIN x.routes : TargetDeclared(s.config.flows[f], x.routes[r].to)
<1> DEFINE flow == s.config.flows[f]
           x == flow.nodes[n]
<1>1. f \in DOMAIN s.config.flows /\ n \in DOMAIN flow.nodes /\ IsFlow(flow)
  BY DEF NodeExists, IsSession, IsDefinition
<1>2. IsNode(x) /\ IsRoutes(x.routes)
  BY <1>1 DEF IsFlow, IsNode
<1>3. Resolved(s.config) => Resolves(s.config, flow, x)
  BY <1>1 DEF Resolved, FlowResolves
<1>4. Resolves(s.config, flow, x) => \A r \in DOMAIN x.routes : TargetDeclared(flow, x.routes[r].to)
  BY DEF Resolves, NodeTargets
<1> QED
  BY <1>1, <1>2, <1>3, <1>4 DEF RoutesOf

LEMMA PositionEdits ==
  ASSUME NEW s, IsSession(s), NEW f, NEW key, NEW pos
  PROVE  Becomes(s, SetNodePosition(s, f, key, pos).session)
<1>1. PICK p : p = PushHistory(s)
  OBVIOUS
<1>2. IsSession(p) /\ p.config = s.config
  BY <1>1, PushedHistory
<1>3. PICK h : h = [p EXCEPT !.layout = SetPosition(@, f, key, pos), !.dirtyLayout = TRUE]
  OBVIOUS
<1>4. DOMAIN h = DOMAIN p /\ h.past = p.past /\ h.future = p.future /\ h.config = p.config
  BY <1>2, <1>3 DEF IsSession
<1>5. IsSession(h)
  BY <1>2, <1>4, SessionChanges DEF IsSession
<1>6. Becomes(s, h)
  BY <1>2, <1>4, <1>5, RolesChange DEF Becomes, IsSession
<1> QED
  BY <1>1, <1>3, <1>6, NoChange DEF SetNodePosition, Done

LEMMA ActorAdds ==
  ASSUME NEW s, IsSession(s), NEW f, NEW n, NEW x, IsTarget(x.to)
  PROVE  Becomes(s, AddActorNode(s, f, n, x).session)
<1> DEFINE node == [kind |-> "actor", who |-> x.role, text |-> Trim(x.text),
                    common |-> IF x.common = None THEN None ELSE Trim(x.common), config |-> None,
                    routes |-> [r \in {x.result} |-> [crit |-> Trim(x.crit), to |-> x.to]]]
<1>1. IsNode(node)
  BY DEF IsNode, IsRoutes, IsTarget
<1>2. NodeTargets(node) = {x.to}
  BY DEF NodeTargets
<1>3. node.kind = "actor" /\ node.who = x.role
  OBVIOUS
<1> HIDE DEF node
<1>4. CASE \/ ~CanAddNode(s, f, n) \/ ~ActorRoleOk(s, x.role) \/ Trim(x.text) = "" \/ ~CheckerOk(x.checker)
           \/ (x.common # None /\ ~CriteriaOk(x.common)) \/ x.result \notin Ids
           \/ ~CriteriaOk(x.crit) \/ ~TargetOk(s.config.flows[f], x.to, n)
  BY <1>4, NoChange DEF AddActorNode
<1>5. CASE CanAddNode(s, f, n) /\ ActorRoleOk(s, x.role) /\ TargetOk(s.config.flows[f], x.to, n)
  <2>1. Resolves(s.config, s.config.flows[f], node)
    BY <1>2, <1>3, <1>5, TargetIsDeclared DEF Resolves, ActorRoleOk
  <2>2. Becomes(s, AddNode(s, f, n, node).session)
    BY <1>1, <1>5, <2>1, NodeAdds DEF CanAddNode
  <2> QED
    BY <2>2, NoChange DEF AddActorNode, node
<1> QED
  BY <1>4, <1>5

LEMMA ActorSets ==
  ASSUME NEW s, IsSession(s), NEW f, NEW n, NEW p
  PROVE  Becomes(s, SetActorFields(s, f, n, p).session)
<1> DEFINE x == s.config.flows[f].nodes[n]
           node == [x EXCEPT !.who = IF p.role = None THEN @ ELSE p.role,
                             !.text = Patched(p.text, @), !.common = Patched(p.common, @)]
           refused == \/ ~IsKind(s, f, n, "actor")
                      \/ p.role # None /\ \/ ~ActorRoleOk(s, p.role)
                                          \/ f = MainFlow /\ n = s.config.flows[f].start /\ p.role # "manager"
                      \/ (p.text # None /\ Trim(p.text) = "") \/ ~CheckerOk(p.checker)
                      \/ (p.common \notin {None, Clear} /\ ~CriteriaOk(p.common))
<1>1. CASE refused
  BY <1>1, NoChange DEF SetActorFields
<1>2. CASE ~refused
  <2>1. /\ NodeExists(s, f, n) /\ x.kind = "actor"
        /\ p.role # None => ActorRoleOk(s, p.role)
    BY <1>2 DEF IsKind
  <2>2. /\ IsNode(x) /\ f \in DOMAIN s.config.flows
        /\ Resolved(s.config) => Resolves(s.config, s.config.flows[f], x)
    BY <2>1, NodeIn
  <2>3. /\ DOMAIN node = DOMAIN x /\ node.kind = x.kind /\ node.routes = x.routes
        /\ node.who = IF p.role = None THEN x.who ELSE p.role
    BY <2>2 DEF IsNode
  <2> HIDE DEF node
  <2>4. IsNode(node)
    BY <2>2, <2>3 DEF IsNode
  <2>5. Resolved(s.config) => Resolves(s.config, s.config.flows[f], node)
    BY <2>1, <2>2, <2>3 DEF Resolves, NodeTargets, ActorRoleOk
  <2>6. Becomes(s, EditUnlessSame(s, SetNode(s.config, f, n, node)).session)
    BY <2>2, <2>4, <2>5, NodeAdds
  <2>7. SetActorFields(s, f, n, p) = EditUnlessSame(s, SetNode(s.config, f, n, node))
    BY <1>2 DEF SetActorFields, node
  <2> QED
    BY <2>6, <2>7
<1> QED
  BY <1>1, <1>2

\* Targets that were from are to.
LEMMA NodeRedirected ==
  ASSUME NEW x, IsNode(x), NEW from, NEW to, IsTarget(to), NEW y, y = Redirected(x, from, to)
  PROVE  /\ IsNode(y) /\ DOMAIN y = DOMAIN x /\ y.kind = x.kind /\ y.who = x.who
         /\ DOMAIN y.routes = DOMAIN x.routes
         /\ \A r \in DOMAIN x.routes :
              y.routes[r].to = IF x.routes[r].to = from THEN to ELSE x.routes[r].to
<1> DEFINE routes == [r \in DOMAIN x.routes |->
              IF x.routes[r].to = from THEN [x.routes[r] EXCEPT !.to = to] ELSE x.routes[r]]
<1>2. y = [x EXCEPT !.routes = routes]
  BY DEF Redirected
<1>3. /\ DOMAIN routes = DOMAIN x.routes
      /\ \A r \in DOMAIN x.routes :
           /\ DOMAIN routes[r] = {"crit", "to"}
           /\ routes[r].to = IF x.routes[r].to = from THEN to ELSE x.routes[r].to
  BY DEF IsNode, IsRoutes
<1> HIDE DEF routes
<1>4. IsRoutes(routes)
  BY <1>3 DEF IsNode, IsRoutes, IsTarget
<1>5. DOMAIN y = DOMAIN x /\ y.kind = x.kind /\ y.who = x.who /\ y.routes = routes
  BY <1>2 DEF IsNode
<1>6. IsNode(y)
  BY <1>4, <1>5 DEF IsNode
<1> QED
  BY <1>3, <1>5, <1>6

LEMMA NodeRenames ==
  ASSUME NEW s, IsSession(s), NEW f, NEW old, NEW new
  PROVE  Becomes(s, RenameNode(s, f, old, new).session)
<1> DEFINE c == s.config
           flow == c.flows[f]
           nodes == RenamedKey(flow.nodes, old, new)
           from == <<"node", old>>
           to == <<"node", new>>
           w == [start |-> IF flow.start = old THEN new ELSE flow.start, returns |-> flow.returns,
                 nodes |-> [n \in DOMAIN nodes |-> Redirected(nodes[n], from, to)]]
<1>1. CASE ~NodeExists(s, f, old) \/ old = new \/ new \notin Ids \/ NodeExists(s, f, new)
  BY <1>1, NoChange DEF RenameNode
<1>2. CASE NodeExists(s, f, old) /\ old # new /\ new \in Ids /\ ~NodeExists(s, f, new)
  <2>1. f \in DOMAIN c.flows /\ old \in DOMAIN flow.nodes /\ IsFlow(flow) /\ IsDefinition(c)
    BY <1>2 DEF NodeExists, IsSession, IsDefinition
  <2>0. nodes = RenamedKey(flow.nodes, old, new)
    OBVIOUS
  <2> HIDE DEF nodes
  <2>2. /\ DOMAIN nodes = (DOMAIN flow.nodes \ {old}) \cup {new}
        /\ \A n \in DOMAIN nodes : nodes[n] = IF n = new THEN flow.nodes[old] ELSE flow.nodes[n]
    <3>1. IsRenaming(flow.nodes, old, new, nodes)
      BY <2>0, <2>1, RenamedOne
    <3> QED
      BY <3>1 DEF IsRenaming
  <2>3. /\ w.start = IF flow.start = old THEN new ELSE flow.start
        /\ w.returns = flow.returns /\ DOMAIN w.nodes = DOMAIN nodes
        /\ DOMAIN w = {"start", "returns", "nodes"}
        /\ \A n \in DOMAIN nodes : w.nodes[n] = Redirected(nodes[n], from, to)
    OBVIOUS
  <2> HIDE DEF w
  <2>4. ASSUME NEW n \in DOMAIN nodes
        PROVE  IsNode(w.nodes[n]) /\ (Resolved(c) => Resolves(c, w, w.nodes[n]))
    <3>1. PICK x : x = nodes[n]
      OBVIOUS
    <3>2. PICK y : y = w.nodes[n]
      OBVIOUS
    <3>3. IsNode(x) /\ (Resolved(c) => Resolves(c, flow, x))
      BY <2>1, <2>2, <3>1 DEF IsFlow, Resolved, FlowResolves
    <3>4. IsTarget(to)
      BY DEF IsTarget
    <3>5. /\ IsNode(y) /\ y.kind = x.kind /\ y.who = x.who
          /\ DOMAIN y.routes = DOMAIN x.routes
          /\ \A r \in DOMAIN x.routes :
               y.routes[r].to = IF x.routes[r].to = from THEN to ELSE x.routes[r].to
      BY <2>3, <3>1, <3>2, <3>3, <3>4, NodeRedirected
    <3>6. ASSUME Resolved(c)
          PROVE  Resolves(c, w, y)
      <4>1. ASSUME NEW r \in DOMAIN x.routes
            PROVE  TargetDeclared(w, y.routes[r].to)
        <5>1. PICK t : t = x.routes[r].to
          OBVIOUS
        <5>2. TargetDeclared(flow, t) /\ IsTarget(t)
          BY <3>3, <3>6, <5>1 DEF Resolves, NodeTargets, IsNode, IsRoutes
        <5>3. CASE t = from
          <6>1. y.routes[r].to = <<"node", new>>
            BY <3>5, <5>1, <5>3
          <6>2. new \in DOMAIN w.nodes
            BY <2>2, <2>3
          <6> QED
            BY <6>1, <6>2 DEF TargetDeclared
        <5>4. CASE t # from
          BY <2>2, <2>3, <3>5, <5>1, <5>2, <5>4 DEF TargetDeclared, IsTarget
        <5> QED
          BY <5>3, <5>4
      <4> QED
        BY <3>3, <3>5, <3>6, <4>1 DEF Resolves, NodeTargets
    <3> QED
      BY <3>2, <3>5, <3>6
  <2>5. IsFlow(w)
    BY <2>3, <2>4 DEF IsFlow
  <2>6. Resolved(c) => FlowResolves(c, w)
    BY <2>1, <2>2, <2>3, <2>4 DEF Resolved, FlowResolves
  <2>7. Follows(c, [c EXCEPT !.flows[f] = w])
    BY <2>1, <2>5, <2>6, FlowChanges
  <2>8. \A layout, moved : Becomes(s, EditedWith(s, [c EXCEPT !.flows[f] = w], layout, moved).session)
    BY <2>7, EditChanges
  <2> QED
    BY <1>2, <2>8 DEF RenameNode, w, nodes, RenamedKey
<1> QED
  BY <1>1, <1>2

LEMMA NodeDeletes ==
  ASSUME NEW s, IsSession(s), NEW f, NEW n
  PROVE  Becomes(s, DeleteNode(s, f, n).session)
<1> DEFINE c == s.config
<1>1. CASE ~NodeExists(s, f, n)
  BY <1>1, NoChange DEF DeleteNode
<1>2. CASE NodeExists(s, f, n)
  <2>1. PICK d : d = [c EXCEPT !.flows[f].nodes = Without(@, n)]
    OBVIOUS
  <2>2. IsDefinition(c) /\ f \in DOMAIN c.flows /\ IsFlow(c.flows[f]) /\ n \in DOMAIN c.flows[f].nodes
    BY <1>2 DEF NodeExists, IsSession, IsDefinition
  <2>3. PICK w : w = [c.flows[f] EXCEPT !.nodes = Without(@, n)]
    OBVIOUS
  <2>4. /\ DOMAIN w = DOMAIN c.flows[f] /\ w.returns = c.flows[f].returns
        /\ DOMAIN w.nodes = DOMAIN c.flows[f].nodes \ {n}
        /\ \A m \in DOMAIN w.nodes : w.nodes[m] = c.flows[f].nodes[m]
    BY <2>2, <2>3 DEF IsFlow, Without
  <2>5. d = [c EXCEPT !.flows[f] = w]
    BY <2>1, <2>3
  <2>6. /\ DOMAIN d = DOMAIN c /\ d.roles = c.roles /\ DOMAIN d.flows = DOMAIN c.flows
        /\ \A g \in DOMAIN d.flows : d.flows[g] = IF g = f THEN w ELSE c.flows[g]
    BY <2>2, <2>5 DEF IsDefinition
  <2>7. IsDefinition(d)
    BY <2>2, <2>4, <2>6 DEF IsDefinition, IsFlow
  <2>8. <<"node", f, n>> \in Declared(c)
    BY <2>2 DEF Declared
  <2>9. Declared(d) \subseteq Declared(c)
    BY <2>4, <2>6 DEF Declared
  <2>10. <<"node", f, n>> \notin Declared(d)
    BY <2>4, <2>6 DEF Declared
  <2>11. Follows(c, d)
    BY <2>7, <2>8, <2>9, <2>10, Less
  <2> QED
    BY <1>2, <2>1, <2>11, EditChanges DEF DeleteNode
<1> QED
  BY <1>1, <1>2

LEMMA ResultEdits ==
  ASSUME NEW s, IsSession(s), NEW f, NEW n, NEW name
  PROVE  /\ \A crit, to : IsTarget(to) => Becomes(s, AddNodeResult(s, f, n, name, crit, to).session)
         /\ \A kind, p : p.to = None \/ IsTarget(p.to) => Becomes(s, PatchResult(s, f, n, kind, name, p).session)
         /\ \A new : Becomes(s, RenameNodeResult(s, f, n, name, new).session)
         /\ Becomes(s, DeleteNodeResult(s, f, n, name).session)
<1> DEFINE c == s.config
           flow == c.flows[f]
           routes == RoutesOf(s, f, n)
<1>1. \A kind : IsKind(s, f, n, kind) => NodeExists(s, f, n)
  BY DEF IsKind
<1>2. NodeExists(s, f, n) =>
        /\ IsRoutes(routes)
        /\ Resolved(c) => \A r \in DOMAIN routes : TargetDeclared(flow, routes[r].to)
  BY NodeIn
<1> HIDE DEF routes
<1>3. ASSUME NEW crit, NEW to, IsTarget(to)
      PROVE  Becomes(s, AddNodeResult(s, f, n, name, crit, to).session)
  <2>1. PICK q : q = With(routes, name, [crit |-> Trim(crit), to |-> to])
    OBVIOUS
  <2>2. /\ DOMAIN q = DOMAIN routes \cup {name}
        /\ \A r \in DOMAIN q : q[r] = IF r = name THEN [crit |-> Trim(crit), to |-> to] ELSE routes[r]
    BY <2>1 DEF With
  <2>3. IsRoutes(routes) => IsRoutes(q)
    BY <1>3, <2>2 DEF IsRoutes, IsTarget
  <2>4. CASE IsKind(s, f, n, "actor") /\ TargetOk(flow, to, n)
    <3>1. Resolved(c) => \A r \in DOMAIN q : TargetDeclared(flow, q[r].to)
      BY <1>1, <1>2, <2>2, <2>4, TargetIsDeclared
    <3>2. Becomes(s, Edited(s, SetRoutes(s, f, n, q)).session)
      BY <1>1, <1>2, <2>3, <2>4, <3>1, RoutesSet
    <3> QED
      BY <2>1, <3>2, NoChange DEF AddNodeResult, routes
  <2>5. CASE ~(IsKind(s, f, n, "actor") /\ TargetOk(flow, to, n))
    BY <2>5, NoChange DEF AddNodeResult
  <2> QED
    BY <2>4, <2>5
<1>4. ASSUME NEW kind, NEW p, p.to = None \/ IsTarget(p.to)
      PROVE  Becomes(s, PatchResult(s, f, n, kind, name, p).session)
  <2> DEFINE refused == \/ ~IsKind(s, f, n, kind) \/ name \notin DOMAIN routes
                        \/ (p.crit # None /\ ~CriteriaOk(p.crit))
                        \/ (p.to # None /\ ~TargetOk(flow, p.to, n))
  <2>1. PICK q : q = [routes EXCEPT ![name] =
                        [crit |-> Patched(p.crit, @.crit), to |-> IF p.to = None THEN @.to ELSE p.to]]
    OBVIOUS
  <2>2. /\ DOMAIN q = DOMAIN routes
        /\ \A r \in DOMAIN routes : r # name => q[r] = routes[r]
        /\ name \in DOMAIN routes =>
             /\ DOMAIN q[name] = {"crit", "to"}
             /\ q[name].to = IF p.to = None THEN routes[name].to ELSE p.to
    BY <2>1
  <2>3. CASE refused
    BY <2>3, NoChange DEF PatchResult, routes
  <2>4. CASE ~refused
    <3>1. NodeExists(s, f, n) /\ name \in DOMAIN routes /\ (p.to # None => TargetOk(flow, p.to, n))
      BY <1>1, <2>4
    <3>2. IsRoutes(q)
      BY <1>2, <1>4, <2>2, <3>1 DEF IsRoutes, IsTarget
    <3>3. Resolved(c) => \A r \in DOMAIN q : TargetDeclared(flow, q[r].to)
      BY <1>2, <2>2, <3>1, TargetIsDeclared
    <3>4. Becomes(s, EditUnlessSame(s, SetRoutes(s, f, n, q)).session)
      BY <3>1, <3>2, <3>3, RoutesSet
    <3>5. PatchResult(s, f, n, kind, name, p) = EditUnlessSame(s, SetRoutes(s, f, n, q))
      BY <2>1, <2>4 DEF PatchResult, routes
    <3> QED
      BY <3>4, <3>5
  <2> QED
    BY <2>3, <2>4
<1>5. ASSUME NEW new
      PROVE  Becomes(s, RenameNodeResult(s, f, n, name, new).session)
  <2>1. PICK q : q = RenamedKey(routes, name, new)
    OBVIOUS
  <2>2. CASE IsKind(s, f, n, "actor") /\ name \in DOMAIN routes
    <3>1. /\ DOMAIN q = (DOMAIN routes \ {name}) \cup {new}
          /\ \A r \in DOMAIN q : q[r] = IF r = new THEN routes[name] ELSE routes[r]
      <4>1. IsRenaming(routes, name, new, q)
        BY <2>1, <2>2, RenamedOne
      <4> QED
        BY <4>1 DEF IsRenaming
    <3>2. IsRoutes(q)
      BY <1>1, <1>2, <2>2, <3>1 DEF IsRoutes
    <3>3. Resolved(c) => \A r \in DOMAIN q : TargetDeclared(flow, q[r].to)
      BY <1>1, <1>2, <2>2, <3>1
    <3>4. \A layout, moved : Becomes(s, EditedWith(s, SetRoutes(s, f, n, q), layout, moved).session)
      BY <1>1, <2>2, <3>2, <3>3, RoutesSet
    <3> QED
      BY <2>1, <3>4, NoChange DEF RenameNodeResult, RenamedKey, routes
  <2>3. CASE ~(IsKind(s, f, n, "actor") /\ name \in DOMAIN routes)
    BY <2>3, NoChange DEF RenameNodeResult, routes
  <2> QED
    BY <2>2, <2>3
<1>6. Becomes(s, DeleteNodeResult(s, f, n, name).session)
  <2>1. PICK q : q = Without(routes, name)
    OBVIOUS
  <2>2. DOMAIN q \subseteq DOMAIN routes /\ \A r \in DOMAIN q : q[r] = routes[r]
    BY <2>1 DEF Without
  <2>3. CASE IsKind(s, f, n, "actor")
    <3>1. IsRoutes(q) /\ (Resolved(c) => \A r \in DOMAIN q : TargetDeclared(flow, q[r].to))
      BY <1>1, <1>2, <2>2, <2>3 DEF IsRoutes
    <3>2. Becomes(s, Edited(s, SetRoutes(s, f, n, q)).session)
      BY <1>1, <2>3, <3>1, RoutesSet
    <3> QED
      BY <2>1, <3>2, NoChange DEF DeleteNodeResult, routes
  <2>4. CASE ~IsKind(s, f, n, "actor")
    BY <2>4, NoChange DEF DeleteNodeResult
  <2> QED
    BY <2>3, <2>4
<1> QED
  BY <1>3, <1>4, <1>5, <1>6

\* The start and the returns of a flow.
LEMMA StartSets ==
  ASSUME NEW s, IsSession(s), NEW f, NEW n
  PROVE  Becomes(s, SetFlowStartNode(s, f, n).session)
<1> DEFINE c == s.config
<1>1. CASE ~NodeExists(s, f, n)
  BY <1>1, NoChange DEF SetFlowStartNode
<1>2. CASE NodeExists(s, f, n)
  <2>1. IsDefinition(c) /\ f \in DOMAIN c.flows /\ IsFlow(c.flows[f]) /\ n \in DOMAIN c.flows[f].nodes
    BY <1>2 DEF NodeExists, IsSession, IsDefinition
  <2>2. PICK w : w = [c.flows[f] EXCEPT !.start = n]
    OBVIOUS
  <2>3. DOMAIN w = DOMAIN c.flows[f] /\ w.start = n /\ w.nodes = c.flows[f].nodes /\ w.returns = c.flows[f].returns
    BY <2>1, <2>2 DEF IsFlow
  <2>4. IsFlow(w) /\ (Resolved(c) => FlowResolves(c, w))
    BY <2>1, <2>3 DEF IsFlow, Resolved, FlowResolves, Resolves, TargetDeclared
  <2>5. Follows(c, [c EXCEPT !.flows[f] = w])
    BY <2>1, <2>4, FlowChanges
  <2>6. Becomes(s, EditUnlessSame(s, [c EXCEPT !.flows[f].start = n]).session)
    BY <2>2, <2>5, EditChanges
  <2> QED
    BY <2>6, NoChange DEF SetFlowStartNode
<1> QED
  BY <1>1, <1>2

LEMMA ReturnAdds ==
  ASSUME NEW s, IsSession(s), NEW f, NEW name
  PROVE  Becomes(s, AddFlowReturn(s, f, name).session)
<1> DEFINE c == s.config
<1>1. CASE f \notin DOMAIN c.flows
  BY <1>1, NoChange DEF AddFlowReturn
<1>2. CASE f \in DOMAIN c.flows
  <2>1. IsDefinition(c) /\ IsFlow(c.flows[f])
    BY <1>2 DEF IsSession, IsDefinition
  <2>2. PICK w : w = [c.flows[f] EXCEPT !.returns = @ \cup {name}]
    OBVIOUS
  <2>3. /\ DOMAIN w = DOMAIN c.flows[f] /\ w.start = c.flows[f].start /\ w.nodes = c.flows[f].nodes
        /\ w.returns = c.flows[f].returns \cup {name}
    BY <2>1, <2>2 DEF IsFlow
  <2>4. IsFlow(w) /\ (Resolved(c) => FlowResolves(c, w))
    BY <1>2, <2>1, <2>3 DEF IsFlow, Resolved, FlowResolves, Resolves, TargetDeclared
  <2>5. Follows(c, [c EXCEPT !.flows[f] = w])
    BY <1>2, <2>1, <2>4, FlowChanges
  <2>6. Becomes(s, Edited(s, [c EXCEPT !.flows[f].returns = @ \cup {name}]).session)
    BY <2>2, <2>5, EditChanges
  <2> QED
    BY <2>6, NoChange DEF AddFlowReturn
<1> QED
  BY <1>1, <1>2

LEMMA ReturnDeletes ==
  ASSUME NEW s, IsSession(s), NEW f, NEW name
  PROVE  Becomes(s, DeleteFlowReturn(s, f, name).session)
<1> DEFINE c == s.config
<1>1. CASE f \notin DOMAIN c.flows \/ name \notin c.flows[f].returns
  BY <1>1, NoChange DEF DeleteFlowReturn
<1>2. CASE f \in DOMAIN c.flows /\ name \in c.flows[f].returns
  <2>1. IsDefinition(c) /\ IsFlow(c.flows[f])
    BY <1>2 DEF IsSession, IsDefinition
  <2>2. PICK w : w = [c.flows[f] EXCEPT !.returns = @ \ {name}]
    OBVIOUS
  <2>3. /\ DOMAIN w = DOMAIN c.flows[f] /\ w.nodes = c.flows[f].nodes
        /\ w.returns = c.flows[f].returns \ {name}
    BY <2>1, <2>2 DEF IsFlow
  <2>4. PICK d : d = [c EXCEPT !.flows[f].returns = @ \ {name}]
    OBVIOUS
  <2>5. /\ DOMAIN d = DOMAIN c /\ d.roles = c.roles /\ DOMAIN d.flows = DOMAIN c.flows
        /\ \A g \in DOMAIN d.flows : d.flows[g] = IF g = f THEN w ELSE c.flows[g]
    BY <2>1, <2>2, <2>4 DEF IsDefinition
  <2>6. IsDefinition(d)
    BY <2>1, <2>3, <2>5 DEF IsDefinition, IsFlow
  <2>7. <<"return", f, name>> \in Declared(c)
    BY <1>2 DEF Declared
  <2>8. Declared(d) \subseteq Declared(c)
    BY <2>3, <2>5 DEF Declared
  <2>9. <<"return", f, name>> \notin Declared(d)
    BY <2>3, <2>5 DEF Declared
  <2>10. Follows(c, d)
    BY <2>6, <2>7, <2>8, <2>9, Less
  <2> QED
    BY <1>2, <2>4, <2>10, EditChanges DEF DeleteFlowReturn
<1> QED
  BY <1>1, <1>2

LEMMA ReturnRenames ==
  ASSUME NEW s, IsSession(s), NEW f, NEW old, NEW new
  PROVE  Becomes(s, RenameFlowReturn(s, f, old, new).session)
<1> DEFINE c == s.config
           maps(g, n) == /\ IsKind(s, g, n, "child") /\ c.flows[g].nodes[n].who = f
                         /\ old \in DOMAIN RoutesOf(s, g, n)
           from == <<"return", old>>
           to == <<"return", new>>
           own(g, n) == IF g = f THEN Redirected(c.flows[g].nodes[n], from, to) ELSE c.flows[g].nodes[n]
           node(g, n) == IF maps(g, n) THEN [own(g, n) EXCEPT !.routes = RenamedKey(@, old, new)]
                         ELSE own(g, n)
           refused == \/ f \notin DOMAIN c.flows \/ old \notin c.flows[f].returns
                      \/ old = new \/ new \notin Ids \/ new \in c.flows[f].returns
<1>1. CASE refused
  BY <1>1, NoChange DEF RenameFlowReturn
<1>2. CASE ~refused
  <2> DEFINE base == [c EXCEPT !.flows[f].returns = (@ \ {old}) \cup {new}]
  <2>1. f \in DOMAIN c.flows /\ IsDefinition(c)
    BY <1>2 DEF IsSession
  <2>2. PICK d : d = WithNodes(base, node)
    OBVIOUS
  <2>3. /\ DOMAIN base = DOMAIN c /\ base.roles = c.roles /\ DOMAIN base.flows = DOMAIN c.flows
        /\ \A g \in DOMAIN c.flows :
             base.flows[g] = IF g = f THEN [c.flows[f] EXCEPT !.returns = (@ \ {old}) \cup {new}] ELSE c.flows[g]
    BY <2>1 DEF IsDefinition
  <2>4. d = [base EXCEPT !.flows = [g \in DOMAIN base.flows |->
               [base.flows[g] EXCEPT !.nodes = [n \in DOMAIN base.flows[g].nodes |-> node(g, n)]]]]
    BY <2>2 DEF WithNodes
  <2> HIDE DEF base, node
  <2>5. /\ DOMAIN d = DOMAIN c /\ d.roles = c.roles /\ DOMAIN d.flows = DOMAIN c.flows
        /\ \A g \in DOMAIN c.flows :
             d.flows[g] = [base.flows[g] EXCEPT !.nodes = [n \in DOMAIN base.flows[g].nodes |-> node(g, n)]]
    BY <2>1, <2>3, <2>4 DEF IsDefinition
  <2>6. ASSUME NEW g \in DOMAIN c.flows
        PROVE  /\ DOMAIN d.flows[g] = DOMAIN c.flows[g] /\ d.flows[g].start = c.flows[g].start
               /\ d.flows[g].returns = IF g = f THEN (c.flows[g].returns \ {old}) \cup {new} ELSE c.flows[g].returns
               /\ DOMAIN d.flows[g].nodes = DOMAIN c.flows[g].nodes
               /\ \A n \in DOMAIN c.flows[g].nodes : d.flows[g].nodes[n] = node(g, n)
    <3>1. DOMAIN c.flows[g] = {"start", "returns", "nodes"}
      BY <2>1 DEF IsDefinition, IsFlow
    <3>2. /\ DOMAIN base.flows[g] = DOMAIN c.flows[g] /\ base.flows[g].start = c.flows[g].start
          /\ base.flows[g].returns = IF g = f THEN (c.flows[g].returns \ {old}) \cup {new} ELSE c.flows[g].returns
          /\ base.flows[g].nodes = c.flows[g].nodes
      BY <2>3, <3>1
    <3>3. PICK v, nodes : v = base.flows[g] /\ nodes = [n \in DOMAIN v.nodes |-> node(g, n)]
      OBVIOUS
    <3>4. d.flows[g] = [v EXCEPT !.nodes = nodes]
      BY <2>5, <3>3
    <3>5. DOMAIN nodes = DOMAIN v.nodes /\ \A n \in DOMAIN v.nodes : nodes[n] = node(g, n)
      BY <3>3
    <3> QED
      BY <3>1, <3>2, <3>3, <3>4, <3>5
  <2>7. ASSUME NEW g \in DOMAIN c.flows, NEW n \in DOMAIN c.flows[g].nodes
        PROVE  /\ IsNode(d.flows[g].nodes[n])
               /\ Resolved(c) => Resolves(d, d.flows[g], d.flows[g].nodes[n])
    <3>1. PICK x : x = c.flows[g].nodes[n]
      OBVIOUS
    <3>2. PICK z : z = own(g, n)
      OBVIOUS
    <3>3. PICK y : y = d.flows[g].nodes[n]
      OBVIOUS
    <3>4. IsNode(x) /\ IsTarget(to)
      BY <2>1, <3>1 DEF IsDefinition, IsFlow, IsTarget
    <3>5. /\ IsNode(z) /\ z.kind = x.kind /\ z.who = x.who
          /\ DOMAIN z.routes = DOMAIN x.routes
          /\ \A r \in DOMAIN x.routes :
               z.routes[r].to = IF g = f /\ x.routes[r].to = from THEN to ELSE x.routes[r].to
      <4>1. CASE g = f
        <5>1. z = Redirected(x, from, to)
          BY <3>1, <3>2, <4>1
        <5> HIDE DEF from, to
        <5> QED
          BY <3>4, <4>1, <5>1, NodeRedirected
      <4>2. CASE g # f
        BY <3>1, <3>2, <3>4, <4>2
      <4> QED
        BY <4>1, <4>2
    <3>6. y = IF maps(g, n) THEN [z EXCEPT !.routes = RenamedKey(@, old, new)] ELSE z
      BY <2>6, <3>2, <3>3 DEF node
    <3>7. maps(g, n) => old \in DOMAIN z.routes
      BY <3>1, <3>5 DEF RoutesOf
    <3>8. /\ IsNode(y) /\ y.kind = x.kind /\ y.who = x.who
          /\ \A r \in DOMAIN y.routes : \E q \in DOMAIN z.routes : y.routes[r] = z.routes[q]
      <4>1. CASE ~maps(g, n)
        BY <3>5, <3>6, <4>1
      <4>2. CASE maps(g, n)
        <5>1. PICK routes : routes = RenamedKey(z.routes, old, new)
          OBVIOUS
        <5>2. /\ DOMAIN routes = (DOMAIN z.routes \ {old}) \cup {new}
              /\ \A r \in DOMAIN routes : routes[r] = IF r = new THEN z.routes[old] ELSE z.routes[r]
          <6>1. IsRenaming(z.routes, old, new, routes)
            BY <3>7, <4>2, <5>1, RenamedOne
          <6> QED
            BY <6>1 DEF IsRenaming
        <5>3. \A r \in DOMAIN routes : \E q \in DOMAIN z.routes : routes[r] = z.routes[q]
          BY <3>7, <4>2, <5>2
        <5>4. y = [z EXCEPT !.routes = routes]
          BY <3>6, <4>2, <5>1
        <5>5. DOMAIN y = DOMAIN z /\ y.kind = z.kind /\ y.who = z.who /\ y.routes = routes
          BY <3>5, <5>4 DEF IsNode
        <5>6. IsRoutes(routes)
          <6>1. IsRoutes(z.routes)
            BY <3>5 DEF IsNode
          <6> QED
            BY <5>3, <6>1 DEF IsRoutes
        <5> QED
          BY <3>5, <5>3, <5>5, <5>6 DEF IsNode
      <4> QED
        BY <4>1, <4>2
    <3>9. ASSUME Resolved(c)
          PROVE  Resolves(d, d.flows[g], y)
      <4>1. Resolves(c, c.flows[g], x)
        BY <3>1, <3>9 DEF Resolved, FlowResolves
      <4>2. ASSUME NEW q \in DOMAIN z.routes
            PROVE  TargetDeclared(d.flows[g], z.routes[q].to)
        <5>1. PICK t : t = x.routes[q].to
          OBVIOUS
        <5>2. TargetDeclared(c.flows[g], t) /\ IsTarget(t)
          BY <3>4, <3>5, <4>1, <5>1 DEF Resolves, NodeTargets, IsNode, IsRoutes
        <5>3. CASE g = f /\ t = from
          <6>1. z.routes[q].to = <<"return", new>>
            BY <3>5, <5>1, <5>3
          <6>2. new \in d.flows[g].returns
            BY <2>6, <5>3
          <6> QED
            BY <6>1, <6>2 DEF TargetDeclared
        <5>4. CASE ~(g = f /\ t = from)
          <6>1. z.routes[q].to = t
            BY <3>5, <5>1, <5>4
          <6> QED
            <7>1. t[1] = "node" => TargetDeclared(d.flows[g], t)
              BY <2>6, <5>2 DEF TargetDeclared
            <7>2. t[1] # "node" => TargetDeclared(d.flows[g], t)
              <8>1. d.flows[g].returns = IF g = f THEN (c.flows[g].returns \ {old}) \cup {new} ELSE c.flows[g].returns
                BY <2>6
              <8>2. t[1] # "node" => t = <<"return", t[2]>> /\ t[2] \in c.flows[g].returns
                BY <5>2 DEF TargetDeclared, IsTarget
              <8>3. g = f => t # <<"return", old>>
                BY <5>4
              <8>4. t[1] # "node" => t[2] \in d.flows[g].returns
                BY <8>1, <8>2, <8>3
              <8> QED
                BY <8>4 DEF TargetDeclared
            <7> QED
              BY <6>1, <7>1, <7>2
        <5> QED
          BY <5>3, <5>4
      <4> QED
        BY <2>5, <3>8, <4>1, <4>2 DEF Resolves, NodeTargets
    <3> QED
      BY <3>3, <3>8, <3>9
  <2>8. Follows(c, d)
    BY <2>1, <2>5, <2>6, <2>7, AllNodesChange
  <2>9. \A layout, moved : Becomes(s, EditedWith(s, d, layout, moved).session)
    BY <2>8, EditChanges
  <2>10. \E layout, moved : RenameFlowReturn(s, f, old, new) = EditedWith(s, d, layout, moved)
    BY <1>2, <2>2 DEF RenameFlowReturn, base, node, RenamedKey
  <2> QED
    BY <2>9, <2>10
<1> QED
  BY <1>1, <1>2

-----------------------------------------------------------------------------
(* Programs.                                                               *)

LEMMA ProgramAdds ==
  ASSUME NEW s, IsSession(s), NEW f, NEW n, NEW x,
         \A r \in ProgramResults : DOMAIN x.routes[r] = {"crit", "to"} /\ IsTarget(x.routes[r].to)
  PROVE  Becomes(s, AddProgramNode(s, f, n, x).session)
<1> DEFINE routes == [r \in ProgramResults |-> [x.routes[r] EXCEPT !.crit = Trim(@)]]
           node == [kind |-> "program", who |-> x.program,
                    text |-> IF x.text = None THEN None ELSE Trim(x.text), common |-> None, config |-> x.config,
                    routes |-> routes]
           flow == s.config.flows[f]
           refused == \/ ~CanAddNode(s, f, n) \/ x.program \notin DOMAIN ProgramParameters
                      \/ (x.text # None /\ Trim(x.text) = "")
                      \/ x.config # None /\ \/ \E k \in DOMAIN x.config : ~ParamOk(x.program, k, x.config[k])
                                            \/ ConfigTooLarge(x.config)
                      \/ \E r \in ProgramResults : ~CriteriaOk(x.routes[r].crit) \/ ~TargetOk(flow, x.routes[r].to, n)
<1>1. /\ DOMAIN routes = ProgramResults
      /\ \A r \in ProgramResults : DOMAIN routes[r] = {"crit", "to"} /\ routes[r].to = x.routes[r].to
  OBVIOUS
<1> HIDE DEF routes
<1>2. node.kind = "program" /\ node.routes = routes /\ DOMAIN node = {"kind", "who", "text", "common", "config", "routes"}
  OBVIOUS
<1> HIDE DEF node
<1>3. IsNode(node)
  BY <1>1, <1>2 DEF IsNode, IsRoutes, IsTarget
<1>4. CASE refused
  BY <1>4, NoChange DEF AddProgramNode
<1>5. CASE ~refused
  <2>1. f \in DOMAIN s.config.flows /\ \A r \in ProgramResults : TargetOk(flow, x.routes[r].to, n)
    BY <1>5 DEF CanAddNode
  <2>2. Resolves(s.config, flow, node)
    BY <1>1, <1>2, <2>1, TargetIsDeclared DEF Resolves, NodeTargets
  <2>3. Becomes(s, AddNode(s, f, n, node).session)
    BY <1>3, <2>1, <2>2, NodeAdds
  <2>4. AddProgramNode(s, f, n, x) = AddNode(s, f, n, node)
    BY <1>5 DEF AddProgramNode, node, routes
  <2> QED
    BY <2>3, <2>4
<1> QED
  BY <1>4, <1>5

LEMMA ProgramSets ==
  ASSUME NEW s, IsSession(s), NEW f, NEW n, NEW p
  PROVE  Becomes(s, SetProgramFields(s, f, n, p).session)
<1> DEFINE x == s.config.flows[f].nodes[n]
           node == [x EXCEPT !.who = IF p.program = None THEN @ ELSE p.program, !.text = Patched(p.text, @)]
<1>1. CASE ~IsKind(s, f, n, "program")
  BY <1>1, NoChange DEF SetProgramFields
<1>2. CASE IsKind(s, f, n, "program")
  <2>1. NodeExists(s, f, n) /\ x.kind = "program"
    BY <1>2 DEF IsKind
  <2>2. /\ IsNode(x) /\ f \in DOMAIN s.config.flows
        /\ Resolved(s.config) => Resolves(s.config, s.config.flows[f], x)
    BY <2>1, NodeIn
  <2>3. DOMAIN node = DOMAIN x /\ node.kind = x.kind /\ node.routes = x.routes
    BY <2>2 DEF IsNode
  <2> HIDE DEF node
  <2>4. IsNode(node)
    BY <2>2, <2>3 DEF IsNode
  <2>5. Resolved(s.config) => Resolves(s.config, s.config.flows[f], node)
    BY <2>1, <2>2, <2>3 DEF Resolves, NodeTargets
  <2>6. Becomes(s, EditUnlessSame(s, SetNode(s.config, f, n, node)).session)
    BY <2>2, <2>4, <2>5, NodeAdds
  <2> QED
    BY <2>6, NoChange DEF SetProgramFields, node
<1> QED
  BY <1>1, <1>2

LEMMA ParamSets ==
  ASSUME NEW s, IsSession(s), NEW f, NEW n, NEW key, NEW value
  PROVE  Becomes(s, SetProgramParam(s, f, n, key, value).session)
<1> DEFINE x == s.config.flows[f].nodes[n]
<1>1. CASE ~IsKind(s, f, n, "program")
  BY <1>1, NoChange DEF SetProgramParam
<1>2. CASE IsKind(s, f, n, "program")
  <2>1. NodeExists(s, f, n) /\ x.kind = "program"
    BY <1>2 DEF IsKind
  <2>2. /\ IsNode(x) /\ f \in DOMAIN s.config.flows
        /\ Resolved(s.config) => Resolves(s.config, s.config.flows[f], x)
    BY <2>1, NodeIn
  <2>3. ASSUME NEW config
        PROVE  Becomes(s, Edited(s, SetNode(s.config, f, n, [x EXCEPT !.config = config])).session)
    <3>1. PICK node : node = [x EXCEPT !.config = config]
      OBVIOUS
    <3>2. DOMAIN node = DOMAIN x /\ node.kind = x.kind /\ node.routes = x.routes /\ node.who = x.who
      BY <2>2, <3>1 DEF IsNode
    <3>3. IsNode(node) /\ (Resolved(s.config) => Resolves(s.config, s.config.flows[f], node))
      BY <2>2, <3>2 DEF IsNode, Resolves, NodeTargets
    <3> QED
      BY <2>2, <3>1, <3>3, NodeAdds
  <2> QED
    BY <2>3, NoChange DEF SetProgramParam
<1> QED
  BY <1>1, <1>2

-----------------------------------------------------------------------------
(* Child workflows.                                                        *)

LEMMA SubflowAdds ==
  ASSUME NEW s, IsSession(s), NEW f
  PROVE  Becomes(s, AddSubflow(s, f).session)
<1> DEFINE c == s.config
<1>1. CASE f \in DOMAIN c.flows
  BY <1>1, NoChange DEF AddSubflow
<1>2. CASE f \notin DOMAIN c.flows
  <2>1. IsDefinition(c)
    BY DEF IsSession
  <2>2. PICK d : d = [c EXCEPT !.flows = With(@, f, MinimalFlow)]
    OBVIOUS
  <2>3. /\ DOMAIN d = DOMAIN c /\ d.roles = c.roles /\ DOMAIN d.flows = DOMAIN c.flows \cup {f}
        /\ \A g \in DOMAIN d.flows : d.flows[g] = IF g = f THEN MinimalFlow ELSE c.flows[g]
    BY <2>1, <2>2 DEF IsDefinition, With
  <2>4. IsFlow(MinimalFlow)
    BY DEF IsFlow, IsNode, IsRoutes, IsTarget, MinimalFlow
  <2>5. FlowResolves(d, MinimalFlow)
    BY DEF FlowResolves, Resolves, NodeTargets, TargetDeclared, MinimalFlow
  <2>6. IsDefinition(d)
    BY <2>1, <2>3, <2>4 DEF IsDefinition
  <2>7. \A w : FlowResolves(c, w) => FlowResolves(d, w)
    BY <2>3 DEF FlowResolves, Resolves
  <2>8. Resolved(c) => Resolved(d)
    BY <2>3, <2>5, <2>7 DEF Resolved
  <2>9. Follows(c, d)
    BY <2>6, <2>8 DEF Follows
  <2> QED
    BY <2>2, <2>9, EditChanges, NoChange DEF AddSubflow
<1> QED
  BY <1>1, <1>2

LEMMA SubflowRenames ==
  ASSUME NEW s, IsSession(s), NEW old, NEW new
  PROVE  Becomes(s, RenameSubflow(s, old, new).session)
<1> DEFINE c == s.config
           flows == RenamedKey(c.flows, old, new)
           called(g, n) == LET node == flows[g].nodes[n] IN
             IF node.kind = "child" /\ node.who = old THEN [node EXCEPT !.who = new] ELSE node
           refused == old \notin DOMAIN c.flows \ {MainFlow} \/ old = new \/ new \notin Ids \/ new \in DOMAIN c.flows
<1>1. CASE refused
  BY <1>1, NoChange DEF RenameSubflow
<1>2. CASE ~refused
  <2> DEFINE base == [c EXCEPT !.flows = flows]
  <2>1. IsDefinition(c) /\ old \in DOMAIN c.flows
    BY <1>2 DEF IsSession
  <2>0. PICK renamed : renamed = RenamedKey(c.flows, old, new)
    OBVIOUS
  <2>2. /\ DOMAIN flows = (DOMAIN c.flows \ {old}) \cup {new}
        /\ \A g \in DOMAIN flows : flows[g] = IF g = new THEN c.flows[old] ELSE c.flows[g]
    <3>1. /\ DOMAIN renamed = (DOMAIN c.flows \ {old}) \cup {new}
          /\ \A g \in DOMAIN renamed : renamed[g] = IF g = new THEN c.flows[old] ELSE c.flows[g]
      <4>1. IsRenaming(c.flows, old, new, renamed)
        BY <2>0, <2>1, RenamedOne
      <4> QED
        BY <4>1 DEF IsRenaming
    <3> QED
      BY <2>0, <3>1
  <2>3. PICK d : d = WithNodes(base, called)
    OBVIOUS
  <2>4. d = [base EXCEPT !.flows = [g \in DOMAIN base.flows |->
               [base.flows[g] EXCEPT !.nodes = [n \in DOMAIN base.flows[g].nodes |-> called(g, n)]]]]
    BY <2>3 DEF WithNodes
  <2> HIDE DEF flows
  <2>5. DOMAIN base = DOMAIN c /\ base.roles = c.roles /\ base.flows = flows
    BY <2>1 DEF IsDefinition
  <2> HIDE DEF base, called
  <2>6. /\ DOMAIN d = DOMAIN c /\ d.roles = c.roles /\ DOMAIN d.flows = DOMAIN flows
        /\ \A g \in DOMAIN flows :
             d.flows[g] = [flows[g] EXCEPT !.nodes = [n \in DOMAIN flows[g].nodes |-> called(g, n)]]
    BY <2>1, <2>4, <2>5 DEF IsDefinition
  <2>7. ASSUME NEW g \in DOMAIN flows
        PROVE  /\ IsFlow(flows[g]) /\ (Resolved(c) => FlowResolves(c, flows[g]))
               /\ DOMAIN d.flows[g] = DOMAIN flows[g] /\ d.flows[g].start = flows[g].start
               /\ d.flows[g].returns = flows[g].returns
               /\ DOMAIN d.flows[g].nodes = DOMAIN flows[g].nodes
               /\ \A n \in DOMAIN flows[g].nodes : d.flows[g].nodes[n] = called(g, n)
    <3>1. IsFlow(flows[g]) /\ (Resolved(c) => FlowResolves(c, flows[g]))
      BY <2>1, <2>2 DEF IsDefinition, Resolved
    <3>2. PICK v, nodes : v = flows[g] /\ nodes = [n \in DOMAIN v.nodes |-> called(g, n)]
      OBVIOUS
    <3>3. d.flows[g] = [v EXCEPT !.nodes = nodes]
      BY <2>6, <3>2
    <3>4. DOMAIN nodes = DOMAIN v.nodes /\ \A n \in DOMAIN v.nodes : nodes[n] = called(g, n)
      BY <3>2
    <3> QED
      BY <2>6, <3>1, <3>2, <3>3, <3>4 DEF IsFlow
  <2>8. ASSUME NEW g \in DOMAIN flows, NEW n \in DOMAIN flows[g].nodes
        PROVE  /\ IsNode(d.flows[g].nodes[n])
               /\ Resolved(c) => Resolves(d, d.flows[g], d.flows[g].nodes[n])
    <3>1. PICK x : x = flows[g].nodes[n]
      OBVIOUS
    <3>2. PICK y : y = d.flows[g].nodes[n]
      OBVIOUS
    <3>3. IsNode(x)
      BY <2>7, <3>1 DEF IsFlow
    <3>4. y = IF x.kind = "child" /\ x.who = old THEN [x EXCEPT !.who = new] ELSE x
      BY <2>7, <3>1, <3>2 DEF called
    <3>5. /\ DOMAIN y = DOMAIN x /\ y.kind = x.kind /\ y.routes = x.routes
          /\ y.who = IF x.kind = "child" /\ x.who = old THEN new ELSE x.who
      BY <3>3, <3>4 DEF IsNode
    <3>6. IsNode(y)
      BY <3>3, <3>5 DEF IsNode
    <3>7. Resolved(c) => Resolves(c, flows[g], x)
      BY <2>7, <3>1 DEF FlowResolves
    <3>8. Resolved(c) => Resolves(d, d.flows[g], y)
      BY <2>2, <2>6, <2>7, <3>5, <3>7 DEF Resolves, NodeTargets, TargetDeclared
    <3> QED
      BY <3>2, <3>6, <3>8
  <2>9. IsDefinition(d)
    BY <2>1, <2>6, <2>7, <2>8 DEF IsDefinition, IsFlow
  <2>10. Resolved(c) => Resolved(d)
    BY <2>6, <2>7, <2>8 DEF Resolved, FlowResolves
  <2>11. Follows(c, d)
    BY <2>9, <2>10 DEF Follows
  <2>12. \A layout, moved : Becomes(s, EditedWith(s, d, layout, moved).session)
    BY <2>11, EditChanges
  <2>13. \E layout, moved : RenameSubflow(s, old, new) = EditedWith(s, d, layout, moved)
    BY <1>2, <2>3 DEF RenameSubflow, base, called, flows, RenamedKey
  <2> QED
    BY <2>12, <2>13
<1> QED
  BY <1>1, <1>2

LEMMA SubflowDeletes ==
  ASSUME NEW s, IsSession(s), NEW f
  PROVE  Becomes(s, DeleteSubflow(s, f).session)
<1> DEFINE c == s.config
<1>1. CASE f \notin DOMAIN c.flows
  BY <1>1, NoChange DEF DeleteSubflow
<1>2. CASE f \in DOMAIN c.flows
  <2>1. PICK d : d = [c EXCEPT !.flows = Without(@, f)]
    OBVIOUS
  <2>2. IsDefinition(c)
    BY DEF IsSession
  <2>3. /\ DOMAIN d = DOMAIN c /\ d.roles = c.roles /\ DOMAIN d.flows = DOMAIN c.flows \ {f}
        /\ \A g \in DOMAIN d.flows : d.flows[g] = c.flows[g]
    BY <2>1, <2>2 DEF IsDefinition, Without
  <2>4. IsDefinition(d)
    BY <2>2, <2>3 DEF IsDefinition
  <2>5. <<"flow", f>> \in Declared(c)
    BY <1>2 DEF Declared
  <2>6. Declared(d) \subseteq Declared(c)
    BY <2>3 DEF Declared
  <2>7. <<"flow", f>> \notin Declared(d)
    BY <2>3 DEF Declared
  <2>8. Follows(c, d)
    BY <2>4, <2>5, <2>6, <2>7, Less
  <2> QED
    BY <2>1, <2>8, EditChanges, NoChange DEF DeleteSubflow
<1> QED
  BY <1>1, <1>2

LEMMA ChildAdds ==
  ASSUME NEW s, IsSession(s), NEW f, NEW n, NEW callee, NEW targets,
         \A r \in DOMAIN targets : IsTarget(targets[r])
  PROVE  Becomes(s, AddChildNode(s, f, n, callee, targets).session)
<1> DEFINE routes == [r \in DOMAIN targets |-> [crit |-> None, to |-> targets[r]]]
           node == [kind |-> "child", who |-> callee, text |-> None, common |-> None, config |-> None,
                    routes |-> routes]
           flow == s.config.flows[f]
           refused == \/ ~CanAddNode(s, f, n) \/ ~CalleeOk(s, f, callee)
                      \/ DOMAIN targets # s.config.flows[callee].returns
                      \/ \E r \in DOMAIN targets : ~TargetOk(flow, targets[r], n)
<1>1. /\ DOMAIN routes = DOMAIN targets
      /\ \A r \in DOMAIN targets : DOMAIN routes[r] = {"crit", "to"} /\ routes[r].to = targets[r]
  OBVIOUS
<1> HIDE DEF routes
<1>2. /\ node.kind = "child" /\ node.who = callee /\ node.routes = routes
      /\ DOMAIN node = {"kind", "who", "text", "common", "config", "routes"}
  OBVIOUS
<1> HIDE DEF node
<1>3. IsNode(node)
  BY <1>1, <1>2 DEF IsNode, IsRoutes, IsTarget
<1>4. CASE refused
  BY <1>4, NoChange DEF AddChildNode
<1>5. CASE ~refused
  <2>1. /\ f \in DOMAIN s.config.flows /\ callee \in DOMAIN s.config.flows
        /\ \A r \in DOMAIN targets : TargetOk(flow, targets[r], n)
    BY <1>5 DEF CanAddNode, CalleeOk
  <2>2. Resolves(s.config, flow, node)
    BY <1>1, <1>2, <2>1, TargetIsDeclared DEF Resolves, NodeTargets
  <2>3. Becomes(s, AddNode(s, f, n, node).session)
    BY <1>3, <2>1, <2>2, NodeAdds
  <2>4. AddChildNode(s, f, n, callee, targets) = AddNode(s, f, n, node)
    BY <1>5 DEF AddChildNode, node, routes
  <2> QED
    BY <2>3, <2>4
<1> QED
  BY <1>4, <1>5

LEMMA ChildSets ==
  ASSUME NEW s, IsSession(s), NEW f, NEW n, NEW callee
  PROVE  Becomes(s, SetChildWorkflowId(s, f, n, callee).session)
<1> DEFINE c == s.config
           x == c.flows[f].nodes[n]
<1>1. CASE ~IsKind(s, f, n, "child") \/ ~CalleeOk(s, f, callee)
  BY <1>1, NoChange DEF SetChildWorkflowId
<1>2. CASE IsKind(s, f, n, "child") /\ CalleeOk(s, f, callee)
  <2>1. NodeExists(s, f, n) /\ x.kind = "child" /\ callee \in DOMAIN c.flows
    BY <1>2 DEF IsKind, CalleeOk
  <2>2. /\ IsNode(x) /\ IsFlow(c.flows[f]) /\ IsDefinition(c)
        /\ f \in DOMAIN c.flows /\ n \in DOMAIN c.flows[f].nodes
        /\ Resolved(c) => Resolves(c, c.flows[f], x)
    BY <2>1, NodeIn DEF NodeExists, IsSession
  <2>3. PICK y : y = [x EXCEPT !.who = callee]
    OBVIOUS
  <2>4. DOMAIN y = DOMAIN x /\ y.kind = x.kind /\ y.routes = x.routes /\ y.who = callee
    BY <2>2, <2>3 DEF IsNode
  <2>5. IsNode(y) /\ (Resolved(c) => Resolves(c, c.flows[f], y))
    BY <2>1, <2>2, <2>4 DEF IsNode, Resolves, NodeTargets
  <2>6. PICK w : w = [c.flows[f] EXCEPT !.nodes[n] = y]
    OBVIOUS
  <2>7. /\ DOMAIN w = DOMAIN c.flows[f] /\ w.start = c.flows[f].start /\ w.returns = c.flows[f].returns
        /\ DOMAIN w.nodes = DOMAIN c.flows[f].nodes
        /\ \A m \in DOMAIN w.nodes : w.nodes[m] = IF m = n THEN y ELSE c.flows[f].nodes[m]
    BY <2>2, <2>6 DEF IsFlow
  <2>8. IsFlow(w)
    BY <2>2, <2>5, <2>7 DEF IsFlow
  <2>9. \A v : Resolves(c, c.flows[f], v) => Resolves(c, w, v)
    BY <2>7 DEF Resolves, TargetDeclared
  <2>10. Resolved(c) => FlowResolves(c, w)
    BY <2>2, <2>5, <2>7, <2>9 DEF Resolved, FlowResolves
  <2>11. Follows(c, [c EXCEPT !.flows[f] = w])
    BY <2>2, <2>8, <2>10, FlowChanges
  <2>12. [c EXCEPT !.flows[f] = w] = [c EXCEPT !.flows[f].nodes[n].who = callee]
    BY <2>3, <2>6
  <2>13. Becomes(s, EditUnlessSame(s, [c EXCEPT !.flows[f].nodes[n].who = callee]).session)
    BY <2>11, <2>12, EditChanges
  <2> QED
    BY <2>13, NoChange DEF SetChildWorkflowId
<1> QED
  BY <1>1, <1>2

LEMMA ChildReturnSets ==
  ASSUME NEW s, IsSession(s), NEW f, NEW n, NEW name, NEW to, to = None \/ IsTarget(to)
  PROVE  Becomes(s, SetChildReturnTarget(s, f, n, name, to).session)
<1> DEFINE c == s.config
           flow == c.flows[f]
           routes == RoutesOf(s, f, n)
<1>1. CASE ~IsKind(s, f, n, "child")
  BY <1>1, NoChange DEF SetChildReturnTarget
<1>2. CASE IsKind(s, f, n, "child")
  <2>1. NodeExists(s, f, n)
    BY <1>2 DEF IsKind
  <2>2. /\ IsRoutes(routes)
        /\ Resolved(c) => \A r \in DOMAIN routes : TargetDeclared(flow, routes[r].to)
    BY <2>1, NodeIn
  <2> HIDE DEF routes
  <2>3. PICK less : less = Without(routes, name)
    OBVIOUS
  <2>4. DOMAIN less \subseteq DOMAIN routes /\ \A r \in DOMAIN less : less[r] = routes[r]
    BY <2>3 DEF Without
  <2>5. Becomes(s, Edited(s, SetRoutes(s, f, n, less)).session)
    <3>1. IsRoutes(less) /\ (Resolved(c) => \A r \in DOMAIN less : TargetDeclared(flow, less[r].to))
      BY <2>2, <2>4 DEF IsRoutes
    <3> QED
      BY <2>1, <3>1, RoutesSet
  <2>6. PICK more : more = With(routes, name, [crit |-> None, to |-> to])
    OBVIOUS
  <2>7. /\ DOMAIN more = DOMAIN routes \cup {name}
        /\ \A r \in DOMAIN more : more[r] = IF r = name THEN [crit |-> None, to |-> to] ELSE routes[r]
    BY <2>6 DEF With
  <2>8. ASSUME to # None, TargetOk(flow, to, n)
        PROVE  Becomes(s, EditUnlessSame(s, SetRoutes(s, f, n, more)).session)
    <3>1. IsRoutes(more)
      BY <2>2, <2>7, <2>8 DEF IsRoutes, IsTarget
    <3>2. Resolved(c) => \A r \in DOMAIN more : TargetDeclared(flow, more[r].to)
      BY <2>2, <2>7, <2>8, TargetIsDeclared
    <3> QED
      BY <2>1, <3>1, <3>2, RoutesSet
  <2> QED
    BY <2>3, <2>5, <2>6, <2>8, NoChange DEF SetChildReturnTarget, routes
<1> QED
  BY <1>1, <1>2

-----------------------------------------------------------------------------
(* The history.                                                            *)

\* What an undo or a redo brings back is a definition of the history.
InHistory(s, h) ==
  h.config \in {s.past[i].config : i \in DOMAIN s.past} \cup {s.future[i].config : i \in DOMAIN s.future}

LEMMA Undoes ==
  ASSUME NEW s, IsSession(s)
  PROVE  LET h == Undo(s).session IN IsSession(h) /\ (h.config = s.config \/ InHistory(s, h))
<1>1. CASE s.past = <<>>
  BY <1>1 DEF Undo, Refuse
<1>2. CASE s.past # <<>>
  <2>1. PICK entries : /\ s.past \in Seq(entries) /\ s.future \in Seq(entries)
                       /\ \A e \in entries : IsDefinition(e.config)
    BY DEF IsSession
  <2>2. PICK last : last = s.past[Len(s.past)]
    OBVIOUS
  <2>3. /\ last \in entries /\ IsDefinition(last.config) /\ Len(s.past) \in DOMAIN s.past
        /\ Len(s.past) \in Nat /\ Len(s.past) > 0
    BY <1>2, <2>1, <2>2
  <2>4. PICK e : e = Snapshot(s)
    OBVIOUS
  <2>5. IsDefinition(e.config)
    BY <2>4 DEF Snapshot, IsSession
  <2>6. PICK past, future : past = SubSeq(s.past, 1, Len(s.past) - 1) /\ future = Append(s.future, e)
    OBVIOUS
  <2>7. past \in Seq(entries) /\ future \in Seq(entries \cup {e})
    <3>1. past \in Seq(entries)
      BY <2>1, <2>3, <2>6, SubSeqProperties
    <3>2. s.future \in Seq(entries \cup {e})
      BY <2>1
    <3> QED
      BY <2>6, <3>1, <3>2
  <2>8. past \in Seq(entries \cup {e}) /\ \A x \in entries \cup {e} : IsDefinition(x.config)
    BY <2>1, <2>5, <2>7
  <2>9. PICK h : h = [Restored(s, last) EXCEPT !.past = Front(@), !.future = Append(@, e)]
    OBVIOUS
  <2>10. Restored(s, last).past = s.past /\ Restored(s, last).future = s.future
         /\ Restored(s, last).config = last.config /\ DOMAIN Restored(s, last) = DOMAIN s
    BY DEF Restored, IsSession
  <2>11. DOMAIN h = DOMAIN s /\ h.past = past /\ h.future = future /\ h.config = last.config
    BY <2>6, <2>9, <2>10 DEF Front, IsSession
  <2>12. IsSession(h)
    BY <2>3, <2>7, <2>8, <2>11 DEF IsSession
  <2>13. Undo(s).session = h
    BY <1>2, <2>2, <2>4, <2>9 DEF Undo, Done, Last
  <2> QED
    BY <2>2, <2>3, <2>11, <2>12, <2>13 DEF InHistory
<1> QED
  BY <1>1, <1>2

LEMMA Redoes ==
  ASSUME NEW s, IsSession(s)
  PROVE  LET h == Redo(s).session IN IsSession(h) /\ (h.config = s.config \/ InHistory(s, h))
<1>1. CASE s.future = <<>>
  BY <1>1 DEF Redo, Refuse
<1>2. CASE s.future # <<>>
  <2>1. PICK entries : /\ s.past \in Seq(entries) /\ s.future \in Seq(entries)
                       /\ \A e \in entries : IsDefinition(e.config)
    BY DEF IsSession
  <2>2. PICK last : last = s.future[Len(s.future)]
    OBVIOUS
  <2>3. /\ last \in entries /\ IsDefinition(last.config) /\ Len(s.future) \in DOMAIN s.future
        /\ Len(s.future) \in Nat /\ Len(s.future) > 0
    BY <1>2, <2>1, <2>2
  <2>4. PICK e : e = Snapshot(s)
    OBVIOUS
  <2>5. IsDefinition(e.config)
    BY <2>4 DEF Snapshot, IsSession
  <2>6. PICK past, future : future = SubSeq(s.future, 1, Len(s.future) - 1) /\ past = Append(s.past, e)
    OBVIOUS
  <2>7. future \in Seq(entries) /\ past \in Seq(entries \cup {e})
    <3>1. future \in Seq(entries)
      BY <2>1, <2>3, <2>6, SubSeqProperties
    <3>2. s.past \in Seq(entries \cup {e})
      BY <2>1
    <3> QED
      BY <2>6, <3>1, <3>2
  <2>8. future \in Seq(entries \cup {e}) /\ \A x \in entries \cup {e} : IsDefinition(x.config)
    BY <2>1, <2>5, <2>7
  <2>9. PICK h : h = [Restored(s, last) EXCEPT !.future = Front(@), !.past = Append(@, e)]
    OBVIOUS
  <2>10. Restored(s, last).past = s.past /\ Restored(s, last).future = s.future
         /\ Restored(s, last).config = last.config /\ DOMAIN Restored(s, last) = DOMAIN s
    BY DEF Restored, IsSession
  <2>11. DOMAIN h = DOMAIN s /\ h.past = past /\ h.future = future /\ h.config = last.config
    BY <2>6, <2>9, <2>10 DEF Front, IsSession
  <2>12. IsSession(h)
    BY <2>3, <2>7, <2>8, <2>11 DEF IsSession
  <2>13. Redo(s).session = h
    BY <1>2, <2>2, <2>4, <2>9 DEF Redo, Done, Last
  <2> QED
    BY <2>2, <2>3, <2>11, <2>12, <2>13 DEF InHistory
<1> QED
  BY <1>1, <1>2

-----------------------------------------------------------------------------
(* Every step.                                                             *)

\* What is typed and chosen names targets in the form of the definition.
LEMMA TargetsAreFormed ==
  ASSUME NEW f
  PROVE  /\ \A t \in Targets(f) : IsTarget(t)
         /\ \A t \in SomeTargets(f) : IsTarget(t)
BY DEF Targets, SomeTargets, IsTarget

LEMMA FormsAreFormed ==
  ASSUME NEW f
  PROVE  /\ \A x \in ActorForms(f) : IsTarget(x.to)
         /\ \A p \in RoutePatches(f) : p.to = None \/ IsTarget(p.to)
<1>1. IsTarget(<<"return", "done">>)
  BY DEF IsTarget
<1> DEFINE plain == [role |-> "manager", text |-> "w", checker |-> None, common |-> None, result |-> "ok",
                     crit |-> "w", to |-> <<"return", "done">>]
<1>2. /\ \A v : [plain EXCEPT !.role = v].to = plain.to
      /\ \A v : [plain EXCEPT !.text = v].to = plain.to
      /\ \A v : [plain EXCEPT !.common = v].to = plain.to
      /\ \A v : [plain EXCEPT !.crit = v].to = plain.to
      /\ \A v : [plain EXCEPT !.to = v].to = v
      /\ \A v : [plain EXCEPT !.checker = v].to = plain.to
  OBVIOUS
<1>3. plain.to = <<"return", "done">>
  OBVIOUS
<1>4. \A x \in ActorForms(f) : x.to = plain.to \/ x.to \in Targets(f)
  BY <1>2 DEF ActorForms
<1>5. \A p \in RoutePatches(f) : p.to = None \/ p.to \in Targets(f)
  BY DEF RoutePatches
<1> QED
  BY <1>1, <1>3, <1>4, <1>5, TargetsAreFormed

LEMMA ProgramFormsAreFormed ==
  ASSUME NEW f, NEW x \in ProgramForms(f), NEW r \in ProgramResults
  PROVE  DOMAIN x.routes[r] = {"crit", "to"} /\ IsTarget(x.routes[r].to)
<1>1. IsTarget(<<"return", "done">>)
  BY DEF IsTarget
<1> DEFINE fixed == [q \in ProgramResults |-> [crit |-> "w", to |-> <<"return", "done">>]]
           plain == [program |-> "initialize", text |-> None, config |-> None, routes |-> fixed]
<1>2. /\ \A v : [plain EXCEPT !.program = v].routes = fixed
      /\ \A v : [plain EXCEPT !.text = v].routes = fixed
      /\ \A v : [plain EXCEPT !.config = v].routes = fixed
      /\ \A q, v : [plain EXCEPT !.routes[q].crit = v].routes = [fixed EXCEPT ![q].crit = v]
      /\ \A q, v : [plain EXCEPT !.routes[q].to = v].routes = [fixed EXCEPT ![q].to = v]
  OBVIOUS
<1> DEFINE named == {[plain EXCEPT !.program = program] : program \in ProgramNames}
           told == {[plain EXCEPT !.text = word] : word \in Words}
           given == {[plain EXCEPT !.config = k :> v] : k \in ParamKeys, v \in ParamValues}
           judged == {[plain EXCEPT !.routes[q].crit = word] : q \in ProgramResults, word \in Words}
           routed == {[plain EXCEPT !.routes[q].to = to] : q \in ProgramResults, to \in Targets(f)}
<1>3. ProgramForms(f) = named \cup told \cup given \cup judged \cup routed
  BY DEF ProgramForms
<1>4. DOMAIN fixed = ProgramResults /\ \A q \in ProgramResults : fixed[q] = [crit |-> "w", to |-> <<"return", "done">>]
  OBVIOUS
<1>5. /\ \A y \in named : y.routes = fixed
      /\ \A y \in told : y.routes = fixed
      /\ \A y \in given : y.routes = fixed
  <2> HIDE DEF fixed
  <2> QED
    BY <1>2
<1>6. \A y \in judged : \E q \in ProgramResults, v \in Words : y.routes = [fixed EXCEPT ![q].crit = v]
  <2> HIDE DEF fixed
  <2> QED
    BY <1>2
<1>7. \A y \in routed : \E q \in ProgramResults, v \in Targets(f) : y.routes = [fixed EXCEPT ![q].to = v]
  <2> HIDE DEF fixed
  <2> QED
    BY <1>2
<1> HIDE DEF named, told, given, judged, routed, plain, fixed
<1>8. CASE x.routes = fixed
  BY <1>1, <1>4, <1>8
<1>9. CASE \E q \in ProgramResults, v \in Words : x.routes = [fixed EXCEPT ![q].crit = v]
  BY <1>1, <1>4, <1>9
<1>10. CASE \E q \in ProgramResults, v \in Targets(f) : x.routes = [fixed EXCEPT ![q].to = v]
  <2>1. PICK q \in ProgramResults, v \in Targets(f) : x.routes = [fixed EXCEPT ![q].to = v]
    BY <1>10
  <2>2. IsTarget(v)
    BY TargetsAreFormed
  <2>3. x.routes[r].to \in {<<"return", "done">>, v} /\ DOMAIN x.routes[r] = {"crit", "to"}
    BY <1>4, <2>1
  <2> QED
    BY <1>1, <2>2, <2>3
<1> QED
  BY <1>3, <1>5, <1>6, <1>7, <1>8, <1>9, <1>10

HostStepOk == Becomes(host, host') \/ (IsSession(host') /\ (host'.config = host.config \/ InHistory(host, host')))

LEMMA RolesStep ==
  ASSUME IsSession(host), RolesNext
  PROVE  Becomes(host, host')
<1>1. CASE \E word \in Words, clear \in BOOLEAN : Persona(word, clear)
  BY <1>1, PersonaAndJudgeEdits DEF Persona, Edit, Both
<1>2. CASE \/ \E word \in Words : JudgePersona(word)
           \/ \E m \in Models : JudgeModel(m) \/ JudgeFallback(m)
           \/ \E deny \in Denials : JudgeDeny(deny)
  BY <1>2, PersonaAndJudgeEdits DEF JudgePersona, JudgeModel, JudgeFallback, JudgeDeny, Edit, Both
<1>3. ASSUME NEW key,
             \/ \E r \in RoleForms : RoleAdded(key, r)
             \/ \E word \in Words : RolePersona(key, word)
             \/ \E m \in Models : RoleModel(key, m) \/ RoleFallback(key, m)
             \/ \E on \in BOOLEAN : RoleCompact(key, on)
             \/ \E reuse \in {"node", "continuable"} : RoleReuse(key, reuse)
             \/ \E deny \in Denials : RoleDeny(key, deny)
      PROVE  Becomes(host, host')
  BY <1>3, RoleEdits DEF RoleAdded, RolePersona, RoleModel, RoleFallback, RoleCompact, RoleReuse,
     RoleDeny, Edit, Both
<1>4. ASSUME NEW key, (\E new \in Names : RoleRenamed(key, new)) \/ RoleDeleted(key)
      PROVE  Becomes(host, host')
  BY <1>4, RoleRenames, RoleDeletes DEF RoleRenamed, RoleDeleted, Edit, Both
<1> QED
  BY <1>1, <1>2, <1>3, <1>4 DEF RolesNext

LEMMA RoutesStep ==
  ASSUME IsSession(host), RoutesNext
  PROVE  Becomes(host, host')
<1>1. PICK f \in Flows :
    \/ \E key \in Draggable(f), pos \in Spots : Moved(f, key, pos)
    \/ \E n \in Names, x \in ActorForms(f) : ActorAdded(f, n, x)
    \/ \E n \in Nodes(f) \cup Names :
         \/ \E p \in ActorPatches : ActorSet(f, n, p)
         \/ \E new \in Names : NodeRenamed(f, n, new)
         \/ NodeDeleted(f, n) \/ StartSet(f, n)
    \/ \E n \in Nodes(f) :
         \/ \E r \in Names, to \in Targets(f) : ResultAdded(f, n, r, "w", to)
         \/ \E r \in Names, word \in Words : ResultAdded(f, n, r, word, <<"return", "done">>)
         \/ \E r \in Results(f, n) :
              \/ \E p \in RoutePatches(f) : ResultSet(f, n, r, p)
              \/ \E new \in Names : ResultRenamed(f, n, r, new)
              \/ ResultDeleted(f, n, r)
    \/ \E r \in Names : ReturnAdded(f, r)
    \/ \E r \in Ends(f) : (\E new \in Names : ReturnRenamed(f, r, new)) \/ ReturnDeleted(f, r)
  BY DEF RoutesNext
<1>2. CASE \E key \in Draggable(f), pos \in Spots : Moved(f, key, pos)
  BY <1>2, PositionEdits DEF Moved, Edit, Both
<1>3. CASE \E n \in Names, x \in ActorForms(f) : ActorAdded(f, n, x)
  BY <1>3, FormsAreFormed, ActorAdds DEF ActorAdded, Edit, Both
<1>4. CASE \E n \in Nodes(f) \cup Names : \E p \in ActorPatches : ActorSet(f, n, p)
  BY <1>4, ActorSets DEF ActorSet, Edit, Both
<1>5. CASE \E n \in Nodes(f) \cup Names : \/ \E new \in Names : NodeRenamed(f, n, new)
                                          \/ NodeDeleted(f, n) \/ StartSet(f, n)
  BY <1>5, NodeRenames, NodeDeletes, StartSets DEF NodeRenamed, NodeDeleted, StartSet, Edit, Both
<1>6. CASE \E n \in Nodes(f) :
             \/ \E r \in Names, to \in Targets(f) : ResultAdded(f, n, r, "w", to)
             \/ \E r \in Names, word \in Words : ResultAdded(f, n, r, word, <<"return", "done">>)
  <2>1. PICK n, r, word, to : IsTarget(to) /\ ResultAdded(f, n, r, word, to)
    <3>1. IsTarget(<<"return", "done">>)
      BY DEF IsTarget
    <3> QED
      BY <1>6, <3>1, TargetsAreFormed
  <2> QED
    BY <2>1, ResultEdits DEF ResultAdded, Edit, Both
<1>7. CASE \E n \in Nodes(f) : \E r \in Results(f, n) :
             \/ \E p \in RoutePatches(f) : ResultSet(f, n, r, p)
             \/ \E new \in Names : ResultRenamed(f, n, r, new)
             \/ ResultDeleted(f, n, r)
  <2>1. PICK n, r : \/ \E p \in RoutePatches(f) : ResultSet(f, n, r, p)
                    \/ \E new \in Names : ResultRenamed(f, n, r, new)
                    \/ ResultDeleted(f, n, r)
    BY <1>7
  <2>2. CASE \E p \in RoutePatches(f) : ResultSet(f, n, r, p)
    <3>1. PICK p \in RoutePatches(f) : ResultSet(f, n, r, p)
      BY <2>2
    <3>2. host' = SetNodeResult(host, f, n, r, p).session
      BY <3>1 DEF ResultSet, Edit, Both
    <3>3. p.to = None \/ IsTarget(p.to)
      BY FormsAreFormed
    <3> QED
      BY <3>2, <3>3, ResultEdits DEF SetNodeResult
  <2>3. CASE (\E new \in Names : ResultRenamed(f, n, r, new)) \/ ResultDeleted(f, n, r)
    BY <2>3, ResultEdits DEF ResultRenamed, ResultDeleted, Edit, Both
  <2> QED
    BY <2>1, <2>2, <2>3
<1>8. CASE \E r \in Names : ReturnAdded(f, r)
  BY <1>8, ReturnAdds DEF ReturnAdded, Edit, Both
<1>9. CASE \E r \in Ends(f) : (\E new \in Names : ReturnRenamed(f, r, new)) \/ ReturnDeleted(f, r)
  BY <1>9, ReturnRenames, ReturnDeletes DEF ReturnRenamed, ReturnDeleted, Edit, Both
<1> QED
  BY <1>1, <1>2, <1>3, <1>4, <1>5, <1>6, <1>7, <1>8, <1>9

LEMMA ProgramsStep ==
  ASSUME IsSession(host), ProgramsNext
  PROVE  Becomes(host, host')
<1>1. PICK f \in Flows :
    \/ \E n \in Names, x \in ProgramForms(f) : ProgramAdded(f, n, x)
    \/ \E n \in Nodes(f) :
         \/ \E program \in ProgramNames : ProgramSet(f, n, [program |-> program, text |-> None])
         \/ \E word \in {Null} \cup Words : ProgramSet(f, n, [program |-> None, text |-> word])
         \/ \E key \in ParamKeys, value \in {None} \cup ParamValues : ParamSet(f, n, key, value)
         \/ \E r \in {"PASS", "FAIL", "OTHER"}, p \in RoutePatches(f) : ProgramResultSet(f, n, r, p)
  BY DEF ProgramsNext
<1>2. CASE \E n \in Names, x \in ProgramForms(f) : ProgramAdded(f, n, x)
  <2>1. PICK n \in Names, x \in ProgramForms(f) : ProgramAdded(f, n, x)
    BY <1>2
  <2>2. host' = AddProgramNode(host, f, n, x).session
    BY <2>1 DEF ProgramAdded, Edit, Both
  <2> QED
    BY <2>2, ProgramFormsAreFormed, ProgramAdds
<1>3. CASE \E n \in Nodes(f) :
             \/ \E program \in ProgramNames : ProgramSet(f, n, [program |-> program, text |-> None])
             \/ \E word \in {Null} \cup Words : ProgramSet(f, n, [program |-> None, text |-> word])
  <2>1. PICK n, p : ProgramSet(f, n, p)
    BY <1>3
  <2> QED
    BY <2>1, ProgramSets DEF ProgramSet, Edit, Both
<1>4. CASE \E n \in Nodes(f) : \E key \in ParamKeys, value \in {None} \cup ParamValues : ParamSet(f, n, key, value)
  BY <1>4, ParamSets DEF ParamSet, Edit, Both
<1>5. CASE \E n \in Nodes(f) : \E r \in {"PASS", "FAIL", "OTHER"}, p \in RoutePatches(f) : ProgramResultSet(f, n, r, p)
  <2>1. PICK n, r, p : p \in RoutePatches(f) /\ ProgramResultSet(f, n, r, p)
    BY <1>5
  <2>2. host' = SetProgramResult(host, f, n, r, p).session
    BY <2>1 DEF ProgramResultSet, Edit, Both
  <2>3. p.to = None \/ IsTarget(p.to)
    BY <2>1, FormsAreFormed
  <2> QED
    BY <2>2, <2>3, ResultEdits, NoChange DEF SetProgramResult
<1> QED
  BY <1>1, <1>2, <1>3, <1>4, <1>5

LEMMA SubflowsStep ==
  ASSUME IsSession(host), SubflowsNext
  PROVE  Becomes(host, host')
<1>1. CASE \E f \in Names : SubflowAdded(f)
  BY <1>1, SubflowAdds DEF SubflowAdded, Edit, Both
<1>2. ASSUME NEW f, (\E new \in Names : SubflowRenamed(f, new)) \/ SubflowDeleted(f)
      PROVE  Becomes(host, host')
  BY <1>2, SubflowRenames, SubflowDeletes DEF SubflowRenamed, SubflowDeleted, Edit, Both
<1>3. ASSUME NEW f, NEW r, (\E new \in Names : CalledReturnRenamed(f, r, new)) \/ CalledReturnDeleted(f, r)
      PROVE  Becomes(host, host')
  BY <1>3, ReturnRenames, ReturnDeletes DEF CalledReturnRenamed, CalledReturnDeleted, Edit, Both
<1>4. ASSUME NEW f, NEW n, NEW callee, NEW to \in SomeTargets(f), NEW names,
             ChildAdded(f, n, callee, [r \in names |-> to])
      PROVE  Becomes(host, host')
  <2>1. PICK targets : targets = [r \in names |-> to]
    OBVIOUS
  <2>2. \A r \in DOMAIN targets : IsTarget(targets[r])
    BY <2>1, TargetsAreFormed
  <2>3. host' = AddChildNode(host, f, n, callee, targets).session
    BY <1>4, <2>1 DEF ChildAdded, Edit, Both
  <2> QED
    BY <2>2, <2>3, ChildAdds
<1>5. ASSUME NEW f, NEW n, NEW callee, ChildSet(f, n, callee)
      PROVE  Becomes(host, host')
  BY <1>5, ChildSets DEF ChildSet, Edit, Both
<1>6. ASSUME NEW f, NEW n, NEW r, NEW to \in {None} \cup Targets(f), ChildReturnSet(f, n, r, to)
      PROVE  Becomes(host, host')
  <2>1. to = None \/ IsTarget(to)
    BY TargetsAreFormed
  <2>2. host' = SetChildReturnTarget(host, f, n, r, to).session
    BY <1>6 DEF ChildReturnSet, Edit, Both
  <2> QED
    BY <2>1, <2>2, ChildReturnSets
<1> QED
  BY <1>1, <1>2, <1>3, <1>4, <1>5, <1>6 DEF SubflowsNext

LEMMA HostStep ==
  ASSUME IsSession(host), EditsNext
  PROVE  HostStepOk
<1>1. CASE UndoBoth
  BY <1>1, Undoes DEF UndoBoth, Both, HostStepOk
<1>2. CASE RedoBoth
  BY <1>2, Redoes DEF RedoBoth, Both, HostStepOk
<1>3. CASE RolesNext \/ RoutesNext \/ ProgramsNext \/ SubflowsNext
  BY <1>3, RolesStep, RoutesStep, ProgramsStep, SubflowsStep DEF HostStepOk
<1> QED
  BY <1>1, <1>2, <1>3 DEF EditsNext

HostInv == part = "edits" => IsSession(host)

LEMMA OpenedSession ==
  ASSUME NEW file \in Files
  PROVE  LoadDraft(file.config, file.layout).ok => IsSession(LoadDraft(file.config, file.layout).session)
<1>1. IsDefinition(file.config)
  BY FilesAssumption
<1>2. PICK c : c = file.config
  OBVIOUS
<1>3. PICK d : d = Normalized(c)
  OBVIOUS
<1>4. /\ DOMAIN d = DOMAIN c /\ DOMAIN d.flows = DOMAIN c.flows
      /\ \A f \in DOMAIN c.flows : d.flows[f] = FlowOf(c.flows[f])
  BY <1>1, <1>2, <1>3, NormalizedParts DEF IsDefinition
<1>5. ASSUME NEW x, IsNode(x)
      PROVE  IsNode(NodeOf(x))
  <2> DEFINE routes == [r \in DOMAIN x.routes |-> RouteOf(x.routes[r])]
  <2>1. /\ DOMAIN routes = DOMAIN x.routes
        /\ \A r \in DOMAIN x.routes : DOMAIN routes[r] = DOMAIN x.routes[r] /\ routes[r].to = x.routes[r].to
    BY <1>5 DEF IsNode, IsRoutes, RouteOf
  <2>2. DOMAIN NodeOf(x) = DOMAIN x /\ NodeOf(x).routes = routes
    BY <1>5 DEF NodeOf, IsNode
  <2> HIDE DEF routes
  <2> QED
    BY <1>5, <2>1, <2>2 DEF IsNode, IsRoutes
<1>6. ASSUME NEW w, IsFlow(w)
      PROVE  IsFlow(FlowOf(w))
  <2>1. /\ DOMAIN FlowOf(w) = DOMAIN w /\ DOMAIN FlowOf(w).nodes = DOMAIN w.nodes
        /\ \A n \in DOMAIN w.nodes : FlowOf(w).nodes[n] = NodeOf(w.nodes[n])
    BY <1>6 DEF FlowOf, IsFlow
  <2> QED
    BY <1>5, <1>6, <2>1 DEF IsFlow
<1>7. IsDefinition(d)
  BY <1>1, <1>2, <1>4, <1>6 DEF IsDefinition
<1>8. <<>> \in Seq({})
  OBVIOUS
<1>9. ASSUME NEW layout
      PROVE  IsSession(NewSession(d, layout))
  <2>1. PICK s : s = NewSession(d, layout)
    OBVIOUS
  <2>2. /\ DOMAIN s = {"config", "layout", "dirtyBusiness", "dirtyLayout", "past", "future"}
        /\ s.config = d /\ s.past = <<>> /\ s.future = <<>>
    BY <2>1 DEF NewSession
  <2>3. \A e \in {} : IsDefinition(e.config)
    OBVIOUS
  <2> QED
    BY <1>7, <1>8, <2>1, <2>2, <2>3 DEF IsSession
<1> QED
  BY <1>2, <1>3, <1>9 DEF LoadDraft, Done, Refuse

\* Whatever is edited, and in whatever order: no addition, change or rename
\* leaves a reference to what is not there.  Only a deletion does, or going
\* back to a definition of the history that had one.
THEOREM ReferencesStay == Spec => OnlyDeletionsDangle
<1>1. Init => HostInv
  BY OpenedSession DEF Init, EditsInit, HostInv
<1>2. HostInv /\ [Next]_editorVars => HostInv'
  <2> SUFFICES ASSUME HostInv, [Next]_editorVars
               PROVE  HostInv'
    OBVIOUS
  <2>1. CASE part = "edits" /\ EditsNext /\ UNCHANGED part
    BY <2>1, HostStep DEF HostInv, HostStepOk, Becomes
  <2>2. CASE UNCHANGED <<part, host>>
    BY <2>2 DEF HostInv
  <2> QED
    BY <2>1, <2>2 DEF Next, editorVars, editVars, HostInv
<1>3. HostInv /\ [Next]_editorVars
        => [host # None /\ Dangling(host.config) = {} /\ ~Loses(host.config, host'.config)
            /\ host'.config \notin {host.past[i].config : i \in DOMAIN host.past}
                                     \cup {host.future[i].config : i \in DOMAIN host.future}
              => Dangling(host'.config) = {}]_editVars
  <2> SUFFICES ASSUME HostInv, part = "edits", EditsNext, Dangling(host.config) = {},
                      ~Loses(host.config, host'.config),
                      host'.config \notin {host.past[i].config : i \in DOMAIN host.past}
                                            \cup {host.future[i].config : i \in DOMAIN host.future}
               PROVE  Dangling(host'.config) = {}
    BY DEF Next, editorVars
  <2>1. HostStepOk
    BY HostStep DEF HostInv
  <2>2. Follows(host.config, host'.config) \/ host'.config = host.config
    BY <2>1 DEF HostStepOk, Becomes, InHistory
  <2> QED
    BY <2>2, NothingDangles DEF Follows
<1> QED
  BY <1>1, <1>2, <1>3, PTL DEF Spec, OnlyDeletionsDangle
=============================================================================
