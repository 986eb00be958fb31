----------------------------- MODULE FileSelection -----------------------------
(***************************************************************************)
(* What is to be sent: the selection of store/sender-store.ts and          *)
(* hooks/useSender.ts, fed by the dialogs and drops of                     *)
(* hooks/useDragDrop.ts, lib/web-drag-drop.ts and the launch intent of     *)
(* routes/index.tsx, and shown by Dropzone.tsx with the media type of each *)
(* item.                                                                   *)
(*                                                                         *)
(* The type of a path and the media types come back from the engine, which *)
(* is external, in any order.                                              *)
(***************************************************************************)
EXTENDS Naturals, Sequences, FiniteSets, SequencesExt

CONSTANTS
  Files, Dirs,  \* paths the user can choose
  Webs,         \* the platforms looked at: IS_WEB or not
  None,         \* null
  MaxCalls      \* bound: questions to the engine in a behaviour

Paths == Files \cup Dirs
KindOf(p) == IF p \in Dirs THEN "directory" ELSE "file"
Typed(p) == p \in Files        \* external: the engine knows a media type

VARIABLES
  web,     \* IS_WEB
  sel,     \* selectedPaths
  kind,    \* pathType of the store
  label,   \* pathType of useDragDrop, what the drop zone says
  checks,  \* check_path_type calls under way
  mimes,   \* mimeTypesByPath, as the set of its keys
  asks,    \* get_paths_mime_types calls under way, and whether still mounted
  failed,  \* the last answered call for media types failed
  depth,   \* webDragDepthRef
  active,  \* isDragActive
  at,      \* external: what the pointer drags a file over
  left,    \* external: dragleave events the browser still owes
  drops,   \* drops whose entries are being read
  calls    \* bound: calls so far

selection == <<sel, kind, label, checks, mimes, asks, failed, calls>>
drag == <<depth, active, at, left>>
vars == <<web, selection, drag, drops>>

Init ==
  /\ web \in Webs
  /\ sel = <<>>
  /\ kind = None
  /\ label = None
  /\ checks = {}
  /\ mimes = {}
  /\ asks = {}
  /\ failed = FALSE
  /\ depth = 0
  /\ active = FALSE
  /\ at = "out"
  /\ left = 0
  /\ drops = {}
  /\ calls = 0

------------------------------------------------------------------------------
(* The selection                                                            *)

\* Mutant of AddSelectedPaths: a path is added again.
AddSelectedPaths_Twice(s, chosen) == s \o SetToSeq(chosen)

\* addSelectedPaths: what is new among the chosen paths at the end, none twice.
AddSelectedPaths(s, chosen) == s \o SetToSeq(chosen \ ToSet(s))

\* The questions the page asks on a change of the selection: the type of the
\* first item when it is another one (DragDrop's effect), the type for the
\* store, the media types of all.
First(s) == IF s = <<>> THEN None ELSE s[1]
Checks(new, forStore) ==
  (IF First(new) \notin {None, First(sel)} THEN {[to |-> "label", path |-> First(new), n |-> calls]} ELSE {})
  \cup (IF forStore = None THEN {} ELSE {[to |-> "store", path |-> forStore, n |-> calls]})

\* A new selection, and the effects of Dropzone and DragDrop that follow it.
Select(new, newKind, forStore) ==
  /\ calls < MaxCalls
  /\ calls' = calls + 1
  /\ sel' = new
  /\ kind' = newKind
  /\ checks' = checks \cup Checks(new, forStore)
  /\ mimes' = IF new = <<>> THEN {} ELSE mimes
  /\ asks' = {[a EXCEPT !.mounted = FALSE] : a \in asks}
               \cup IF new = <<>> THEN {} ELSE {[paths |-> new, mounted |-> TRUE, n |-> calls]}
  /\ failed' = (failed /\ new # <<>>)
  /\ UNCHANGED label

\* handleFilesSelect: the kind is told, known, or asked for of the one path.
HandleFilesSelect(chosen, told) ==
  LET new == AddSelectedPaths(sel, chosen) IN
  IF Len(new) > 1 THEN Select(new, None, None)
  ELSE IF told # None THEN Select(new, told, None)
  ELSE Select(new, kind, IF kind = None THEN First(new) ELSE None)

\* browseFile and browseFolder on a desktop or in a browser.
BrowseFile(fs) ==
  /\ HandleFilesSelect(fs, "file")
  /\ UNCHANGED <<web, drag, drops>>

BrowseFolder(d) ==
  /\ HandleFilesSelect({d}, "directory")
  /\ UNCHANGED <<web, drag, drops>>

\* applyIntent: the launch intent replaces the selection and asks for its kind.
ApplyIntent(p) ==
  /\ ~web
  /\ Select(<<p>>, kind, p)
  /\ UNCHANGED <<web, drag, drops>>

\* removeSelectedPath filters the one place the path has (TypeOK: none is selected
\* twice) and asks for the kind of the last one left.
RemoveSelectedPath(i) ==
  /\ i \in DOMAIN sel
  /\ LET rest == RemoveAt(sel, i) IN
       IF Len(rest) = 1 THEN Select(rest, kind, First(rest))
       ELSE Select(rest, None, None)
  /\ UNCHANGED <<web, drag, drops>>

ClearSelectedPath ==
  /\ sel # <<>>
  /\ Select(<<>>, None, None)
  /\ UNCHANGED <<web, drag, drops>>

\* The answer to check_path_type sets the kind whatever is selected by now.
CheckAnswer(c, ok) ==
  /\ c \in checks
  /\ checks' = checks \ {c}
  /\ LET k == IF ok THEN KindOf(c.path) ELSE None IN
       IF c.to = "label" THEN label' = k /\ UNCHANGED kind ELSE kind' = k /\ UNCHANGED label
  /\ UNCHANGED <<web, sel, mimes, asks, failed, calls, drag, drops>>

\* Mutant of MimeAnswer: the answer is taken even after the effect was cleaned up.
MimeAnswer_Any(a, ok) ==
  /\ a \in asks
  /\ asks' = asks \ {a}
  /\ IF ok THEN mimes' = {p \in ToSet(a.paths) : Typed(p)} /\ failed' = FALSE
     ELSE failed' = (failed \/ a.mounted) /\ UNCHANGED mimes
  /\ UNCHANGED <<web, sel, kind, label, checks, calls, drag, drops>>

\* The answer to get_paths_mime_types.  A failure leaves the map alone.
MimeAnswer(a, ok) ==
  /\ a \in asks
  /\ asks' = asks \ {a}
  /\ IF ~a.mounted THEN UNCHANGED <<mimes, failed>>
     ELSE IF ok THEN mimes' = {p \in ToSet(a.paths) : Typed(p)} /\ failed' = FALSE
     ELSE failed' = TRUE /\ UNCHANGED mimes
  /\ UNCHANGED <<web, sel, kind, label, checks, calls, drag, drops>>

------------------------------------------------------------------------------
(* Drag and drop in a browser, over the zone and an element inside it       *)

Places == {"out", "zone", "child"}

\* handleWebDragEnter, and the leave the browser sends next for the old place.
HandleWebDragEnter(to) ==
  /\ web /\ left = 0
  /\ to # "out" /\ at # to
  /\ at' = to
  /\ left' = IF at = "out" THEN 0 ELSE 1
  /\ depth' = depth + 1
  /\ active' = TRUE
  /\ UNCHANGED <<web, selection, drops>>

\* Mutant of HandleWebDragLeave: any leave ends the highlight.
HandleWebDragLeave_NoDepth ==
  /\ web /\ (left = 1 \/ at # "out")
  /\ IF left = 1 THEN left' = 0 /\ UNCHANGED at ELSE at' = "out" /\ UNCHANGED left
  /\ depth' = 0
  /\ active' = FALSE
  /\ UNCHANGED <<web, selection, drops>>

\* handleWebDragLeave, for the place the pointer came from or on leaving.
HandleWebDragLeave ==
  /\ web /\ (left = 1 \/ at # "out")
  /\ IF left = 1 THEN left' = 0 /\ UNCHANGED at ELSE at' = "out" /\ UNCHANGED left
  /\ depth' = IF depth = 0 THEN 0 ELSE depth - 1
  /\ active' = (active /\ depth' # 0)
  /\ UNCHANGED <<web, selection, drops>>

\* handleWebDrop: the entries are read before anything is selected.
HandleWebDrop(paths) ==
  /\ web /\ at # "out" /\ left = 0 /\ paths # {}
  /\ drops = {}   \* bound: one drop at a time
  /\ at' = "out"
  /\ depth' = 0
  /\ active' = FALSE
  /\ drops' = drops \cup {paths}
  /\ UNCHANGED <<web, selection, left>>

\* resolvePathType: one kind only if all that was dropped is of it.
ResolvePathType(paths) ==
  LET hasDirectory == paths \cap Dirs # {}
      hasFile == paths \cap Files # {}
  IN  IF hasDirectory /\ ~hasFile THEN "directory"
      ELSE IF Cardinality(paths) = 1 /\ hasFile THEN "file"
      ELSE None

\* processWebDataTransfer has read every entry, or failed and nothing is chosen.
DropRead(paths, ok) ==
  /\ paths \in drops
  /\ drops' = drops \ {paths}
  /\ IF ok THEN HandleFilesSelect(paths, ResolvePathType(paths))
     ELSE UNCHANGED selection
  /\ UNCHANGED <<web, drag>>

------------------------------------------------------------------------------
(* Drag and drop on a desktop: tauri://drag-leave and drag-drop.  The page   *)
(* also listens to tauri://drag-hover, which Tauri 2 does not emit: it tells *)
(* of a pointer that comes by drag-enter and drag-over, which no one hears.  *)

\* External: the pointer comes with a file; the zone is not highlighted.
DragEnter ==
  /\ ~web /\ at = "out"
  /\ at' = "zone"
  /\ UNCHANGED <<web, selection, depth, active, left, drops>>

DragLeave ==
  /\ ~web /\ at # "out"
  /\ at' = "out"
  /\ active' = FALSE
  /\ UNCHANGED <<web, selection, depth, left, drops>>

DragDropped(paths) ==
  /\ ~web /\ at # "out" /\ paths # {}
  /\ at' = "out"
  /\ active' = FALSE
  /\ HandleFilesSelect(paths, None)
  /\ UNCHANGED <<web, depth, left, drops>>

------------------------------------------------------------------------------
Choose ==
  \/ \E fs \in SUBSET Files : fs # {} /\ BrowseFile(fs)
  \/ \E d \in Dirs : BrowseFolder(d)
  \/ \E p \in Paths : ApplyIntent(p)
  \/ \E i \in DOMAIN sel : RemoveSelectedPath(i)
  \/ ClearSelectedPath

Answers ==
  \/ \E c \in checks, ok \in BOOLEAN : CheckAnswer(c, ok)
  \/ \E a \in asks, ok \in BOOLEAN : MimeAnswer(a, ok)
  \/ \E ps \in drops, ok \in BOOLEAN : DropRead(ps, ok)

Drag ==
  \/ \E to \in Places : HandleWebDragEnter(to)
  \/ HandleWebDragLeave
  \/ \E ps \in SUBSET Paths : HandleWebDrop(ps)
  \/ DragEnter \/ DragLeave
  \/ \E ps \in SUBSET Paths : DragDropped(ps)

Next == Choose \/ Answers \/ Drag

Spec == Init /\ [][Next]_vars

------------------------------------------------------------------------------
(* Properties                                                               *)

Call == [to : {"label", "store"}, path : Paths, n : 0..MaxCalls]
Kinds == {None, "file", "directory"}

\* Every state is one of its type, and a path is selected at most once
\* (addSelectedPaths' Set).
TypeOK ==
  /\ web \in Webs
  /\ sel \in Seq(Paths) /\ IsInjective(sel)
  /\ kind \in Kinds /\ label \in Kinds
  /\ checks \subseteq Call
  /\ mimes \subseteq Paths /\ failed \in BOOLEAN
  /\ \A a \in asks : a.paths \in Seq(Paths) /\ a.mounted \in BOOLEAN
  /\ depth \in Nat /\ active \in BOOLEAN
  /\ at \in Places /\ left \in 0..1
  /\ drops \subseteq SUBSET Paths
  /\ calls \in 0..MaxCalls

\* Once the media types of the selection have been answered, the map holds
\* those of the selection as it is, whatever older answers came in between and
\* in whatever order (Dropzone's mounted flag).
MimesMatchSelection ==
  (~failed /\ \A a \in asks : ~a.mounted) => mimes = {p \in ToSet(sel) : Typed(p)}

\* In a browser the zone is highlighted exactly while a file is dragged over it, also
\* when the pointer moves onto an element inside it and back (webDragDepthRef).
HighlightFollowsPointer == web /\ left = 0 => (active <=> at # "out")
===============================================================================
