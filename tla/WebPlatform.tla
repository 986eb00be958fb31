------------------------------ MODULE WebPlatform ------------------------------
(***************************************************************************)
(* The application in a browser: lib/platform-api.ts stands in for the     *)
(* native commands, with the files the user has handed over in             *)
(* lib/web-file-store.ts, the payload of a share in lib/web-send-items.ts  *)
(* and lib/web-send-metadata.ts and the engine loaded on demand by         *)
(* lib/wasm-bridge-client.ts.                                              *)
(*                                                                         *)
(* A path is a sequence of names; what the user hands over is a file or a  *)
(* folder at the top.  Reading a file is an await, so a drop may register  *)
(* files between two of them.                                              *)
(***************************************************************************)
EXTENDS Naturals, Sequences, FiniteSets, SequencesExt

CONSTANTS
  Names,      \* of files and folders at the top
  Inner,      \* names inside a folder
  MaxPicks,   \* bound: files and folders handed over
  MaxSends    \* bound: shares started

VARIABLES
  files,    \* keys of filesByPath
  dirs,     \* directoryPaths
  sel,      \* selectedPaths
  reading,  \* folders dropped whose entries are being read
  bridge,   \* initPromise: "none", "loading" or "ready"
  send,     \* the send_items call: where it is, its paths, what it has read
  ticket,   \* currentTicket # null
  shares,   \* external: the engine shares something
  used      \* bounds: picks and sends so far

store == <<files, dirs, sel, reading>>
engine == <<bridge, send, ticket, shares>>
vars == <<store, engine, used>>

Top == {<<n>> : n \in Names}
Under(p) == {p \o <<x>> : x \in Inner}
Paths == Top \cup UNION {Under(p) : p \in Top}

NoSend == [at |-> "idle", paths |-> <<>>, todo |-> <<>>, names |-> <<>>, about |-> <<>>]

Init ==
  /\ files = {} /\ dirs = {} /\ sel = <<>> /\ reading = {}
  /\ bridge = "none" /\ send = NoSend /\ ticket = FALSE /\ shares = FALSE
  /\ used = [picks |-> 0, sends |-> 0]

------------------------------------------------------------------------------
(* Files handed over                                                        *)

Pick == used.picks < MaxPicks /\ used' = [used EXCEPT !.picks = @ + 1]
Add(p) == sel' = IF p \in ToSet(sel) THEN sel ELSE Append(sel, p)

\* registerWebFile, and registerWebDirectory: a path is one or the other.
RegisterWebFiles(ps) == files' = files \cup ps /\ dirs' = dirs \ ps
RegisterWebDirectory(p) == dirs' = dirs \cup {p} /\ files' = files \ {p}

\* pickPathsInBrowser or a drop of one file.
PickFile(p) ==
  /\ Pick
  /\ RegisterWebFiles({p})
  /\ Add(p)
  /\ UNCHANGED <<reading, engine>>

\* Mutant of PickFolder: the folder itself is not registered.
PickFolder_FilesOnly(p, inside) ==
  /\ Pick
  /\ inside # {}
  /\ files' = (files \cup inside) \ {p}
  /\ Add(p)
  /\ UNCHANGED <<dirs, reading, engine>>

\* pickPathsInBrowser with a folder: its files, then the folder.
PickFolder(p, inside) ==
  /\ Pick
  /\ inside # {}
  /\ files' = (files \cup inside) \ {p}
  /\ dirs' = dirs \cup {p}
  /\ Add(p)
  /\ UNCHANGED <<reading, engine>>

\* processWebDataTransfer: the folder is registered at once, its files and the
\* selection when its entries have been read, or never.
DropFolder(p) ==
  /\ Pick
  /\ reading = {}   \* bound
  /\ RegisterWebDirectory(p)
  /\ reading' = {p}
  /\ UNCHANGED <<sel, engine>>

FolderRead(p, inside, ok) ==
  /\ p \in reading
  /\ reading' = {}
  /\ IF ok THEN RegisterWebFiles(inside) /\ Add(p) ELSE UNCHANGED <<files, dirs, sel>>
  /\ UNCHANGED <<engine, used>>

\* removeSelectedPath filters the one place the path has.
RemoveSelectedPath(i) ==
  /\ sel' = RemoveAt(sel, i)
  /\ UNCHANGED <<files, dirs, reading, engine, used>>

------------------------------------------------------------------------------
(* The engine and a share                                                   *)

\* ensureWasmBridge: one load serves everybody who waits for it.
LoadBridge == bridge' = IF bridge = "none" THEN "loading" ELSE bridge

\* invoke('send_items'): the engine is loaded first.
SendItems ==
  /\ send.at = "idle" /\ sel # <<>> /\ ~ticket
  /\ used.sends < MaxSends
  /\ used' = [used EXCEPT !.sends = @ + 1]
  /\ send' = [NoSend EXCEPT !.at = "init", !.paths = sel, !.todo = sel]
  /\ LoadBridge
  /\ UNCHANGED <<store, ticket, shares>>

\* Mutant of BridgeLoaded: a failed load stays in initPromise.
BridgeLoaded_Kept(ok) ==
  /\ bridge = "loading"
  /\ IF ok THEN bridge' = "ready" /\ UNCHANGED send
     ELSE bridge' = "failed" /\ send' = NoSend
  /\ UNCHANGED <<store, ticket, shares, used>>

\* loadWasmBridge ends.  A failure is told to whoever waits and forgotten.
BridgeLoaded(ok) ==
  /\ bridge = "loading"
  /\ IF ok THEN bridge' = "ready" /\ UNCHANGED send
     ELSE bridge' = "none" /\ send' = NoSend
  /\ UNCHANGED <<store, ticket, shares, used>>

\* What one selected path gives: itself, or the files under a folder.
Entries(p) == IF p \in dirs THEN {q \in files : q = p \/ q \in Under(p)}
              ELSE {p} \cap files

\* buildPreviewItems: one item for every path that is still known.
BuildPreviewItems(paths) == {i \in DOMAIN paths : paths[i] \in files \cup dirs}

\* totalSizeForPaths; every file counts for one.
TotalSizeForPaths(paths) == FoldLeft(LAMBDA n, p : n + Cardinality(Entries(p)), 0, paths)

\* buildWebSendMetadataForPaths: what the receiver is shown before it accepts, or
\* <<>> where it throws: the only path is no longer known.
BuildWebSendMetadata(paths) ==
  LET of == IF Len(paths) > 1 THEN "collection"
            ELSE IF paths[1] \in dirs THEN "directory" ELSE "file"
      count == IF Len(paths) > 1 THEN Cardinality(BuildPreviewItems(paths)) ELSE 1
  IN  IF of = "file" /\ paths[1] \notin files THEN <<>>
      ELSE <<[type |-> of, item_count |-> count, size |-> TotalSizeForPaths(paths)]>>

\* The end of collectWebSendPayload: the metadata is that of the store by now.
Describe ==
  LET about == BuildWebSendMetadata(send.paths) IN
  send' = IF about = <<>> THEN NoSend ELSE [send EXCEPT !.at = "engine", !.about = about]

\* Mutant of Collect: a path with nothing behind it is passed over.
Collect_Skips ==
  /\ send.at \in {"init", "read"} /\ bridge = "ready"
  /\ IF send.todo = <<>> THEN Describe
     ELSE send' = [send EXCEPT !.at = "read", !.todo = Tail(@),
                                !.names = @ \o SetToSeq(Entries(Head(send.todo)))]
  /\ UNCHANGED <<store, bridge, ticket, shares, used>>

\* collectWebSendPayload, one path at a time.  A path with nothing behind it
\* ends the call with an error.
Collect ==
  /\ send.at \in {"init", "read"} /\ bridge = "ready"
  /\ IF send.todo = <<>> THEN Describe
     ELSE LET found == Entries(Head(send.todo)) IN
          send' = IF found = {} THEN NoSend
                  ELSE [send EXCEPT !.at = "read", !.todo = Tail(@),
                                    !.names = @ \o SetToSeq(found)]
  /\ UNCHANGED <<store, bridge, ticket, shares, used>>

\* wasmSendItems: the engine shares, and the ticket is kept; or it fails.
EngineAnswers(ok) ==
  /\ send.at = "engine"
  /\ send' = NoSend
  /\ ticket' = (ticket \/ ok)
  /\ shares' = (shares \/ ok)
  /\ UNCHANGED <<store, bridge, used>>

\* wasmStopSharing.
StopSharing ==
  /\ ticket
  /\ ticket' = FALSE
  /\ shares' = FALSE
  /\ UNCHANGED <<store, bridge, send, used>>

------------------------------------------------------------------------------
User ==
  \/ \E p \in Top : PickFile(p)
  \/ \E p \in Top : \E inside \in SUBSET Under(p) : PickFolder(p, inside)
  \/ \E p \in Top : DropFolder(p)
  \/ \E i \in DOMAIN sel : RemoveSelectedPath(i)
  \/ SendItems
  \/ StopSharing

Page ==
  \/ \E ok \in BOOLEAN : BridgeLoaded(ok)
  \/ Collect
  \/ \E ok \in BOOLEAN : EngineAnswers(ok)

Reads == \E p \in reading, ok \in BOOLEAN : \E inside \in SUBSET Under(p) : FolderRead(p, inside, ok)

Next == User \/ Page \/ Reads

Spec == Init /\ [][Next]_vars

\* The engine is loaded or not, and answers.
FairSpec == Spec /\ WF_vars(Page)

------------------------------------------------------------------------------
(* Properties                                                               *)

\* Whatever is handed over after it, and whatever is still being read, a
\* selected path stays known as a file or as a folder: getWebFile and
\* isWebDirectory answer for it (web-file-store.ts has no path of its own).
SelectedIsKnown == \A p \in ToSet(sel) : p \in files \cup dirs

\* What is handed to the engine holds something for every path that was
\* selected when the share began, and nothing twice, also when files were
\* registered while the payload was being read (collectWebSendPayload); the
\* metadata, made from the store of that moment, still counts every path that was
\* selected (buildWebSendMetadataForPaths).
PayloadIsComplete ==
  send.at = "engine" =>
    /\ send.about[1].item_count = Len(send.paths)
    /\ \A p \in ToSet(send.paths) : \E q \in ToSet(send.names) : IsPrefix(p, q)
    /\ IsInjective(send.names)

\* A share that was begun ends, also when the engine cannot be loaded.
SendEnds == send.at # "idle" ~> send.at = "idle"
===============================================================================
