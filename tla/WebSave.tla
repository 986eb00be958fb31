-------------------------------- MODULE WebSave --------------------------------
(***************************************************************************)
(* Where a browser puts what it received: lib/web-save-location.ts writes  *)
(* into the folder the user has chosen, under names that are still free,   *)
(* or hands the browser one download, a ZIP archive (lib/web-zip.ts) when  *)
(* there are several files.  receive_file of lib/platform-api.ts gets the  *)
(* files from the engine before, and announces them after.                 *)
(*                                                                         *)
(* Receives run side by side: the page that is reset asks for              *)
(* cancel_receive, which the web build does not handle, so that the        *)
(* receive goes on while the page asks for the next one.                   *)
(*                                                                         *)
(* A name is a sequence: its text, then the numbers added to it, so that   *)
(* "a (1)" is <<"a", 1>> whether it was received or made up.  The contents *)
(* of a file is the receive and the file of it that it came from.          *)
(***************************************************************************)
EXTENDS Naturals, Sequences, SequencesExt

CONSTANTS
  Receives,   \* bound: calls of receive_file, numbered from 1
  Texts,      \* texts of names
  Nested,     \* those with a folder in front
  Sizes,      \* sizes of files
  MaxFiles,   \* bound: files in all collections together
  MaxIndex,   \* the 10_000 of resolveWritableFileName
  Field32     \* what a 32-bit field of an archive can hold

Nothing == <<>>
Mine == <<0, 0>>   \* contents of a file the user already had

Names == {<<t>> : t \in Texts} \cup {<<t, 1>> : t \in Texts}
File == [name : Names, size : Sizes]

VARIABLES
  handle,   \* cachedDirHandle # null
  folder,   \* external: contents of the chosen folder, by name
  met,      \* history: receives that were writing while another one was
            \* by receive:
  files,    \* the collection to write
  at,       \* where receive_file is
  next,     \* index of the file to write
  target,   \* the name found free for it
  conflicts,\* names that were changed, with the new ones
  zip,      \* the archive handed to the browser
  told      \* events dispatched to the page, in order

vars == <<handle, folder, met, files, at, next, target, conflicts, zip, told>>

\* The user's folder holds something already.
Init ==
  /\ handle \in BOOLEAN
  /\ folder \in {[n \in s |-> Mine] : s \in SUBSET {<<t>> : t \in Texts}}
  /\ met = {}
  /\ files = [r \in Receives |-> <<>>]
  /\ at = [r \in Receives |-> "idle"]
  /\ next = [r \in Receives |-> 1]
  /\ target = [r \in Receives |-> Nothing]
  /\ conflicts = [r \in Receives |-> {}]
  /\ zip = [r \in Receives |-> <<>>]
  /\ told = [r \in Receives |-> <<>>]

------------------------------------------------------------------------------
(* Archives                                                                 *)

Field(v) == v % Field32

\* Bytes a chunk takes.  The length of a name stands for its bytes.
Bytes(c) ==
  CASE c.is = "local" -> 30 + Len(c.name)
    [] c.is = "data" -> c.size
    [] c.is = "central" -> 46 + Len(c.name)
    [] c.is = "end" -> 22

\* Bytes of the chunks before the one at i.
Before(chunks, i) ==
  FoldLeft(LAMBDA sum, bytes : sum + bytes, 0, [k \in 1..(i - 1) |-> Bytes(chunks[k])])
Total(chunks) == Before(chunks, Len(chunks) + 1)

\* buildLocalFileHeader and the bytes, entry after entry.
LocalChunks(entries) ==
  FlattenSeq([i \in DOMAIN entries |->
    << [is |-> "local", name |-> entries[i].name, size |-> Field(entries[i].size)],
       [is |-> "data", of |-> i, size |-> entries[i].size] >>])

\* Mutant of CentralChunks: the offset of the bytes, not of their header.
CentralChunks_Data(entries, local) ==
  [i \in DOMAIN entries |->
     [is |-> "central", name |-> entries[i].name, size |-> Field(entries[i].size),
      offset |-> Field(Before(local, 2 * i))]]

\* buildCentralDirectoryHeader: each entry with the place of its local header.
CentralChunks(entries, local) ==
  [i \in DOMAIN entries |->
     [is |-> "central", name |-> entries[i].name, size |-> Field(entries[i].size),
      offset |-> Field(Before(local, 2 * i - 1))]]

EndChunk(entries, local, central) ==
  [is |-> "end", count |-> Len(entries), size |-> Field(Total(central)), offset |-> Field(Total(local))]

CreateStoreOnlyZip(entries) ==
  LET local == LocalChunks(entries)
      central == CentralChunks(entries, local)
  IN  local \o central \o <<EndChunk(entries, local, central)>>

\* How a reader of the format finds the entries: from the end record to the
\* directory, and from each line of it to a header followed by the bytes.
ChunkAt(archive, offset) ==
  {i \in DOMAIN archive : Before(archive, i) = offset /\ Bytes(archive[i]) > 0}

Readable(archive, entries) ==
  LET end == archive[Len(archive)]
      start == ChunkAt(archive, end.offset)
  IN  /\ end.count = Len(entries)
      /\ \E s \in start : \A k \in 1..end.count :
           LET line == archive[s + k - 1] IN
             /\ line.is = "central"
             /\ \E h \in ChunkAt(archive, line.offset) :
                  /\ archive[h].is = "local" /\ archive[h].name = line.name
                  /\ archive[h + 1].is = "data" /\ archive[h + 1].of = k
                  /\ archive[h + 1].size = line.size

------------------------------------------------------------------------------
(* Writing                                                                  *)

ResolveConflictName(n, index) == Append(n, index)

\* The folder with a file written under name n.
Written(n, contents) ==
  [m \in DOMAIN folder \cup {n} |-> IF m = n THEN contents ELSE folder[m]]

\* Mutant of ResolveWritableFileName: the first name made up is not looked for.
ResolveWritableFileName_Once(n) ==
  IF n \notin DOMAIN folder THEN n ELSE ResolveConflictName(n, 1)

\* resolveWritableFileName: the name, or the first made up that is free.
ResolveWritableFileName(n) ==
  IF n \notin DOMAIN folder THEN n
  ELSE LET free == {i \in 1..(MaxIndex - 2) : ResolveConflictName(n, i) \notin DOMAIN folder} IN
       IF free = {} THEN Nothing
       ELSE ResolveConflictName(n, CHOOSE i \in free : \A j \in free : i <= j)

Writing == {r \in Receives : at[r] \in {"resolve", "write"}}

\* pickDownloadDirectory and saveDirectoryHandle; a folder picked in place of
\* another is not told from it.
PickDownloadDirectory ==
  /\ ~handle
  /\ handle' = TRUE
  /\ UNCHANGED <<folder, met, files, at, next, target, conflicts, zip, told>>

\* invoke('receive_file'): the engine downloads into memory.  Another receive
\* may still be running.
ReceiveFile(r) ==
  /\ at[r] = "idle"
  /\ at' = [at EXCEPT ![r] = "engine"]
  /\ UNCHANGED <<handle, folder, met, files, next, target, conflicts, zip, told>>

\* It fails, or its names and its contents are not as many.
Refused(r) ==
  /\ at[r] = "engine"
  /\ at' = [at EXCEPT ![r] = "failed"]
  /\ UNCHANGED <<handle, folder, met, files, next, target, conflicts, zip, told>>

\* writeReceivedCollection, up to the question whether the folder may be written.
WriteReceivedCollection(r, fs) ==
  /\ at[r] = "engine"
  /\ files' = [files EXCEPT ![r] = fs]
  /\ at' = [at EXCEPT ![r] = IF handle THEN "asked" ELSE "download"]
  /\ UNCHANGED <<handle, folder, met, next, target, conflicts, zip, told>>

\* ensureDirWritePermission
Permission(r, granted) ==
  /\ at[r] = "asked"
  /\ at' = [at EXCEPT ![r] = IF granted THEN "resolve" ELSE "download"]
  /\ met' = IF granted /\ Writing # {} THEN met \cup Writing \cup {r} ELSE met
  /\ UNCHANGED <<handle, folder, files, next, target, conflicts, zip, told>>

\* writeBytesToDirectory, up to a free name; there may be none.
Resolve(r) ==
  LET free == ResolveWritableFileName(files[r][next[r]].name) IN
  /\ at[r] = "resolve"
  /\ target' = [target EXCEPT ![r] = free]
  /\ at' = [at EXCEPT ![r] = IF free = Nothing THEN "failed" ELSE "write"]
  /\ UNCHANGED <<handle, folder, met, files, next, conflicts, zip, told>>

\* The conflicts of r with the name it is about to write, if it was changed.
Reported(r) ==
  LET name == files[r][next[r]].name IN
  IF target[r] = name THEN conflicts[r] ELSE conflicts[r] \cup {<<name, target[r]>>}

\* Mutant of Write: a file that cannot be written is passed over.
Write_Skips(r, ok) ==
  /\ at[r] = "write"
  /\ target' = [target EXCEPT ![r] = Nothing]
  /\ folder' = IF ok THEN Written(target[r], <<r, next[r]>>) ELSE folder
  /\ conflicts' = [conflicts EXCEPT ![r] = Reported(r)]
  /\ next' = [next EXCEPT ![r] = @ + 1]
  /\ at' = [at EXCEPT ![r] = IF next[r] = Len(files[r]) THEN "saved" ELSE "resolve"]
  /\ UNCHANGED <<handle, met, files, zip, told>>

\* The rest of it, whatever is there by now under the name that was free.  A
\* write that fails ends the whole call.
Write(r, ok) ==
  /\ at[r] = "write"
  /\ target' = [target EXCEPT ![r] = Nothing]
  /\ IF ok
     THEN /\ folder' = Written(target[r], <<r, next[r]>>)
          /\ conflicts' = [conflicts EXCEPT ![r] = Reported(r)]
          /\ next' = [next EXCEPT ![r] = @ + 1]
          /\ at' = [at EXCEPT ![r] = IF next[r] = Len(files[r]) THEN "saved" ELSE "resolve"]
     ELSE at' = [at EXCEPT ![r] = "failed"] /\ UNCHANGED <<folder, conflicts, next>>
  /\ UNCHANGED <<handle, met, files, zip, told>>

\* One file without a folder is downloaded as it is, anything else as an archive.
Download(r) ==
  LET simple == Len(files[r]) = 1 /\ files[r][1].name[1] \notin Nested IN
  /\ at[r] = "download"
  /\ zip' = [zip EXCEPT ![r] = IF simple THEN <<>> ELSE CreateStoreOnlyZip(files[r])]
  /\ at' = [at EXCEPT ![r] = "downloaded"]
  /\ UNCHANGED <<handle, folder, met, files, next, target, conflicts, told>>

\* The end of receive_file: the names that were changed, then the completion.
Announce(r) ==
  /\ at[r] \in {"saved", "downloaded"} /\ told[r] = <<>>
  /\ told' = [told EXCEPT ![r] =
       (IF conflicts[r] = {} THEN <<>> ELSE <<"receive-conflicts">>) \o <<"receive-completed">>]
  /\ UNCHANGED <<handle, folder, met, files, at, next, target, conflicts, zip>>

\* Collections of n files.
Collections(n) == [1..n -> File]

\* Files in the collections already there.
Received == FoldFunction(LAMBDA fs, sum : sum + Len(fs), 0, files)

Next ==
  \/ PickDownloadDirectory
  \/ \E r \in Receives :
       \/ ReceiveFile(r) \/ Refused(r) \/ Announce(r)
       \/ \E n \in 1..MaxFiles : \E fs \in Collections(n) :
            n + Received <= MaxFiles /\ WriteReceivedCollection(r, fs)
       \/ \E granted \in BOOLEAN : Permission(r, granted)
       \/ Resolve(r)
       \/ \E ok \in BOOLEAN : Write(r, ok)
       \/ Download(r)

Spec == Init /\ [][Next]_vars

------------------------------------------------------------------------------
(* Properties                                                               *)

\* A file the user had is never written over, nor is one of a receive that wrote
\* while no other did; of two that write side by side one may take the name the
\* other has found free (resolveWritableFileName, writeBytesToDirectory).
NothingIsOverwritten ==
  [][\A n \in DOMAIN folder :
       folder'[n] = folder[n] \/ (folder[n] # Mine /\ folder[n][1] \in met)]_vars

\* A collection whose completion is announced is in the folder file by file, and
\* the names reported as changed are those under which it is there, also with
\* several files of one name and names that look made up, and whatever other
\* receives did before and after it wrote (writeCollectionToDirectory).
CollectionIsSaved ==
  \A r \in Receives \ met :
    at[r] = "saved" /\ told[r] # <<>> =>
      \A i \in DOMAIN files[r] : \E n \in DOMAIN folder :
        /\ folder[n] = <<r, i>>
        /\ n = files[r][i].name \/ <<files[r][i].name, n>> \in conflicts[r]

\* The archive given to the browser leads a reader of the format to every file
\* of the collection, as long as it fits the 32-bit fields (createStoreOnlyZip).
ZipReadsBack ==
  \A r \in Receives :
    (zip[r] # <<>> /\ Total(zip[r]) < Field32) => Readable(zip[r], files[r])
===============================================================================
