------------------------------- MODULE MCPages -------------------------------
(***************************************************************************)
(* Safety of the pairing window of the node (extended here) and of the      *)
(* small components below, checked side by side: a behaviour is one of      *)
(* the window or of one of the instances, which share no state.             *)
(***************************************************************************)
EXTENDS PairingHost, Sequences, TLC

CONSTANTS
  Slots, MaxToggles, MaxStarts,      \* of ContextMenu
  Languages, Unknown, MaxChanges,    \* of Preferences
  Files, Dirs, MaxCalls,             \* of FileSelection
  Webs,                              \* of both
  Devices, Sames, MaxClock, MaxCount, MaxQueue,              \* of DeviceList
  Receives, Texts, Nested, Sizes, MaxFiles, MaxIndex, Field32, \* of WebSave
  Totals, Speeds, MaxSamples, Bars, MaxTransfers, MaxEvents, \* of TransferMeter
  Commits, Authors, Owner, Limit, MaxLog                     \* of ReleaseNotes

ASSUME MCPagesAssumption ==
  /\ Webs \subseteq BOOLEAN
  /\ IsFiniteSet(Files) /\ IsFiniteSet(Dirs)
  /\ None \notin Files \cup Dirs
  /\ MaxCalls \in Nat
  /\ IsFiniteSet(Devices) /\ Sames \subseteq BOOLEAN
  /\ Receives \subseteq Nat \ {0}
  /\ Sizes \subseteq Nat /\ {MaxFiles, MaxIndex} \subseteq Nat /\ Field32 \in Nat \ {0}
  /\ Totals \cup Speeds \subseteq Nat
  /\ {MaxSamples, Bars, MaxTransfers, MaxEvents} \subseteq Nat
  /\ {Limit, MaxLog} \subseteq Nat

\* The commits, and their authors, of the release notes.
Author(n, l) == [name |-> n, email |-> n, login |-> l]
AuthorsOfLog == {Author("ann", "ann"), Author("ann2", "ann"), Author("own", "own")}
Entry(t, s, n, p, a) == [type |-> t, scope |-> s, subject |-> n, pairing |-> p, author |-> a]
CommitsOfLog ==
  {Entry("fix", "pair", 1, FALSE, Author("ann", "ann")),
   Entry("fix", "pairing", 2, FALSE, Author("ann2", "ann")),
   Entry("hotfix", "pairing", 3, FALSE, Author("own", "own")),
   Entry("feat", None, 1, TRUE, Author("ann2", "ann")),
   Entry("feat", "device", 2, FALSE, Author("own", "own")),
   Entry("feat", "identity", 3, FALSE, Author("own", "own")),
   Entry("chore", None, 1, FALSE, Author("ann", "ann"))}

\* Commands of the window and expire tasks are alike.
WindowSymmetry == Permutations(Commands) \cup Permutations(Timers)

VARIABLES
  part, dlName, dlNode, dlClock, dlEvents, dlListing, dlCounts, dlDevices,
  dlUsed, dlShown, cmSaved, cmSetting, cmHydrated, cmMenu, cmCalls, cmPage, cmClean,
  cmToggles, cmStarts, pfTheme, pfPrefers, pfRoot, pfIsDark, pfEffect, pfListening,
  pfChanged, pfLanguage, pfStored, pfRendered, pfStorage, pfChanges, fsWeb, fsSel,
  fsKind, fsLabel, fsChecks, fsMimes, fsAsks, fsFailed, fsDepth, fsActive, fsAt,
  fsLeft, fsDrops, fsCalls, wsHandle, wsFolder, wsMet, wsFiles, wsAt, wsNext,
  wsTarget, wsConflicts, wsZip, wsTold, tmSender, tmPage, tmDue, tmSpeeds, tmLatest, tmShown,
  tmTimer, tmStarted, tmEnded, tmLog, rnLog, rnPrior, rnGithub

DL == INSTANCE DeviceList WITH
        name <- dlName, node <- dlNode,
        clock <- dlClock, events <- dlEvents, listing <- dlListing, counts <- dlCounts,
        devices <- dlDevices, used <- dlUsed, shown <- dlShown

CM == INSTANCE ContextMenu WITH
        saved <- cmSaved, setting <- cmSetting, hydrated <- cmHydrated,
        menu <- cmMenu, calls <- cmCalls, page <- cmPage, clean <- cmClean,
        toggles <- cmToggles, starts <- cmStarts

PF == INSTANCE Preferences WITH
        theme <- pfTheme, prefers <- pfPrefers,
        root <- pfRoot, isDark <- pfIsDark, effect <- pfEffect,
        listening <- pfListening, changed <- pfChanged, language <- pfLanguage,
        stored <- pfStored, rendered <- pfRendered, storage <- pfStorage,
        changes <- pfChanges

FS == INSTANCE FileSelection WITH
        web <- fsWeb, sel <- fsSel,
        kind <- fsKind, label <- fsLabel, checks <- fsChecks, mimes <- fsMimes,
        asks <- fsAsks, failed <- fsFailed, depth <- fsDepth, active <- fsActive,
        at <- fsAt, left <- fsLeft, drops <- fsDrops, calls <- fsCalls

WS == INSTANCE WebSave WITH
        handle <- wsHandle, folder <- wsFolder, met <- wsMet, files <- wsFiles,
        at <- wsAt, next <- wsNext, target <- wsTarget, conflicts <- wsConflicts, zip <- wsZip,
        told <- wsTold

TM == INSTANCE TransferMeter WITH
        sender <- tmSender, page <- tmPage, due <- tmDue, speeds <- tmSpeeds,
        latest <- tmLatest, shown <- tmShown, timer <- tmTimer, started <- tmStarted,
        ended <- tmEnded, log <- tmLog

RN == INSTANCE ReleaseNotes WITH log <- rnLog, prior <- rnPrior, github <- rnGithub

dlVars == <<dlName, dlNode, dlClock, dlEvents, dlListing, dlCounts, dlDevices, dlUsed,
          dlShown>>
cmVars == <<cmSaved, cmSetting, cmHydrated, cmMenu, cmCalls, cmPage, cmClean,
          cmToggles, cmStarts>>
pfVars == <<pfTheme, pfPrefers, pfRoot, pfIsDark, pfEffect, pfListening, pfChanged,
          pfLanguage, pfStored, pfRendered, pfStorage, pfChanges>>
fsVars == <<fsWeb, fsSel, fsKind, fsLabel, fsChecks, fsMimes, fsAsks, fsFailed,
          fsDepth, fsActive, fsAt, fsLeft, fsDrops, fsCalls>>
wsVars == <<wsHandle, wsFolder, wsMet, wsFiles, wsAt, wsNext, wsTarget, wsConflicts, wsZip,
          wsTold>>
tmVars == <<tmSender, tmPage, tmDue, tmSpeeds, tmLatest, tmShown, tmTimer, tmStarted,
            tmEnded, tmLog>>
rnVars == <<rnLog, rnPrior, rnGithub>>

Parts == {"window", "list", "menu", "preferences", "select", "save", "meter", "notes"}

\* The components that do not take part stay in one initial state.
SumInit ==
  /\ part \in Parts
  /\ Init
  /\ IF part = "list" THEN TRUE ELSE dlName = [d \in Devices |-> 0]
  /\ DL!Init
  /\ IF part = "menu" THEN TRUE ELSE cmSaved = TRUE /\ cmMenu = TRUE
  /\ CM!Init
  /\ IF part = "preferences" THEN TRUE ELSE pfTheme = "light" /\ pfPrefers = FALSE /\ pfStored = Unknown
  /\ PF!Init
  /\ IF part = "select" THEN TRUE ELSE fsWeb = FALSE
  /\ FS!Init
  /\ IF part = "save" THEN TRUE ELSE wsHandle = FALSE /\ wsFolder = <<>>
  /\ WS!Init
  /\ IF part = "meter" THEN TRUE ELSE tmSender = TRUE
  /\ TM!Init
  /\ IF part = "notes" THEN TRUE ELSE rnPrior = {} /\ rnGithub = {}
  /\ RN!Init

sumVars == <<part, vars, dlVars, cmVars, pfVars, fsVars, wsVars, tmVars, rnVars>>

\* The component p moves, the others stay where they are.
Only(p) ==
  /\ part = p
  /\ UNCHANGED part
  /\ IF p = "window" THEN TRUE ELSE UNCHANGED vars
  /\ IF p = "list" THEN TRUE ELSE UNCHANGED dlVars
  /\ IF p = "menu" THEN TRUE ELSE UNCHANGED cmVars
  /\ IF p = "preferences" THEN TRUE ELSE UNCHANGED pfVars
  /\ IF p = "select" THEN TRUE ELSE UNCHANGED fsVars
  /\ IF p = "save" THEN TRUE ELSE UNCHANGED wsVars
  /\ IF p = "meter" THEN TRUE ELSE UNCHANGED tmVars
  /\ IF p = "notes" THEN TRUE ELSE UNCHANGED rnVars

SumNext ==
  \/ Only("window") /\ Next
  \/ Only("list") /\ DL!Next
  \/ Only("menu") /\ CM!Next
  \/ Only("preferences") /\ PF!Next
  \/ Only("select") /\ FS!Next
  \/ Only("save") /\ WS!Next
  \/ Only("meter") /\ TM!Next
  \/ Only("notes") /\ RN!Next

SumSpec == SumInit /\ [][SumNext]_sumVars

------------------------------------------------------------------------------
\* The comparator of the device list is an order, and a presence event moves its
\* own device only (comparePairedDevicesForList, patchDevicePresence).
ListIsSound ==
  /\ [](part = "list" => DL!OrderIsTotal)
  /\ DL!OthersStay

\* The Explorer menu is what the setting says (context-menu-toggle.tsx).
MenuMatchesSetting == part = "menu" => CM!MenuMatchesSetting

\* The theme and the language that were chosen are the ones applied and shown
\* (AppThemeProvider.tsx, TranslationContext.tsx).
PreferencesAreApplied == part = "preferences" => PF!ThemeIsApplied /\ PF!LanguageIsShown

\* Nothing is selected twice, media types are those of the selection, and a
\* browser's drop zone is highlighted while a file is over it (useSender.ts,
\* Dropzone.tsx, useDragDrop.ts).
SelectionIsSound ==
  part = "select" => FS!TypeOK /\ FS!MimesMatchSelection /\ FS!HighlightFollowsPointer

\* A collection saved while no other was is complete and stays so, an archive reads
\* back, and nothing of the user's is written over (writeCollectionToDirectory,
\* createStoreOnlyZip, resolveWritableFileName).
ReceivedIsSaved ==
  /\ [](part = "save" => WS!CollectionIsSaved /\ WS!ZipReadsBack)
  /\ WS!NothingIsOverwritten

\* The progress shown was reported since a transfer was last announced, an idle page
\* shows none, the time left follows the last speeds, and the bars add up to the
\* share (useSender.ts, useReceiver.ts, etaUtils.ts, TransferProgressBar.tsx).
MeterIsSound ==
  part = "meter" => /\ TM!TypeOK /\ TM!ProgressIsFresh /\ TM!IdleShowsNothing
                    /\ TM!AverageIsRecent /\ TM!BarsAddUp

\* The notes agree with the log: every fix is counted once, the highlights are the
\* largest scopes, nobody who returns is announced as new
\* (generate-release-notes.js).
NotesMatchLog ==
  part = "notes" => /\ RN!FixesAreAccountedFor /\ RN!HighlightsAreHeaviest
                    /\ RN!NewcomersAreNew
==============================================================================
