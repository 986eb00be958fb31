------------------------------- MODULE Updater -------------------------------
(***************************************************************************)
(* Updating the desktop application: hooks/use-updater.ts, the dialog that *)
(* opens by itself (AppUpdater.tsx), the settings page that checks on      *)
(* request (auto-update.tsx) and the alert in the settings' side bar       *)
(* (setting-sidebar-update-alert.tsx).  Each of the three has an install   *)
(* mutation of its own; the first and the last share one cached query.     *)
(*                                                                         *)
(* External: the update server (available), the marker of the portable     *)
(* build, whose detection may fail, and the plugin that installs.          *)
(***************************************************************************)
EXTENDS Naturals, FiniteSets

CONSTANTS
  MaxReleases,  \* bound: times a release is published or withdrawn
  MaxClicks     \* bound: uses of a button

Views == {"app", "page", "sidebar"}

VARIABLES
  portable,   \* the application runs from the portable archive; never changes
  available,  \* external: the server has a newer version
  auto,       \* autoUpdate
  query,      \* the cached query: data is an update, fetching
  stale,      \* an install found nothing, and the query was not answered since
  open,       \* isOpen of the two dialogs
  checking,   \* the check mutation of the page is pending
  install,    \* stage of each install mutation: "none", "check", "download"
  releases, clicks

vars == <<portable, available, auto, query, stale, open, checking, install, releases, clicks>>

Init ==
  /\ portable \in BOOLEAN
  /\ available \in BOOLEAN
  /\ auto \in BOOLEAN
  /\ query = [data |-> FALSE, fetching |-> auto]
  /\ stale = FALSE
  /\ open = [app |-> FALSE, page |-> FALSE]
  /\ checking = FALSE
  /\ install = [v \in Views |-> "none"]
  /\ releases = 0
  /\ clicks = 0

\* External: a release is published or withdrawn.
Publish ==
  /\ releases < MaxReleases
  /\ releases' = releases + 1
  /\ available' = ~available
  /\ UNCHANGED <<portable, auto, query, stale, open, checking, install, clicks>>

\* The answer of a check: a portable build is never offered an update, unless
\* its marker could not be read, which counts as not portable.
CheckForDesktopUpdate(answer) ==
  \E seen \in {portable, FALSE} : answer = (available /\ ~seen)

\* The query is answered: a dialog opens when there is an update and checks are
\* automatic (the effect of AppUpdater: every answer is a new object, so a
\* dialog that was put off opens again).
QueryAnswer ==
  /\ query.fetching
  /\ \E answer \in BOOLEAN :
       /\ CheckForDesktopUpdate(answer)
       /\ query' = [data |-> answer, fetching |-> FALSE]
       /\ open' = [open EXCEPT !.app = @ \/ (auto /\ answer)]
  /\ stale' = FALSE
  /\ UNCHANGED <<portable, available, auto, checking, install, releases, clicks>>

\* It failed, after one retry: the data stay.
QueryFails ==
  /\ query.fetching
  /\ query' = [query EXCEPT !.fetching = FALSE]
  /\ stale' = FALSE
  /\ UNCHANGED <<portable, available, auto, open, checking, install, releases, clicks>>

\* The window gets the focus, or the side bar is mounted: an enabled query is
\* fetched again.
Refetch ==
  /\ auto /\ ~query.fetching
  /\ query' = [query EXCEPT !.fetching = TRUE]
  /\ UNCHANGED <<portable, available, auto, stale, open, checking, install, releases, clicks>>

Click == clicks < MaxClicks /\ clicks' = clicks + 1

\* The switch: turning it on runs the query, and reopens the dialog if an update
\* is still in the cache.
SetAutoUpdate ==
  /\ Click
  /\ auto' = ~auto
  /\ query' = [query EXCEPT !.fetching = @ \/ auto']
  /\ open' = [open EXCEPT !.app = @ \/ (auto' /\ query.data)]
  /\ UNCHANGED <<portable, available, stale, checking, install, releases>>

\* The button of the settings page is there while checks are not automatic.
HandleCheckForUpdates ==
  /\ Click
  /\ ~auto /\ ~checking
  /\ checking' = TRUE
  /\ UNCHANGED <<portable, available, auto, query, stale, open, install, releases>>

\* An update opens the page's dialog; none, or an error, is a toast.
CheckAnswer ==
  /\ checking
  /\ checking' = FALSE
  /\ \/ UNCHANGED open
     \/ \E answer \in BOOLEAN :
          /\ CheckForDesktopUpdate(answer)
          /\ open' = [open EXCEPT !.page = @ \/ answer]
  /\ UNCHANGED <<portable, available, auto, query, stale, install, releases, clicks>>

\* "Later", or closing the dialog.
CloseDialog(v) ==
  /\ open[v]
  /\ open' = [open EXCEPT ![v] = FALSE]
  /\ UNCHANGED <<portable, available, auto, query, stale, checking, install, releases, clicks>>

Offered(v) == IF v = "sidebar" THEN query.data ELSE open[v]

\* The install buttons: each is disabled by its own mutation only.
InstallUpdate(v) ==
  /\ Click
  /\ Offered(v) /\ install[v] = "none"
  /\ install' = [install EXCEPT ![v] = "check"]
  /\ UNCHANGED <<portable, available, auto, query, stale, open, checking, releases>>

Closed(v) == IF v = "sidebar" THEN open ELSE [open EXCEPT ![v] = FALSE]

\* Mutant of InstallCheck: a fetch under way is cancelled instead of a new one
\* begun.
InstallCheck_NoInvalidate(v) ==
  /\ install[v] = "check"
  /\ \E answer \in BOOLEAN :
       /\ CheckForDesktopUpdate(answer)
       /\ install' = [install EXCEPT ![v] = IF answer THEN "download" ELSE "none"]
       /\ open' = IF answer THEN open ELSE Closed(v)
       /\ query' = [query EXCEPT !.fetching = FALSE]
       /\ stale' = (stale \/ (auto /\ ~answer))
  /\ UNCHANGED <<portable, available, auto, checking, releases, clicks>>

\* The mutation checks again.  When nothing is there any more it succeeds: the
\* query is invalidated, which fetches it again if it is enabled, and the
\* dialog closes.
InstallCheck(v) ==
  /\ install[v] = "check"
  /\ \E answer \in BOOLEAN :
       /\ CheckForDesktopUpdate(answer)
       /\ install' = [install EXCEPT ![v] = IF answer THEN "download" ELSE "none"]
       /\ open' = IF answer THEN open ELSE Closed(v)
       /\ query' = IF answer THEN query ELSE [query EXCEPT !.fetching = @ \/ auto]
       /\ stale' = (stale \/ (auto /\ ~answer))
  /\ UNCHANGED <<portable, available, auto, checking, releases, clicks>>

\* downloadAndInstall, then relaunch: the application starts over, up to date.
InstallDone(v) ==
  /\ install[v] = "download"
  /\ available' = FALSE
  /\ query' = [data |-> FALSE, fetching |-> auto]
  /\ stale' = FALSE
  /\ open' = [app |-> FALSE, page |-> FALSE]
  /\ checking' = FALSE
  /\ install' = [w \in Views |-> "none"]
  /\ UNCHANGED <<portable, auto, releases, clicks>>

\* A toast; the dialog stays, its button is enabled again.
InstallFails(v) ==
  /\ install[v] # "none"
  /\ install' = [install EXCEPT ![v] = "none"]
  /\ UNCHANGED <<portable, available, auto, query, stale, open, checking,
                 releases, clicks>>

Network ==
  \/ QueryAnswer
  \/ QueryFails
  \/ CheckAnswer
  \/ \E v \in Views : InstallCheck(v) \/ InstallDone(v) \/ InstallFails(v)

Next ==
  \/ Publish
  \/ Refetch
  \/ SetAutoUpdate
  \/ HandleCheckForUpdates
  \/ \E v \in {"app", "page"} : CloseDialog(v)
  \/ \E v \in Views : InstallUpdate(v)
  \/ Network

Spec == Init /\ [][Next]_vars

\* A request to the server is answered, or fails.
FairSpec == Spec /\ WF_vars(Network)

------------------------------------------------------------------------------
\* An offer that turned out to be withdrawn when it was to be installed is asked
\* about again, so the side bar does not go on offering it.
StaleOfferIsChecked == stale ~> ~stale \/ ~auto
==============================================================================
