--------------------------- MODULE PairingSettings ---------------------------
(***************************************************************************)
(* The devices page of the settings: hooks/usePairing.ts and               *)
(* components/settings/devices/devices-settings.tsx, on a ready node.  The *)
(* page shows the pairing window it opened, with a countdown of its own,   *)
(* and the paired devices; the state lives as long as the page is mounted, *)
(* a call under way outlives it.                                           *)
(*                                                                         *)
(* External: the node, which holds the window (of which PairingHost is the *)
(* model) and the devices, and emits events.  A call is asked, then done by*)
(* the node, then answered; answers and events may cross.                  *)
(***************************************************************************)
EXTENDS Integers, Sequences, FiniteSets

CONSTANTS
  Peers,       \* devices that may be paired
  None,        \* no device
  TTL,         \* PAIRING_HOST_TTL_SECS, in ticks of the countdown
  MaxCalls,    \* bound: calls made and visits paid in a behaviour
  MaxQueue,    \* bound: events under way
  MaxPend      \* bound: calls under way while other devices act

NoCountdown == -1

VARIABLES
  ui,       \* the useState of usePairing and of the page
  devices,  \* the devices of the pairing data store that are listed
  pend,     \* calls under way
  node,     \* external: its window (0 closed), its devices
  inbox,    \* events under way
  used      \* bound: calls made and visits paid

vars == <<ui, devices, pend, node, inbox, used>>

\* pairingTicket, hostExpiresIn, isLoading, isJoining, joinOpen, renamePeerId, saving
Mounted ==
  [ticket |-> 0, left |-> NoCountdown, loading |-> FALSE, joining |-> FALSE,
   joinOpen |-> FALSE, rename |-> None, saving |-> FALSE]

Init ==
  /\ ui = Mounted
  /\ devices = {}
  /\ pend = {}
  /\ node = [window |-> 0, paired |-> {}]
  /\ inbox = <<>>
  /\ used = 0

Call(kind, p) ==
  [k |-> kind, p |-> p, at |-> "asked", w |-> 0, list |-> {}, gone |-> FALSE, then |-> "none"]

\* hydrate: a new list is asked for.
Listing(calls) == calls \cup {Call("list", None)}

\* join and renameDevice await a hydrate of their own before they end.
ListingThen(c) ==
  (pend \ {c}) \cup {[Call("list", None) EXCEPT !.then = c.k, !.gone = c.gone]}

\* External: the node emits an event.
Emit(kind) == Len(inbox) < MaxQueue /\ inbox' = Append(inbox, kind)

------------------------------------------------------------------------------
(* The pairing window                                                       *)

\* hostWindowOpen: the line with the countdown and its cancel button.
HostWindowOpen == ui.left > 0 /\ ui.ticket # 0

\* copyPairingCode: the code is copied and the window opened (openHostPairing).
CopyPairingCode ==
  /\ ~ui.loading /\ used < MaxCalls
  /\ ui' = [ui EXCEPT !.loading = TRUE]
  /\ pend' = pend \cup {Call("open", None)}
  /\ used' = used + 1
  /\ UNCHANGED <<devices, node, inbox>>

\* Mutant of OpenAnswer: an error skips setIsLoading(false).
OpenAnswer_NoFinally(c) ==
  /\ c.k = "open" /\ c.at = "done"
  /\ ui' = IF c.gone \/ c.w = 0 THEN ui
           ELSE [ui EXCEPT !.loading = FALSE, !.ticket = c.w, !.left = TTL]
  /\ pend' = pend \ {c}
  /\ UNCHANGED <<devices, node, inbox, used>>

\* The rest of openHostPairing.
OpenAnswer(c) ==
  /\ c.k = "open" /\ c.at = "done"
  /\ ui' = IF c.gone THEN ui
           ELSE IF c.w # 0 THEN [ui EXCEPT !.loading = FALSE, !.ticket = c.w, !.left = TTL]
           ELSE [ui EXCEPT !.loading = FALSE]
  /\ pend' = pend \ {c}
  /\ UNCHANGED <<devices, node, inbox, used>>

Closed(u) == [u EXCEPT !.ticket = 0, !.left = NoCountdown]

\* cancelHost: closeHostPairing clears the page, then tells the node.
CancelHost ==
  /\ HostWindowOpen
  /\ ui' = Closed(ui)
  /\ pend' = pend \cup {Call("stop", None)}
  /\ UNCHANGED <<devices, node, inbox, used>>

\* Mutant of Tick: the last second is never over.
Tick_StopsAtOne ==
  /\ ui.left > 0
  /\ ui' = [ui EXCEPT !.left = IF @ <= 1 THEN @ ELSE @ - 1]
  /\ UNCHANGED <<devices, pend, node, inbox, used>>

\* The interval of the countdown; at its end the ticket is kept.
Tick ==
  /\ ui.left > 0
  /\ ui' = [ui EXCEPT !.left = IF @ <= 1 THEN NoCountdown ELSE @ - 1]
  /\ UNCHANGED <<devices, pend, node, inbox, used>>

------------------------------------------------------------------------------
(* Joining, removing and renaming devices                                   *)

OpenJoin ==
  /\ ~ui.joinOpen
  /\ ui' = [ui EXCEPT !.joinOpen = TRUE]
  /\ UNCHANGED <<devices, pend, node, inbox, used>>

CloseJoin ==
  /\ ui.joinOpen
  /\ ui' = [ui EXCEPT !.joinOpen = FALSE]
  /\ UNCHANGED <<devices, pend, node, inbox, used>>

\* handleJoin with the code of p; the dialog may be closed and opened meanwhile.
Join(p) ==
  /\ ui.joinOpen /\ ~ui.joining /\ used < MaxCalls
  /\ ui' = [ui EXCEPT !.joining = TRUE]
  /\ pend' = pend \cup {Call("join", p)}
  /\ used' = used + 1
  /\ UNCHANGED <<devices, node, inbox>>

\* joinPairing ends: join goes on to list the devices, or gives up.
JoinAnswer(c, ok) ==
  /\ c.k = "join"
  /\ pend' = IF ok THEN ListingThen(c) ELSE pend \ {c}
  /\ ui' = IF c.gone \/ ok THEN ui ELSE [ui EXCEPT !.joining = FALSE]
  /\ node' = IF ok THEN [node EXCEPT !.paired = @ \cup {c.p}] ELSE node
  /\ IF ok THEN Emit("paired") ELSE UNCHANGED inbox
  /\ UNCHANGED <<devices, used>>

\* The remove button of a listed device.
Forget(p) ==
  /\ p \in devices /\ used < MaxCalls /\ Call("forget", p) \notin pend
  /\ pend' = pend \cup {Call("forget", p)}
  /\ used' = used + 1
  /\ UNCHANGED <<ui, devices, node, inbox>>

ForgetAnswer(c, ok) ==
  /\ c.k = "forget"
  /\ pend' = IF ok THEN Listing(pend \ {c}) ELSE pend \ {c}
  /\ node' = IF ok THEN [node EXCEPT !.paired = @ \ {c.p}] ELSE node
  /\ IF ok THEN Emit("unpaired") ELSE UNCHANGED inbox
  /\ UNCHANGED <<ui, devices, used>>

\* The dialog is there while the device is listed; renamePeerId outlives it.
RenameShown == ui.rename # None /\ ui.rename \in devices

OpenRename(p) ==
  /\ p \in devices /\ ~RenameShown
  /\ ui' = [ui EXCEPT !.rename = p, !.saving = FALSE]
  /\ UNCHANGED <<devices, pend, node, inbox, used>>

CloseRename ==
  /\ RenameShown
  /\ ui' = [ui EXCEPT !.rename = None, !.saving = FALSE]
  /\ UNCHANGED <<devices, pend, node, inbox, used>>

SaveName ==
  /\ RenameShown /\ ~ui.saving /\ used < MaxCalls /\ Call("rename", ui.rename) \notin pend
  /\ ui' = [ui EXCEPT !.saving = TRUE]
  /\ pend' = pend \cup {Call("rename", ui.rename)}
  /\ used' = used + 1
  /\ UNCHANGED <<devices, node, inbox>>

\* renamePairedDevice ends; handleSave goes on to list, or gives up.
SaveAnswer(c, ok) ==
  /\ c.k = "rename"
  /\ pend' = IF ok THEN ListingThen(c) ELSE pend \ {c}
  /\ ui' = IF c.gone \/ ok THEN ui ELSE [ui EXCEPT !.saving = FALSE]
  /\ UNCHANGED <<devices, node, inbox, used>>

\* The rest of hydrate, which never fails: the list as it was when the node read
\* it.  A join or a rename that waited for it closes the dialog open by then.
ListAnswer(c, ok) ==
  /\ c.k = "list" /\ c.at = "done"
  /\ devices' = IF ok THEN c.list ELSE devices
  /\ pend' = pend \ {c}
  /\ ui' = IF c.gone \/ c.then = "none" THEN ui
           ELSE IF c.then = "join" THEN [ui EXCEPT !.joining = FALSE, !.joinOpen = FALSE]
           ELSE [ui EXCEPT !.rename = None, !.saving = FALSE]
  /\ UNCHANGED <<node, inbox, used>>

------------------------------------------------------------------------------
(* Events, and leaving the page                                             *)

Handle(kind) ==
  /\ inbox # <<>> /\ Head(inbox) = kind
  /\ inbox' = Tail(inbox)
  /\ UNCHANGED <<devices, node, used>>

\* Mutant of DevicePaired: only the ticket is cleared.
DevicePaired_KeepsCountdown ==
  /\ Handle("paired")
  /\ ui' = [ui EXCEPT !.ticket = 0]
  /\ pend' = Listing(pend)

\* device-paired: "the ticket is no longer valid".
DevicePaired ==
  /\ Handle("paired")
  /\ ui' = IF ui.ticket # 0 THEN Closed(ui) ELSE ui
  /\ pend' = Listing(pend)

HostExpired ==
  /\ Handle("expired")
  /\ ui' = Closed(ui)
  /\ UNCHANGED pend

\* device-unpaired and identity-rotated: onRefresh
DeviceUnpaired ==
  /\ Handle("unpaired")
  /\ pend' = Listing(pend)
  /\ UNCHANGED ui

\* Unmounting forgets the page's state and visiting it again lists the devices.
Revisit ==
  /\ used < MaxCalls
  /\ used' = used + 1
  /\ ui' = Mounted
  /\ pend' = Listing({[c EXCEPT !.gone = c.k # "list" \/ c.then # "none"] : c \in pend})
  /\ UNCHANGED <<devices, node, inbox>>

------------------------------------------------------------------------------
(* External: the node                                                       *)

Done(c, w) ==
  pend' = (pend \ {c}) \cup {[c EXCEPT !.at = "done", !.w = w, !.list = IF c.k = "list"
                                                         THEN node.paired ELSE {}]}

\* start_pairing_host; windows are told apart by the call that opened them.
NodeOpens(c, ok) ==
  /\ c.k = "open" /\ c.at = "asked"
  /\ node' = IF ok THEN [node EXCEPT !.window = used] ELSE node
  /\ Done(c, IF ok THEN used ELSE 0)
  /\ UNCHANGED <<ui, devices, inbox, used>>

NodeStops(c) ==
  /\ c.k = "stop"
  /\ node' = [node EXCEPT !.window = 0]
  /\ pend' = pend \ {c}
  /\ UNCHANGED <<ui, devices, inbox, used>>

NodeLists(c) ==
  /\ c.k = "list" /\ c.at = "asked"
  /\ Done(c, 0)
  /\ UNCHANGED <<ui, devices, node, inbox, used>>

\* The other side forgets this device.
PeerForgets(p) ==
  /\ p \in node.paired /\ Cardinality(pend) < MaxPend
  /\ node' = [node EXCEPT !.paired = @ \ {p}]
  /\ Emit("unpaired")
  /\ UNCHANGED <<ui, devices, pend, used>>

\* A device joins through the window, which closes behind it.
PeerJoins(p) ==
  /\ node.window # 0 /\ p \notin node.paired /\ Cardinality(pend) < MaxPend
  /\ node' = [node EXCEPT !.window = 0, !.paired = @ \cup {p}]
  /\ Emit("paired")
  /\ UNCHANGED <<ui, devices, pend, used>>

WindowExpires ==
  /\ node.window # 0
  /\ node' = [node EXCEPT !.window = 0]
  /\ Emit("expired")
  /\ UNCHANGED <<ui, devices, pend, used>>

------------------------------------------------------------------------------

Page ==
  \/ CopyPairingCode \/ CancelHost \/ Tick \/ Revisit
  \/ OpenJoin \/ CloseJoin \/ CloseRename \/ SaveName
  \/ \E p \in Peers : Join(p) \/ Forget(p) \/ OpenRename(p)
  \/ \E c \in pend : OpenAnswer(c)
  \/ \E c \in pend, ok \in BOOLEAN :
       JoinAnswer(c, ok) \/ ForgetAnswer(c, ok) \/ SaveAnswer(c, ok) \/ ListAnswer(c, ok)
  \/ DevicePaired \/ HostExpired \/ DeviceUnpaired

Node ==
  \/ \E c \in pend, ok \in BOOLEAN : NodeOpens(c, ok)
  \/ \E c \in pend : NodeStops(c) \/ NodeLists(c)
  \/ \E p \in Peers : PeerJoins(p) \/ PeerForgets(p)
  \/ WindowExpires

Next == Page \/ Node

Spec == Init /\ [][Next]_vars

\* The countdown ticks.
Fairness == WF_vars(Tick)

FairSpec == Spec /\ Fairness

------------------------------------------------------------------------------
(* Properties                                                               *)

Uis == [ticket : 0..MaxCalls, left : {NoCountdown} \cup (1..TTL), loading : BOOLEAN,
        joining : BOOLEAN, joinOpen : BOOLEAN, rename : Peers \cup {None}, saving : BOOLEAN]

Calls == [k : {"open", "stop", "join", "forget", "rename", "list"}, p : Peers \cup {None},
          at : {"asked", "done"}, w : 0..MaxCalls, list : SUBSET Peers, gone : BOOLEAN,
          then : {"none", "join", "rename"}]

Nodes == [window : 0..MaxCalls, paired : SUBSET Peers]

TypeOK ==
  /\ ui \in Uis
  /\ devices \subseteq Peers
  /\ pend \subseteq Calls
  /\ node \in Nodes
  /\ inbox \in Seq({"paired", "expired", "unpaired"})
  /\ used \in 0..MaxCalls

\* The page never counts down a window without a ticket: ticket and countdown
\* are set by one handler and cleared by four, in any order of answers and events.
CountdownHasTicket == ui.left # NoCountdown => ui.ticket # 0

\* A disabled copy button or a spinning join dialog has a call under way that
\* will release it: leaving the page does not strand it, nor does a failure.
BusyHasCall ==
  /\ ui.loading => \E c \in pend : c.k = "open" /\ ~c.gone
  /\ ui.joining => \E c \in pend : "join" \in {c.k, c.then} /\ ~c.gone

\* A countdown ends by itself even if the node never reports the window closed.
CountdownEnds == HostWindowOpen ~> ~HostWindowOpen

==============================================================================
