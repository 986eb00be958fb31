------------------------------ MODULE DeviceList ------------------------------
(***************************************************************************)
(* The order of the paired devices a user picks from: the presence events  *)
(* and listings that reach the page (usePairedDeviceEvents.ts), the patch  *)
(* and the comparator of lib/pairing-api.ts, and the memoised list of      *)
(* PairedDevicesPanel.tsx, which reads the send counts of                  *)
(* lib/paired-send-counts.ts only when the devices change.                 *)
(*                                                                         *)
(* The node is modelled from the engine: set_session emits the presence    *)
(* before it touches last_seen_at, remove_session emits it without a touch.*)
(***************************************************************************)
EXTENDS Integers, Sequences, FiniteSets, TLC

CONSTANTS
  Devices,     \* endpoint ids
  Sames,       \* subset of BOOLEAN: do all devices have the same display_name
  MaxClock,    \* bound: touches of last_seen_at
  MaxCount,    \* bound: devices that are sent to, each once
  MaxQueue     \* bound: presence events not handled yet

VARIABLES
  name,      \* display_name of each device, numbered as localeCompare orders
             \* them; never changes
  node,      \* the node: status, online and last_seen_at of each device
  clock,     \* the node's clock
  events,    \* paired-device-presence events on their way
  listing,   \* the answer of list_paired_devices on its way, if any
  counts,    \* altsendme-paired-send-counts
  devices,   \* pairedDevices, in the order of the node's file
  used,      \* the counts sortedDevices was computed with
  shown      \* sortedDevices

vars == <<name, node, clock, events, listing, counts, devices, used, shown>>

Device(d, n) == [id |-> d, active |-> n[d].active, online |-> n[d].online, seen |-> n[d].seen]

\* The file keeps the devices in the order they were paired in.
Order == CHOOSE s \in [1..Cardinality(Devices) -> Devices] : \A i, j \in DOMAIN s : i # j => s[i] # s[j]
\* Names in the opposite order of pairing, so that the tie-break has work to do.
ReverseName(d) == Cardinality(Devices) - (CHOOSE i \in DOMAIN Order : Order[i] = d)

Listed(n) == [i \in DOMAIN Order |-> Device(Order[i], n)]

------------------------------------------------------------------------------
(* lib/pairing-api.ts                                                       *)

\* 0 = online and active, 1 = offline and active, 2 = unpaired.
PairedDeviceListRank(a) == IF ~a.active THEN 2 ELSE IF ~a.online THEN 1 ELSE 0

\* Mutant of ComparePairedDevicesForList: the ranks are not compared first.
ComparePairedDevicesForList_NoRank(a, b, c) ==
  IF PairedDeviceListRank(a) = 0 /\ c[a.id] # c[b.id] THEN c[b.id] - c[a.id]
  ELSE IF a.seen # b.seen THEN b.seen - a.seen
  ELSE name[a.id] - name[b.id]

\* Online devices by sends, the others by when they were seen, then by name.
ComparePairedDevicesForList(a, b, c) ==
  LET rankA == PairedDeviceListRank(a)
      rankB == PairedDeviceListRank(b)
  IN  IF rankA # rankB THEN rankA - rankB
      ELSE IF rankA = 0 /\ c[a.id] # c[b.id] THEN c[b.id] - c[a.id]
      ELSE IF rankA # 0 /\ a.seen # b.seen THEN b.seen - a.seen
      ELSE name[a.id] - name[b.id]

\* Array.prototype.sort is stable.
SortPairedDevicesForList(list, c) ==
  LET Precedes(j, i) == LET o == ComparePairedDevicesForList(list[j], list[i], c)
                        IN  o < 0 \/ (o = 0 /\ j < i)
      place == [i \in DOMAIN list |-> Cardinality({j \in DOMAIN list : Precedes(j, i)}) + 1]
  IN  [k \in {place[i] : i \in DOMAIN list} |-> list[CHOOSE i \in DOMAIN list : place[i] = k]]

\* Mutant of PatchDevicePresence: every device takes the event's time.
PatchDevicePresence_All(list, e) ==
  [i \in DOMAIN list |->
     [list[i] EXCEPT !.online = IF @ = e.online \/ list[i].id # e.id THEN @ ELSE e.online, !.seen = e.seen]]

PatchDevicePresence(list, e) ==
  [i \in DOMAIN list |->
     IF list[i].id = e.id THEN [list[i] EXCEPT !.online = e.online, !.seen = e.seen] ELSE list[i]]

\* setDevices: the memo depends on the devices only.
SetDevices(list) ==
  /\ devices' = list
  /\ used' = counts
  /\ shown' = SortPairedDevicesForList(list, counts)

Init ==
  /\ \E same \in Sames : name = [d \in Devices |-> IF same THEN 0 ELSE ReverseName(d)]
  /\ node = [d \in Devices |-> [active |-> TRUE, online |-> FALSE, seen |-> 0]]
  /\ clock = 0
  /\ events = <<>>
  /\ listing = {}
  /\ counts = [d \in Devices |-> 0]
  /\ devices = Listed(node)
  /\ used = counts
  /\ shown = SortPairedDevicesForList(devices, counts)

------------------------------------------------------------------------------
(* The node                                                                 *)

nodeVars == <<node, clock, events>>
pageVars == <<devices, used, shown>>

Emit(d, online) == events' = Append(events, [id |-> d, online |-> online, seen |-> node[d].seen])

\* set_session: the event carries the time the device was seen before.
SetSession(d) ==
  /\ ~node[d].online /\ node[d].active
  /\ clock < MaxClock /\ Len(events) < MaxQueue
  /\ clock' = clock + 1
  /\ node' = [node EXCEPT ![d].online = TRUE, ![d].seen = clock + 1]
  /\ Emit(d, TRUE)
  /\ UNCHANGED <<name, listing, counts, pageVars>>

\* remove_session: nothing is touched.
RemoveSession(d) ==
  /\ node[d].online
  /\ Len(events) < MaxQueue
  /\ node' = [node EXCEPT ![d].online = FALSE]
  /\ Emit(d, FALSE)
  /\ UNCHANGED <<name, clock, listing, counts, pageVars>>

\* The peer forgot this device; device-unpaired makes the page list again.  One
\* listing is under way at a time.
Unpair(d) ==
  /\ node[d].active /\ ~node[d].online
  /\ listing = {}
  /\ node' = [node EXCEPT ![d].active = FALSE]
  /\ listing' = {Listed(node')}
  /\ UNCHANGED <<name, clock, events, counts, pageVars>>

\* identity-rotated, a pairing or a visit: refreshPairedDevices asks the node.
Refresh ==
  /\ listing = {}
  /\ listing' = {Listed(node)}
  /\ UNCHANGED <<name, nodeVars, counts, pageVars>>

------------------------------------------------------------------------------
(* The page                                                                 *)

\* The answer may be older than events that were handled before it.
ListAnswer ==
  \E list \in listing :
    /\ listing' = listing \ {list}
    /\ SetDevices(list)
    /\ UNCHANGED <<name, nodeVars, counts>>

\* applyPresencePatch
Presence ==
  /\ events # <<>>
  /\ events' = Tail(events)
  /\ SetDevices(PatchDevicePresence(devices, Head(events)))
  /\ UNCHANGED <<name, node, clock, listing, counts>>

\* incrementPairedSendCount: the list on the page stays as it is.
IncrementPairedSendCount(d) ==
  /\ counts[d] = 0 /\ Cardinality({e \in Devices : counts[e] # 0}) < MaxCount
  /\ counts' = [counts EXCEPT ![d] = @ + 1]
  /\ UNCHANGED <<name, nodeVars, listing, pageVars>>

Next ==
  \/ \E d \in Devices :
       SetSession(d) \/ RemoveSession(d) \/ Unpair(d) \/ IncrementPairedSendCount(d)
  \/ Refresh
  \/ ListAnswer
  \/ Presence

Spec == Init /\ [][Next]_vars

------------------------------------------------------------------------------
(* Properties                                                               *)

Compare(a, b) == ComparePairedDevicesForList(a, b, used)
Ids(list) == [i \in DOMAIN list |-> list[i].id]

\* The comparator is an order of the devices on the page (were it not, sort
\* could return anything), and the list on the page has every device once.
OrderIsTotal ==
  LET page == {devices[i] : i \in DOMAIN devices}
      order == [p \in page \X page |-> Compare(p[1], p[2])]
  IN  /\ \A a, b \in page : order[<<a, b>>] <= 0 <=> order[<<b, a>>] >= 0
      /\ \A a, b, c \in page : order[<<a, b>>] <= 0 /\ order[<<b, c>>] <= 0 => order[<<a, c>>] <= 0
      /\ {shown[i] : i \in DOMAIN shown} = page /\ Len(shown) = Len(devices)

Before(list, a, b) == \E i, j \in DOMAIN list : i < j /\ list[i].id = a /\ list[j].id = b

\* A presence event moves the device it is about and no other: the others keep
\* their order, unless sends were counted since the list was last sorted.
OthersStay ==
  [][Presence /\ counts = used =>
       \A a, b \in Devices \ {Head(events).id} : Before(shown, a, b) => Before(shown', a, b)]_vars
==============================================================================
