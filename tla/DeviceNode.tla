------------------------------ MODULE DeviceNode ------------------------------
(***************************************************************************)
(* What the page knows of the device node: store/node-capability-store.ts  *)
(* (one status request at a time, a recheck after 1 s while the node is    *)
(* starting, at most 30 s of that), the first load of the pairing data     *)
(* (store/pairing-data-store.ts) and DeviceNodeSync.tsx, mounted once for  *)
(* the whole application, which also sends the relay settings to the node. *)
(*                                                                         *)
(* The node itself is external.  It answers get_node_status and emits life *)
(* cycle events; answers and events come by different ways, so an answer   *)
(* may be older than an event handled before it.  Events emitted before    *)
(* listen() has registered the handlers are lost.                          *)
(***************************************************************************)
EXTENDS Integers, Sequences

CONSTANTS
  WaitMax,     \* WAIT_MAX_MS, in rechecks of FALLBACK_RECHECK_MS
  MaxQueue,    \* bound: events under way to the page
  MaxEvents    \* bound: events of the node in a behaviour

ASSUME DeviceNodeAssumption ==
  WaitMax \in Nat \ {0} /\ MaxQueue \in Nat /\ MaxEvents \in Nat

NoWait == -1

VARIABLES
  cap,        \* nodeStatus.status, hasResolved, isNetworkReady
  flight,     \* refreshInFlight, and the answer once the node has given it
  timer,      \* fallbackTimer # null
  waited,     \* rechecks since waitStartedAt, NoWait for null
  boot,       \* preloadPairingData still awaits its refresh
  data,       \* a hydrate call is under way; hasHydrated; devices loaded
  open,       \* the devices page (usePairing) is mounted
  sync,       \* didSyncRelay, and its call
  listening,  \* the handlers are registered
  node,       \* external: its status and whether its relay is reached
  inbox,      \* events on their way
  emitted     \* bound: events emitted so far

vars == <<cap, flight, timer, waited, boot, data, open, sync, listening, node, inbox, emitted>>

Idle == [at |-> "none", st |-> "starting", net |-> FALSE]
Asked == [Idle EXCEPT !.at = "asked"]

\* DeviceNodeSync and its useNodeCapability have just been mounted.
Init ==
  /\ cap = [status |-> "starting", resolved |-> FALSE, net |-> FALSE]
  /\ flight = Asked
  /\ timer = FALSE
  /\ waited = NoWait
  /\ boot = TRUE
  /\ data = [busy |-> FALSE, done |-> FALSE, list |-> FALSE]
  /\ open = FALSE
  /\ sync = [did |-> FALSE, call |-> FALSE]
  /\ listening = FALSE
  /\ node = [st |-> "starting", net |-> FALSE]
  /\ inbox = <<>>
  /\ emitted = 0

------------------------------------------------------------------------------
(* The store                                                                *)

\* refresh: whoever asks while a request is under way gets its answer.
Refresh == flight' = IF flight.at = "none" THEN Asked ELSE flight

ClearFallback == timer' = FALSE /\ waited' = NoWait

\* hydrate, up to its await.  Without a node there is nothing to load.
Hydrate(c) ==
  IF ~c.resolved THEN data
  ELSE IF c.status = "ready" THEN [data EXCEPT !.busy = TRUE]
  ELSE [data EXCEPT !.done = TRUE, !.list = FALSE]

\* setState, and the effects that run on the change: hydrate when the node is
\* ready, hydrate on the open page when the status resolves, the relay once.
Set(c, started) ==
  LET becameReady == c.status = "ready" /\ cap.status # "ready"
      becameResolved == c.resolved /\ ~cap.resolved
  IN  /\ cap' = c
      /\ data' = IF started \/ becameReady \/ (open /\ becameResolved) THEN Hydrate(c) ELSE data
      /\ sync' = IF becameReady /\ ~sync.did THEN [did |-> TRUE, call |-> TRUE] ELSE sync

Unavailable == [status |-> "unavailable", resolved |-> TRUE, net |-> FALSE]

\* Mutant of Answer: one recheck too many.
Answer_OffByOne(ok) ==
  /\ flight.at = "answered"
  /\ flight' = Idle
  /\ boot' = FALSE
  /\ LET wait == IF waited = NoWait THEN 0 ELSE waited
     IN  IF ~ok \/ (flight.st = "starting" /\ wait > WaitMax)
         THEN ClearFallback /\ Set(Unavailable, boot)
         ELSE IF flight.st = "starting"
         THEN /\ Set([status |-> "starting", resolved |-> FALSE, net |-> FALSE], boot)
              /\ timer' = TRUE
              /\ waited' = wait
         ELSE /\ ClearFallback
              /\ Set([status |-> flight.st, resolved |-> TRUE,
                      net |-> flight.st = "ready" /\ flight.net], boot)
  /\ UNCHANGED <<open, listening, node, inbox, emitted>>

\* The rest of refresh.  ok = FALSE: the call itself failed.
Answer(ok) ==
  /\ flight.at = "answered"
  /\ flight' = Idle
  /\ boot' = FALSE
  /\ LET wait == IF waited = NoWait THEN 0 ELSE waited
     IN  IF ~ok \/ (flight.st = "starting" /\ wait >= WaitMax)
         THEN ClearFallback /\ Set(Unavailable, boot)
         ELSE IF flight.st = "starting"
         THEN /\ Set([status |-> "starting", resolved |-> FALSE, net |-> FALSE], boot)
              /\ timer' = TRUE
              /\ waited' = wait
         ELSE /\ ClearFallback
              /\ Set([status |-> flight.st, resolved |-> TRUE,
                      net |-> flight.st = "ready" /\ flight.net], boot)
  /\ UNCHANGED <<open, listening, node, inbox, emitted>>

\* Mutant of FallbackFires: each recheck starts its wait anew.
FallbackFires_NewWait ==
  /\ timer
  /\ timer' = FALSE
  /\ waited' = NoWait
  /\ Refresh
  /\ UNCHANGED <<cap, boot, data, open, sync, listening, node, inbox, emitted>>

\* The recheck, a second later.
FallbackFires ==
  /\ timer
  /\ timer' = FALSE
  /\ waited' = IF waited = NoWait THEN NoWait ELSE waited + 1
  /\ Refresh
  /\ UNCHANGED <<cap, boot, data, open, sync, listening, node, inbox, emitted>>

\* The rest of hydrate, for all calls under way: an error keeps the list
\* there was and counts as done.
HydrateAnswer(ok) ==
  /\ data.busy
  /\ data' = [busy |-> FALSE, done |-> TRUE, list |-> data.list \/ ok]
  /\ UNCHANGED <<cap, flight, timer, waited, boot, open, sync, listening, node, inbox, emitted>>

------------------------------------------------------------------------------
(* The page                                                                 *)

\* listen() has registered the handlers.
Listen ==
  /\ ~listening
  /\ listening' = TRUE
  /\ UNCHANGED <<cap, flight, timer, waited, boot, data, open, sync, node, inbox, emitted>>

\* The devices page comes and goes; mounting it refreshes and hydrates.
OpenDevices ==
  /\ ~open
  /\ open' = TRUE
  /\ Refresh
  /\ data' = Hydrate(cap)
  /\ UNCHANGED <<cap, timer, waited, boot, sync, listening, node, inbox, emitted>>

CloseDevices ==
  /\ open
  /\ open' = FALSE
  /\ UNCHANGED <<cap, flight, timer, waited, boot, data, sync, listening, node, inbox, emitted>>

Handle(kind) ==
  /\ inbox # <<>> /\ Head(inbox) = kind
  /\ inbox' = Tail(inbox)
  /\ UNCHANGED <<open, boot, listening, node, emitted>>

\* Mutant of NodeReady: the recheck is cancelled and nothing asked.
NodeReady_NoRefresh ==
  /\ Handle("ready")
  /\ ClearFallback
  /\ UNCHANGED <<cap, data, sync, flight>>

NodeReady ==
  /\ Handle("ready")
  /\ ClearFallback
  /\ Refresh
  /\ UNCHANGED <<cap, data, sync>>

NetworkReady ==
  /\ Handle("network-ready")
  /\ cap' = [cap EXCEPT !.net = TRUE]
  /\ Refresh
  /\ UNCHANGED <<timer, waited, data, sync>>

NetworkWarming ==
  /\ Handle("network-warming")
  /\ cap' = [cap EXCEPT !.net = FALSE]
  /\ UNCHANGED <<flight, timer, waited, data, sync>>

NodeFailed ==
  /\ Handle("failed")
  /\ ClearFallback
  /\ Set(Unavailable, FALSE)
  /\ UNCHANGED flight

\* device-paired and pairing-host-expired
PairingEvent ==
  /\ Handle("pairing")
  /\ Refresh
  /\ UNCHANGED <<cap, timer, waited, data, sync>>

------------------------------------------------------------------------------
(* External: the node                                                       *)

Emit(kind) ==
  /\ emitted < MaxEvents /\ Len(inbox) < MaxQueue
  /\ emitted' = emitted + 1
  /\ inbox' = IF listening THEN Append(inbox, kind) ELSE inbox

NodeAnswers ==
  /\ flight.at = "asked"
  /\ flight' = [at |-> "answered", st |-> node.st, net |-> node.net]
  /\ UNCHANGED <<cap, timer, waited, boot, data, open, sync, listening, node, inbox, emitted>>

NodeStarts(ok) ==
  /\ node.st = "starting"
  /\ node' = [node EXCEPT !.st = IF ok THEN "ready" ELSE "unavailable"]
  /\ Emit(IF ok THEN "ready" ELSE "failed")
  /\ UNCHANGED <<cap, flight, timer, waited, boot, data, open, sync, listening>>

NodeNetwork ==
  /\ node.st = "ready" /\ ~node.net
  /\ node' = [node EXCEPT !.net = TRUE]
  /\ Emit("network-ready")
  /\ UNCHANGED <<cap, flight, timer, waited, boot, data, open, sync, listening>>

NodePairing ==
  /\ node.st = "ready"
  /\ Emit("pairing")
  /\ UNCHANGED <<cap, flight, timer, waited, boot, data, open, sync, listening, node>>

\* reconfigure_node_relay; an error clears didSyncRelay for a later retry.
RelaySynced(ok) ==
  /\ sync.call
  /\ sync' = [did |-> ok, call |-> FALSE]
  /\ node' = [node EXCEPT !.net = FALSE]
  /\ Emit("network-warming")
  /\ UNCHANGED <<cap, flight, timer, waited, boot, data, open, listening>>

------------------------------------------------------------------------------

Page ==
  \/ \E ok \in BOOLEAN : Answer(ok) \/ HydrateAnswer(ok)
  \/ FallbackFires
  \/ Listen
  \/ OpenDevices \/ CloseDevices
  \/ NodeReady \/ NetworkReady \/ NetworkWarming \/ NodeFailed \/ PairingEvent

Node ==
  \/ NodeAnswers
  \/ \E ok \in BOOLEAN : NodeStarts(ok) \/ RelaySynced(ok)
  \/ NodeNetwork
  \/ NodePairing

Next == Page \/ Node

Spec == Init /\ [][Next]_vars

\* Calls are answered, timers fire, events are handled.  The node itself may
\* never start.
Delivered == NodeReady \/ NetworkReady \/ NetworkWarming \/ NodeFailed \/ PairingEvent

Fairness ==
  /\ WF_vars(NodeAnswers)
  /\ WF_vars(\E ok \in BOOLEAN : Answer(ok))
  /\ WF_vars(\E ok \in BOOLEAN : HydrateAnswer(ok))
  /\ WF_vars(FallbackFires)
  /\ WF_vars(Delivered)

FairSpec == Spec /\ Fairness

------------------------------------------------------------------------------
(* Properties                                                               *)

Statuses == {"starting", "ready", "unavailable"}
Kinds == {"ready", "failed", "network-ready", "network-warming", "pairing"}

Caps == [status : Statuses, resolved : BOOLEAN, net : BOOLEAN]
Flights == [at : {"none", "asked", "answered"}, st : Statuses, net : BOOLEAN]
Loads == [busy : BOOLEAN, done : BOOLEAN, list : BOOLEAN]
Syncs == [did : BOOLEAN, call : BOOLEAN]
Nodes == [st : Statuses, net : BOOLEAN]
Waits == {NoWait} \cup (0..WaitMax)

TypeOK ==
  /\ cap \in Caps
  /\ flight \in Flights
  /\ timer \in BOOLEAN /\ waited \in Waits
  /\ boot \in BOOLEAN /\ open \in BOOLEAN /\ listening \in BOOLEAN
  /\ data \in Loads
  /\ sync \in Syncs
  /\ node \in Nodes
  /\ inbox \in Seq(Kinds)
  /\ emitted \in 0..MaxEvents

\* While the status is pending a request or a recheck that will resolve it is
\* under way, whatever clears the recheck and however answers and events cross:
\* node-capability-store.ts has no other source of progress.
PendingIsWatched == ~cap.resolved => (flight.at # "none" \/ timer)

\* A recheck is never scheduled without the clock that ends the rechecks after
\* WAIT_MAX_MS, and never after it.
WaitIsBounded == timer => waited \in 0..(WaitMax - 1)

\* isPairingDataPending: the devices page shows a spinner.
Pending == ~cap.resolved \/ (cap.status = "ready" /\ ~data.done)

\* The spinner of the devices page ends, also when the node never starts, an
\* event is lost, or loading the devices fails.
SpinnerEnds == Pending ~> ~Pending

==============================================================================
