---------------------------- MODULE Settings_proofs ----------------------------
(***************************************************************************)
(* The devices and settings pages, for every length of a wait, any number  *)
(* of devices, invites and calls: the status of the device node is waited  *)
(* for, what the pages show as under way is, and no invite is lost.        *)
(***************************************************************************)
EXTENDS MCSettings, TLAPS

------------------------------------------------------------------------------
(* The status of the device node (DeviceNode)                               *)

\* WaitIsBounded and TypeOK need each other: the clock of the rechecks stays in its
\* range because a recheck is scheduled only below WAIT_MAX_MS, and the next one is
\* because the clock is in range.
NodeInv == TypeOK /\ WaitIsBounded /\ PendingIsWatched

\* refresh never leaves the page without a request under way.
LEMMA RefreshAsks ==
  ASSUME TypeOK, Refresh
  PROVE  /\ flight' \in Flights
         /\ flight'.at # "none"
  BY DEF TypeOK, Refresh, Asked, Idle, Flights, Statuses

\* setState and its effects keep the types, whatever state is set.
LEMMA SetTypes ==
  ASSUME TypeOK, NEW c \in Caps,
         NEW started \in BOOLEAN, Set(c, started)
  PROVE  /\ cap' = c
         /\ data' \in Loads
         /\ sync' \in Syncs
  BY DEF TypeOK, Set, Hydrate, Loads, Syncs

\* hydrate changes the pairing data alone, and keeps their type.
LEMMA HydrateTypes ==
  ASSUME TypeOK
  PROVE  Hydrate(cap) \in Loads
  BY DEF TypeOK, Hydrate, Loads

\* An event is taken from the front of the inbox.
LEMMA HandleTypes ==
  ASSUME TypeOK, NEW k, Handle(k)
  PROVE  inbox' \in Seq(Kinds)
  BY DEF TypeOK, Handle

\* An event of the node keeps the types of the inbox and of the bound.
LEMMA EmitTypes ==
  ASSUME TypeOK, NEW k \in Kinds, Emit(k)
  PROVE  inbox' \in Seq(Kinds) /\ emitted' \in 0..MaxEvents
  BY DeviceNodeAssumption DEF TypeOK, Emit

\* The page has just asked for the status.
LEMMA NodeInit == Init => NodeInv
<1> SUFFICES ASSUME Init
             PROVE  NodeInv
  OBVIOUS
<1>1. /\ flight \in Flights
      /\ flight.at = "asked"
  BY DEF Init, Asked, Idle, Flights, Statuses
<1>2. inbox \in Seq(Kinds)
  BY DEF Init
<1>3. emitted \in 0..MaxEvents
  BY DeviceNodeAssumption DEF Init
<1>4. TypeOK
  BY <1>1, <1>2, <1>3 DEF Init, TypeOK, Caps, Loads, Syncs, Nodes, Waits, Statuses
<1>5. WaitIsBounded /\ PendingIsWatched
  BY <1>1 DEF Init, WaitIsBounded, PendingIsWatched
<1> QED
  BY <1>4, <1>5 DEF NodeInv

\* An answer resolves the status, or schedules a recheck before the wait is over.
LEMMA AnswerInv ==
  ASSUME NodeInv, NEW ok \in BOOLEAN, Answer(ok)
  PROVE  NodeInv'
<1> DEFINE wait == IF waited = NoWait THEN 0 ELSE waited
           over == ~ok \/ (flight.st = "starting" /\ wait >= WaitMax)
           pending == [status |-> "starting", resolved |-> FALSE, net |-> FALSE]
           known == [status |-> flight.st, resolved |-> TRUE,
                     net |-> flight.st = "ready" /\ flight.net]
<1>1. /\ TypeOK /\ WaitIsBounded /\ PendingIsWatched
      /\ flight' = Idle /\ boot' = FALSE
      /\ UNCHANGED <<open, listening, node, inbox, emitted>>
  BY DEF NodeInv, Answer
<1>2. Idle \in Flights
  BY DEF Idle, Flights, Statuses
<1>3. boot \in BOOLEAN
  BY <1>1 DEF TypeOK
<1>4. CASE over
  <2>1. ClearFallback /\ Set(Unavailable, boot)
    BY <1>4 DEF Answer
  <2>2. Unavailable \in Caps
    BY DEF Unavailable, Caps, Statuses
  <2>3. /\ cap' = Unavailable
        /\ data' \in Loads
        /\ sync' \in Syncs
    BY <1>1, <1>3, <2>1, <2>2, SetTypes
  <2> QED
    BY <1>1, <1>2, <2>1, <2>2, <2>3
    DEF NodeInv, TypeOK, WaitIsBounded, PendingIsWatched, ClearFallback, Unavailable, Waits
<1>5. CASE ~over /\ flight.st = "starting"
  <2>1. Set(pending, boot) /\ timer' = TRUE /\ waited' = wait
    BY <1>5 DEF Answer
  <2>2. pending \in Caps
    BY DEF Caps, Statuses
  <2>3. /\ cap' = pending
        /\ data' \in Loads
        /\ sync' \in Syncs
    BY <1>1, <1>3, <2>1, <2>2, SetTypes
  <2>4. wait \in 0..(WaitMax - 1)
    BY <1>1, <1>5, DeviceNodeAssumption DEF TypeOK, Waits, NoWait
  <2>5. waited' \in 0..(WaitMax - 1)
    BY <2>1, <2>4
  <2>6. waited' \in Waits
    BY <2>5, DeviceNodeAssumption DEF Waits
  <2> QED
    BY <1>1, <1>2, <2>1, <2>2, <2>3, <2>5, <2>6
    DEF NodeInv, TypeOK, WaitIsBounded, PendingIsWatched
<1>6. CASE ~over /\ flight.st # "starting"
  <2>1. ClearFallback /\ Set(known, boot)
    BY <1>6 DEF Answer
  <2>2. known \in Caps
    BY <1>1 DEF TypeOK, Caps, Flights
  <2>3. /\ cap' = known
        /\ data' \in Loads
        /\ sync' \in Syncs
    BY <1>1, <1>3, <2>1, <2>2, SetTypes
  <2> QED
    BY <1>1, <1>2, <2>1, <2>2, <2>3
    DEF NodeInv, TypeOK, WaitIsBounded, PendingIsWatched, ClearFallback, Waits
<1> QED
  BY <1>4, <1>5, <1>6

\* Every other step: the recheck leads to a request, an event that stops the
\* recheck asks at once.
LEMMA NodeNext == NodeInv /\ [Next]_vars => NodeInv'
<1> SUFFICES ASSUME NodeInv, [Next]_vars
             PROVE  NodeInv'
  OBVIOUS
<1>0. TypeOK /\ WaitIsBounded /\ PendingIsWatched
  BY DEF NodeInv
<1>1. ASSUME NEW ok \in BOOLEAN, Answer(ok)
      PROVE  NodeInv'
  BY <1>1, AnswerInv
<1>2. ASSUME NEW ok \in BOOLEAN, HydrateAnswer(ok)
      PROVE  NodeInv'
  BY <1>0, <1>2 DEF NodeInv, TypeOK, WaitIsBounded, PendingIsWatched, HydrateAnswer, Loads
<1>3. CASE FallbackFires
  <2>1. waited \in 0..(WaitMax - 1) /\ waited' = waited + 1 /\ timer' = FALSE
    BY <1>0, <1>3, DeviceNodeAssumption DEF FallbackFires, WaitIsBounded, NoWait
  <2>2. waited' \in Waits
    BY <2>1, DeviceNodeAssumption DEF Waits
  <2>3. Refresh
    BY <1>3 DEF FallbackFires
  <2>4. TypeOK'
    BY <1>0, <1>3, <2>1, <2>2, <2>3, RefreshAsks DEF TypeOK, FallbackFires
  <2>5. WaitIsBounded' /\ PendingIsWatched'
    BY <1>0, <2>1, <2>3, RefreshAsks DEF WaitIsBounded, PendingIsWatched
  <2> QED
    BY <2>4, <2>5 DEF NodeInv
<1>4. CASE Listen
  BY <1>0, <1>4 DEF NodeInv, TypeOK, WaitIsBounded, PendingIsWatched, Listen
<1>5. CASE OpenDevices
  BY <1>0, <1>5, RefreshAsks, HydrateTypes
  DEF NodeInv, TypeOK, WaitIsBounded, PendingIsWatched, OpenDevices
<1>6. CASE CloseDevices
  <2>1. TypeOK'
    BY <1>0, <1>6 DEF TypeOK, CloseDevices
  <2>2. WaitIsBounded' /\ PendingIsWatched'
    BY <1>0, <1>6 DEF WaitIsBounded, PendingIsWatched, CloseDevices
  <2> QED
    BY <2>1, <2>2 DEF NodeInv
<1>7. CASE NodeReady
  <2>1. TypeOK'
    BY <1>0, <1>7, RefreshAsks, HandleTypes DEF TypeOK, NodeReady, Handle, ClearFallback, Waits
  <2>2. WaitIsBounded' /\ PendingIsWatched'
    BY <1>0, <1>7, RefreshAsks DEF WaitIsBounded, PendingIsWatched, NodeReady, Handle, ClearFallback
  <2> QED
    BY <2>1, <2>2 DEF NodeInv
<1>8. CASE NetworkReady
  <2>1. TypeOK'
    BY <1>0, <1>8, RefreshAsks, HandleTypes DEF TypeOK, NetworkReady, Handle, Caps
  <2>2. WaitIsBounded' /\ PendingIsWatched'
    BY <1>0, <1>8, RefreshAsks DEF WaitIsBounded, PendingIsWatched, NetworkReady, Handle
  <2> QED
    BY <2>1, <2>2 DEF NodeInv
<1>9. CASE NetworkWarming
  <2>1. TypeOK'
    BY <1>0, <1>9, HandleTypes DEF TypeOK, NetworkWarming, Handle, Caps
  <2>2. WaitIsBounded' /\ PendingIsWatched'
    BY <1>0, <1>9 DEF WaitIsBounded, PendingIsWatched, NetworkWarming, Handle
  <2> QED
    BY <2>1, <2>2 DEF NodeInv
<1>10. CASE NodeFailed
  <2>1. Unavailable \in Caps
    BY DEF Unavailable, Caps, Statuses
  <2>2. Set(Unavailable, FALSE)
    BY <1>10 DEF NodeFailed
  <2>3. cap' = Unavailable /\ data' \in Loads /\ sync' \in Syncs
    BY <1>0, <2>1, <2>2, SetTypes
  <2>4. inbox' \in Seq(Kinds)
    BY <1>0, <1>10, HandleTypes DEF NodeFailed
  <2>5. TypeOK'
    BY <1>0, <1>10, <2>1, <2>3, <2>4 DEF TypeOK, NodeFailed, Handle, ClearFallback, Waits
  <2>6. WaitIsBounded' /\ PendingIsWatched'
    BY <1>10, <2>3 DEF WaitIsBounded, PendingIsWatched, NodeFailed, ClearFallback, Unavailable
  <2> QED
    BY <2>5, <2>6 DEF NodeInv
<1>11. CASE PairingEvent
  BY <1>0, <1>11, RefreshAsks, HandleTypes
  DEF NodeInv, TypeOK, WaitIsBounded, PendingIsWatched, PairingEvent, Handle
<1>12. CASE NodeAnswers
  BY <1>0, <1>12 DEF NodeInv, TypeOK, WaitIsBounded, PendingIsWatched, NodeAnswers, Flights, Nodes
<1>13. ASSUME NEW ok \in BOOLEAN, NodeStarts(ok)
       PROVE  NodeInv'
  <2>1. (IF ok THEN "ready" ELSE "failed") \in Kinds
    BY DEF Kinds
  <2>2. inbox' \in Seq(Kinds) /\ emitted' \in 0..MaxEvents
    BY <1>0, <1>13, <2>1, EmitTypes DEF NodeStarts
  <2> QED
    BY <1>0, <1>13, <2>2
    DEF NodeInv, TypeOK, WaitIsBounded, PendingIsWatched, NodeStarts, Nodes, Statuses
<1>14. ASSUME NEW ok \in BOOLEAN, RelaySynced(ok)
       PROVE  NodeInv'
  <2>1. inbox' \in Seq(Kinds) /\ emitted' \in 0..MaxEvents
    BY <1>0, <1>14, EmitTypes DEF RelaySynced, Kinds
  <2>2. TypeOK'
    BY <1>0, <1>14, <2>1 DEF TypeOK, RelaySynced, Nodes, Syncs
  <2>3. WaitIsBounded' /\ PendingIsWatched'
    BY <1>0, <1>14 DEF WaitIsBounded, PendingIsWatched, RelaySynced
  <2> QED
    BY <2>2, <2>3 DEF NodeInv
<1>15. CASE NodeNetwork
  <2>1. inbox' \in Seq(Kinds) /\ emitted' \in 0..MaxEvents
    BY <1>0, <1>15, EmitTypes DEF NodeNetwork, Kinds
  <2>2. TypeOK'
    BY <1>0, <1>15, <2>1 DEF TypeOK, NodeNetwork, Nodes
  <2>3. WaitIsBounded' /\ PendingIsWatched'
    BY <1>0, <1>15 DEF WaitIsBounded, PendingIsWatched, NodeNetwork
  <2> QED
    BY <2>2, <2>3 DEF NodeInv
<1>16. CASE NodePairing
  <2>1. inbox' \in Seq(Kinds) /\ emitted' \in 0..MaxEvents
    BY <1>0, <1>16, EmitTypes DEF NodePairing, Kinds
  <2> QED
    BY <1>0, <1>16, <2>1 DEF NodeInv, TypeOK, WaitIsBounded, PendingIsWatched, NodePairing
<1>17. CASE UNCHANGED vars
  BY <1>0, <1>17 DEF NodeInv, TypeOK, WaitIsBounded, PendingIsWatched, vars
<1> QED
  BY <1>1, <1>2, <1>3, <1>4, <1>5, <1>6, <1>7, <1>8, <1>9, <1>10, <1>11, <1>12, <1>13,
     <1>14, <1>15, <1>16, <1>17
  DEF Next, Page, Node

\* The invariant holds in every reachable state.
LEMMA NodeInductive == Spec => []NodeInv
  BY NodeInit, NodeNext, PTL DEF Spec

\* Every variable keeps its type; in particular the clock of the rechecks never
\* passes WAIT_MAX_MS (node-capability-store.ts, refresh).
THEOREM TypeCorrect == Spec => []TypeOK
  BY NodeInductive, PTL DEF NodeInv

\* A recheck is scheduled only while the wait for the node is not over, for every
\* WAIT_MAX_MS (node-capability-store.ts, scheduleFallback).
THEOREM RechecksAreBounded == Spec => []WaitIsBounded
  BY NodeInductive, PTL DEF NodeInv

\* However answers, rechecks and events of the node cross, an unresolved status
\* is waited for: by a request under way or by a recheck to come.
THEOREM SomebodyWatches == Spec => []PendingIsWatched
  BY NodeInductive, PTL DEF NodeInv

------------------------------------------------------------------------------
(* Invites (PairedInvites)                                                  *)

\* The status of a device is backed by its counters of calls and timers.
SenderInv ==
  /\ piStatus \in [Devices -> {"none", "sending", "sent", "failed"}]
  /\ piCalls \in [Devices -> Nat]
  /\ piTimers \in [Devices -> Nat]
  /\ PI!StatusIsBacked

\* The invite in the store is the one received last, is on the screen and not
\* answered yet; nor is one that has not been received.
ReceiverInv ==
  /\ piInvite \in Invites \cup {None} /\ piLatest \in piShown \cup {None}
  /\ piShown \subseteq Invites /\ piTaken \subseteq Invites
  /\ piAnswers \in [Invites -> [yes : Nat, no : Nat]]
  /\ piInvite # None => /\ piInvite = piLatest /\ piDialog
                        /\ piAnswers[piInvite] = PI!Unanswered
  /\ \A i \in Invites \ piShown : piAnswers[i] = PI!Unanswered
  /\ PI!InvitesAreSettled

InvitesInv == SenderInv /\ ReceiverInv

\* No share, no invite.
LEMMA InvitesInit == PI!Init => InvitesInv
<1> SUFFICES ASSUME PI!Init
             PROVE  InvitesInv
  OBVIOUS
<1>1. SenderInv
  BY DEF PI!Init, PI!Zero, PI!NoStatus, SenderInv, PI!StatusIsBacked
<1>2. ReceiverInv
  BY DEF PI!Init, ReceiverInv, PI!InvitesAreSettled, PI!Unanswered
<1> QED BY <1>1, <1>2 DEF InvitesInv

\* The sender's side: whoever sets a status starts or has what takes it away.
LEMMA SenderNext ==
  ASSUME SenderInv, PI!Sender
  PROVE  SenderInv'
<1>1. ASSUME NEW b \in BOOLEAN, PI!SetTicket(b) \/ PI!SetReady(b)
      PROVE  SenderInv'
  <2>1. piStatus' \in {piStatus, [d \in Devices |-> "none"]} /\ UNCHANGED <<piCalls, piTimers>>
    BY <1>1 DEF PI!SetTicket, PI!SetReady, PI!NoStatus
  <2> QED BY <2>1 DEF SenderInv, PI!StatusIsBacked
<1>2. ASSUME NEW d \in Devices, NEW k, PI!Presence(d, k)
      PROVE  SenderInv'
  BY <1>2 DEF SenderInv, PI!StatusIsBacked, PI!Presence
<1>3. ASSUME NEW d \in Devices, PI!OnInvitePairedDevice(d)
      PROVE  SenderInv'
  BY <1>3 DEF SenderInv, PI!StatusIsBacked, PI!OnInvitePairedDevice
<1>4. ASSUME NEW d \in Devices, NEW delivered \in BOOLEAN, PI!InviteAnswer(d, delivered)
      PROVE  SenderInv'
  BY <1>4 DEF SenderInv, PI!StatusIsBacked, PI!InviteAnswer
<1>5. ASSUME NEW d \in Devices, PI!FailureTimer(d)
      PROVE  SenderInv'
  BY <1>5 DEF SenderInv, PI!StatusIsBacked, PI!FailureTimer
<1>6. ASSUME NEW d \in Devices, PI!InviteResponse(d)
      PROVE  SenderInv'
  BY <1>6 DEF SenderInv, PI!StatusIsBacked, PI!InviteResponse
<1> QED BY <1>1, <1>2, <1>3, <1>4, <1>5, <1>6 DEF PI!Sender

\* decline() answers the invite in the store, and a second call nothing.
LEMMA DeclineFacts ==
  ASSUME ReceiverInv, PI!Decline
  PROVE  \/ UNCHANGED <<piInvite, piAnswers>>
         \/ /\ piInvite # None /\ piInvite' = None
            /\ piAnswers' = [piAnswers EXCEPT ![piInvite].no = @ + 1]
<1> DEFINE s == PI!Declined(PI!Store)
<1>1. CASE piInvite = None
  <2>1. s = PI!Store /\ PI!Declined(s) = PI!Store
    BY <1>1 DEF PI!Declined, PI!Store
  <2> QED BY <2>1 DEF PI!Decline, PI!Store
<1>2. CASE piInvite # None
  <2>1. s = [invite |-> None, answers |-> [piAnswers EXCEPT ![piInvite].no = @ + 1]]
    BY <1>2 DEF PI!Declined, PI!Store
  <2>2. s.invite = None
    BY <2>1
  <2>3. PI!Declined(s) = s
    <3> HIDE DEF s
    <3> QED BY <2>2 DEF PI!Declined
  <2>4. piInvite' = s.invite /\ piAnswers' = s.answers
    BY <2>3 DEF PI!Decline
  <2> QED BY <1>2, <2>1, <2>4
<1> QED BY <1>1, <1>2

\* The receiver's side: the invite is taken out of the store before it is answered.
LEMMA ReceiverNext ==
  ASSUME ReceiverInv, PI!Receiver
  PROVE  ReceiverInv'
<1> USE MCSettingsAssumption
<1>1. ASSUME NEW i \in Invites, PI!InviteReceived(i)
      PROVE  ReceiverInv'
  BY <1>1 DEF ReceiverInv, PI!InvitesAreSettled, PI!InviteReceived, PI!Unanswered
<1>2. CASE PI!Decline
  <2>1. UNCHANGED <<piDialog, piShown, piLatest, piTaken>>
    BY <1>2 DEF PI!Decline
  <2>2. CASE UNCHANGED <<piInvite, piAnswers>>
    BY <2>1, <2>2 DEF ReceiverInv, PI!InvitesAreSettled
  <2>3. CASE /\ piInvite # None /\ piInvite' = None
             /\ piAnswers' = [piAnswers EXCEPT ![piInvite].no = @ + 1]
    BY <2>1, <2>3 DEF ReceiverInv, PI!InvitesAreSettled, PI!Unanswered
  <2> QED BY <1>2, <2>2, <2>3, DeclineFacts
<1>3. CASE PI!Accept
  BY <1>3 DEF ReceiverInv, PI!InvitesAreSettled, PI!Accept, PI!Unanswered
<1>4. CASE PI!Closed
  BY <1>4 DEF ReceiverInv, PI!InvitesAreSettled, PI!Closed
<1>5. ASSUME NEW b, PI!Register(b)
      PROVE  ReceiverInv'
  BY <1>5 DEF ReceiverInv, PI!InvitesAreSettled, PI!Register
<1> QED BY <1>1, <1>2, <1>3, <1>4, <1>5 DEF PI!Receiver

\* The two halves share nothing.
LEMMA InvitesNext ==
  ASSUME InvitesInv, PI!Next \/ UNCHANGED piVars
  PROVE  InvitesInv'
<1>1. ASSUME UNCHANGED <<piStatus, piCalls, piTimers>>
      PROVE  SenderInv'
  BY <1>1 DEF InvitesInv, SenderInv, PI!StatusIsBacked
<1>2. ASSUME UNCHANGED <<piInvite, piDialog, piShown, piLatest, piAnswers, piTaken>>
      PROVE  ReceiverInv'
  BY <1>2 DEF InvitesInv, ReceiverInv, PI!InvitesAreSettled
<1>3. CASE PI!Sender
  <2>1. UNCHANGED <<piInvite, piDialog, piShown, piLatest, piAnswers, piTaken>>
    BY <1>3 DEF PI!Sender, PI!SetTicket, PI!SetReady, PI!Presence, PI!OnInvitePairedDevice,
                PI!InviteAnswer, PI!FailureTimer, PI!InviteResponse, PI!receiverVars
  <2> QED BY <1>2, <1>3, <2>1, SenderNext DEF InvitesInv
<1>4. CASE PI!Receiver
  <2>1. UNCHANGED <<piStatus, piCalls, piTimers>>
    BY <1>4 DEF PI!Receiver, PI!InviteReceived, PI!Decline, PI!Accept, PI!Closed,
                PI!Register, PI!senderVars
  <2> QED BY <1>1, <1>4, <2>1, ReceiverNext DEF InvitesInv
<1>5. ASSUME UNCHANGED piVars
      PROVE  InvitesInv'
  BY <1>1, <1>2, <1>5 DEF piVars, InvitesInv
<1> QED
  BY <1>3, <1>4, <1>5 DEF PI!Next

------------------------------------------------------------------------------
(* The relay settings (RelaySettings)                                       *)

\* A URL is being checked only in a test of custom relays that it is part of.
RelayInv ==
  /\ rsTesting.busy \in BOOLEAN /\ rsTesting.custom \in BOOLEAN
  /\ DOMAIN rsVerdict = RS!Kinds
  /\ \A k \in RS!Kinds : rsVerdict[k] = "checking" =>
                           rsTesting.busy /\ rsTesting.custom /\ k \in rsTesting.urls
  /\ RS!StatusIsCurrent

\* No test is under way.
LEMMA NoTestFacts ==
  /\ RS!NoTest.busy = FALSE /\ RS!NoTest.custom = FALSE
  /\ [RS!NoTest EXCEPT !.busy = TRUE].busy = TRUE
  /\ [RS!NoTest EXCEPT !.busy = TRUE].custom = FALSE
  BY DEF RS!NoTest

\* The application starts with what was persisted.
LEMMA RelayInit == RS!Init => RelayInv
<1> SUFFICES ASSUME RS!Init
             PROVE  RelayInv
  OBVIOUS
<1>1. /\ rsTesting = RS!NoTest /\ rsVerdict = [k \in RS!Kinds |-> "none"]
      /\ rsStatus = [loading |-> TRUE, current |-> FALSE]
  BY DEF RS!Init
<1>3. RS!StatusIsCurrent
  BY <1>1 DEF RS!StatusIsCurrent
<1> QED BY <1>1, <1>3, NoTestFacts DEF RelayInv

\* Any change of a setting asks for its status anew.
LEMMA ChangeFacts ==
  ASSUME RelayInv, NEW a, RS!Change(a), UNCHANGED <<rsWeb, rsTesting, rsVerdict>>
  PROVE  RelayInv'
<1>1. rsStatus' = [loading |-> TRUE, current |-> FALSE]
  BY DEF RS!Change
<1>3. RS!StatusIsCurrent'
  BY <1>1 DEF RS!StatusIsCurrent
<1> QED BY <1>3 DEF RelayInv

\* An edit is such a change, whichever row or switch it is of.
LEMMA EditFacts ==
  ASSUME RelayInv, NEW a, RS!Edit(a)
  PROVE  RelayInv'
  BY ChangeFacts DEF RS!Edit

\* A test begins, ends, or is left behind with the settings.
LEMMA TestFacts ==
  ASSUME RelayInv, UNCHANGED <<rsWeb, rsStatus>>,
         \/ RS!VerifyCustomRelays \/ RS!TestDefault \/ RS!Left
         \/ \E good \in SUBSET rsTesting.urls : RS!VerifyAnswer(good)
         \/ \E ok \in BOOLEAN : RS!TestAnswer(ok)
  PROVE  RelayInv'
<1>1. RS!StatusIsCurrent'
  BY DEF RelayInv, RS!StatusIsCurrent
<1>2. CASE RS!VerifyCustomRelays
  <2> DEFINE urls == RS!ToSet(RS!Trimmed(rsApp.urls))
  <2>1. /\ ~rsTesting.busy
        /\ \A u \in urls : RS!IsValidRelayUrl(u)
        /\ rsTesting' = [busy |-> TRUE, custom |-> TRUE, urls |-> urls, token |-> rsApp.token]
        /\ rsVerdict' = [k \in RS!Kinds |-> IF k \in urls THEN "checking" ELSE rsVerdict[k]]
    BY <1>2 DEF RS!VerifyCustomRelays, RS!CanTest
  <2> HIDE DEF urls
  <2> QED BY <1>1, <2>1 DEF RelayInv
<1>3. CASE RS!TestDefault
  <2>1. /\ ~rsTesting.busy /\ rsVerdict' = rsVerdict
        /\ rsTesting' = [RS!NoTest EXCEPT !.busy = TRUE]
    BY <1>3 DEF RS!TestDefault, RS!CanTest
  <2> QED BY <1>1, <2>1, NoTestFacts DEF RelayInv
<1>4. CASE RS!Left
  <2>1. rsTesting' = RS!NoTest /\ rsVerdict' = [k \in RS!Kinds |-> "none"]
    BY <1>4 DEF RS!Left
  <2> QED BY <1>1, <2>1, NoTestFacts DEF RelayInv
<1>5. ASSUME NEW good \in SUBSET rsTesting.urls, RS!VerifyAnswer(good)
      PROVE  RelayInv'
  <2>1. /\ rsTesting' = RS!NoTest
        /\ rsVerdict' = [k \in RS!Kinds |-> IF k \in good THEN "ok"
                                           ELSE IF k \in rsTesting.urls THEN "failed" ELSE rsVerdict[k]]
    BY <1>5 DEF RS!VerifyAnswer
  <2> QED BY <1>1, <2>1, NoTestFacts DEF RelayInv
<1>6. ASSUME NEW ok, RS!TestAnswer(ok)
      PROVE  RelayInv'
  <2>1. rsTesting' = RS!NoTest /\ rsVerdict' = rsVerdict /\ ~rsTesting.custom
    BY <1>6 DEF RS!TestAnswer
  <2> QED BY <1>1, <2>1, NoTestFacts DEF RelayInv
<1> QED BY <1>2, <1>3, <1>4, <1>5, <1>6

\* Every step of the page, the guard, the footer and the engine.
LEMMA RelayNext ==
  ASSUME RelayInv, RS!Next \/ UNCHANGED rsVars
  PROVE  RelayInv'
<1>1. ASSUME UNCHANGED <<rsWeb, rsTesting, rsVerdict, rsStatus>>
      PROVE  RelayInv'
  BY <1>1 DEF RelayInv, RS!StatusIsCurrent
<1>2. ASSUME \/ \E m \in RS!Modes : RS!HandleModeChange(m)
             \/ \E f \in RS!Fallbacks : RS!HandleFallbackChange(f)
             \/ \E b \in BOOLEAN : RS!SetRelayAuthToken(b)
             \/ \E i \in 1..Len(rsApp.urls) : RS!RemoveUrl(i) \/ \E k \in RS!Kinds : RS!UpdateUrl(i, k)
             \/ RS!AddUrl
      PROVE  \E a : RS!Edit(a)
  BY <1>2 DEF RS!HandleModeChange, RS!HandleFallbackChange, RS!SetRelayAuthToken, RS!RemoveUrl,
              RS!UpdateUrl, RS!AddUrl
<1>3. ASSUME \/ RS!VerifyCustomRelays \/ RS!TestDefault
             \/ \E good \in SUBSET rsTesting.urls : RS!VerifyAnswer(good)
             \/ \E ok \in BOOLEAN : RS!TestAnswer(ok)
      PROVE  RelayInv'
  <2>1. UNCHANGED <<rsWeb, rsStatus>>
    BY <1>3 DEF RS!VerifyCustomRelays, RS!TestDefault, RS!VerifyAnswer, RS!TestAnswer
  <2> QED BY <1>3, <2>1, TestFacts
<1>4. CASE RS!Enter
  <2>1. UNCHANGED <<rsWeb, rsTesting, rsVerdict>>
    BY <1>4 DEF RS!Enter
  <2>2. CASE rsWeb /\ rsApp.mode = "disabled"
    BY <1>4, <2>1, <2>2, ChangeFacts DEF RS!Enter
  <2>3. CASE ~(rsWeb /\ rsApp.mode = "disabled")
    BY <1>1, <1>4, <2>1, <2>3 DEF RS!Enter
  <2> QED BY <2>2, <2>3
<1>5. CASE RS!Leave
  <2>1. UNCHANGED <<rsWeb, rsStatus>>
    BY <1>5 DEF RS!Leave
  <2>2. CASE RS!Warns
    BY <1>1, <1>5, <2>1, <2>2 DEF RS!Leave
  <2>3. CASE ~RS!Warns
    BY <1>5, <2>1, <2>3, TestFacts DEF RS!Leave
  <2> QED BY <2>2, <2>3
<1>6. CASE RS!CancelLeave
  BY <1>1, <1>6 DEF RS!CancelLeave
<1>7. ASSUME NEW ready \in BOOLEAN, RS!ConfirmLeave(ready)
      PROVE  RelayInv'
  <2>1. /\ rsTesting' = RS!NoTest /\ rsVerdict' = [k \in RS!Kinds |-> "none"]
        /\ rsWeb' = rsWeb /\ rsStatus' = rsStatus
    BY <1>7 DEF RS!ConfirmLeave, RS!Left
  <2>3. RS!StatusIsCurrent'
    BY <2>1 DEF RelayInv, RS!StatusIsCurrent
  <2> QED BY <2>1, <2>3, NoTestFacts DEF RelayInv
<1>8. ASSUME NEW fresh \in BOOLEAN, RS!StatusAnswer(fresh)
      PROVE  RelayInv'
  <2>1. /\ UNCHANGED <<rsWeb, rsTesting, rsVerdict>>
        /\ rsStatus' \in {rsStatus, [loading |-> FALSE, current |-> TRUE]}
    BY <1>8 DEF RS!StatusAnswer
  <2> QED BY <2>1 DEF RelayInv, RS!StatusIsCurrent
<1>9. ASSUME UNCHANGED rsVars
      PROVE  RelayInv'
  BY <1>1, <1>9 DEF rsVars
<1> QED
  BY <1>2, <1>3, <1>4, <1>5, <1>6, <1>7, <1>8, <1>9, EditFacts DEF RS!Next

\* A row that spins is part of the test under way.
LEMMA SpinningRow == RelayInv => RS!CheckingIsUnderWay
  BY DEF RelayInv, RS!CheckingIsUnderWay, RS!RowMark, RS!IsValidRelayUrl, RS!Kinds

------------------------------------------------------------------------------
(* Pairing (PairingSettings)                                                *)

\* Only a list is followed by the end of a join or of a rename, and a join is of a
\* device.
CallsAreShaped ==
  \A c \in psPend : /\ c.then # "none" => c.k = "list"
                    /\ c.k = "join" => c.p \in Peers

PairingInv == PS!TypeOK /\ CallsAreShaped /\ PS!CountdownHasTicket /\ PS!BusyHasCall

CallKinds == {"open", "stop", "join", "forget", "rename", "list"}

\* A call that has just been made.
LEMMA CallFacts ==
  ASSUME NEW k \in CallKinds, NEW p \in Peers \cup {None}
  PROVE  /\ PS!Call(k, p) \in PS!Calls
         /\ PS!Call(k, p).k = k /\ PS!Call(k, p).p = p /\ PS!Call(k, p).gone = FALSE
         /\ PS!Call(k, p).then = "none"
<1>1. 0 \in 0..MaxCalls /\ {} \in SUBSET Peers
  BY MCSettingsAssumption
<1> QED BY <1>1 DEF PS!Call, PS!Calls, CallKinds

\* A call goes, and others come: what is shown as busy still has its call when the
\* call that went does not end it.
LEMMA PendFacts ==
  ASSUME PairingInv, NEW new \in SUBSET PS!Calls,
         \A d \in new : (d.then # "none" => d.k = "list") /\ (d.k = "join" => d.p \in Peers),
         NEW old, psPend' = (psPend \ old) \cup new,
         psUi' \in PS!Uis, PS!CountdownHasTicket',
         psUi'.loading => \E d \in psPend' : d.k = "open" /\ ~d.gone,
         psUi'.joining => \E d \in psPend' : "join" \in {d.k, d.then} /\ ~d.gone,
         psDevices' \subseteq Peers, psNode' \in PS!Nodes,
         psInbox' \in Seq({"paired", "expired", "unpaired"}), psUsed' \in 0..MaxCalls
  PROVE  PairingInv'
<1>1. PS!TypeOK'
  BY DEF PairingInv, PS!TypeOK
<1>2. CallsAreShaped'
  BY DEF PairingInv, CallsAreShaped
<1>3. PS!BusyHasCall'
  BY DEF PS!BusyHasCall
<1> QED BY <1>1, <1>2, <1>3 DEF PairingInv

\* The page has just been mounted.
LEMMA MountedFacts ==
  /\ PS!Mounted \in PS!Uis
  /\ PS!Mounted.left = PS!NoCountdown /\ PS!Mounted.loading = FALSE /\ PS!Mounted.joining = FALSE
<1>1. 0 \in 0..MaxCalls
  BY MCSettingsAssumption
<1> QED BY <1>1 DEF PS!Mounted, PS!Uis

LEMMA PairingInit == PS!Init => PairingInv
<1> SUFFICES ASSUME PS!Init
             PROVE  PairingInv
  OBVIOUS
<1>1. /\ psUi = PS!Mounted /\ psDevices = {} /\ psPend = {} /\ psInbox = <<>> /\ psUsed = 0
      /\ psNode = [window |-> 0, paired |-> {}]
  BY DEF PS!Init
<1>2. 0 \in 0..MaxCalls /\ {} \in SUBSET Peers /\ <<>> \in Seq({"paired", "expired", "unpaired"})
  BY MCSettingsAssumption
<1>3. psNode \in PS!Nodes
  BY <1>1, <1>2 DEF PS!Nodes
<1>4. PS!TypeOK
  BY <1>1, <1>2, <1>3, MountedFacts DEF PS!TypeOK
<1> QED
  BY <1>1, <1>4, MountedFacts DEF PairingInv, CallsAreShaped, PS!CountdownHasTicket, PS!BusyHasCall

\* What the page shows changes; no call is made or answered.
LEMMA ShownFacts ==
  ASSUME PairingInv, UNCHANGED <<psDevices, psPend, psNode, psInbox, psUsed>>, psUi' \in PS!Uis,
         psUi'.loading => psUi.loading, psUi'.joining => psUi.joining,
         PS!CountdownHasTicket'
  PROVE  PairingInv'
  BY DEF PairingInv, PS!TypeOK, CallsAreShaped, PS!BusyHasCall

\* The countdown, and the dialogs.
LEMMA PairingShown ==
  ASSUME PairingInv,
         \/ PS!Tick \/ PS!OpenJoin \/ PS!CloseJoin \/ PS!CloseRename
         \/ \E p \in Peers : PS!OpenRename(p)
  PROVE  PairingInv'
<1>0. psUi \in PS!Uis /\ PS!CountdownHasTicket
  BY DEF PairingInv, PS!TypeOK
<1>1. UNCHANGED <<psDevices, psPend, psNode, psInbox, psUsed>>
  BY DEF PS!Tick, PS!OpenJoin, PS!CloseJoin, PS!CloseRename, PS!OpenRename
<1>2. CASE PS!Tick
  <2> DEFINE n == IF psUi.left <= 1 THEN PS!NoCountdown ELSE psUi.left - 1
  <2>1. psUi' = [psUi EXCEPT !.left = n] /\ psUi.left > 0
    BY <1>2 DEF PS!Tick
  <2>2. psUi.left \in 1..TTL
    BY <1>0, <2>1 DEF PS!Uis, PS!NoCountdown
  <2>3. n \in {PS!NoCountdown} \cup (1..TTL)
    BY <2>2, MCSettingsAssumption
  <2>4. psUi.left # PS!NoCountdown
    BY <2>2 DEF PS!NoCountdown
  <2> HIDE DEF n
  <2>5. psUi' \in PS!Uis /\ psUi'.loading = psUi.loading /\ psUi'.joining = psUi.joining
        /\ psUi'.ticket = psUi.ticket
    BY <1>0, <2>1, <2>3 DEF PS!Uis
  <2>6. PS!CountdownHasTicket'
    BY <1>0, <2>4, <2>5 DEF PS!CountdownHasTicket
  <2> QED BY <1>1, <2>5, <2>6, ShownFacts
<1>3. ASSUME NEW b \in BOOLEAN, NEW p \in Peers \cup {None}, NEW s \in BOOLEAN,
             \/ psUi' = [psUi EXCEPT !.joinOpen = b]
             \/ psUi' = [[psUi EXCEPT !.rename = p] EXCEPT !.saving = s]
      PROVE  PairingInv'
  <2>1. /\ psUi' \in PS!Uis /\ psUi'.loading = psUi.loading /\ psUi'.joining = psUi.joining
        /\ psUi'.left = psUi.left /\ psUi'.ticket = psUi.ticket
    BY <1>0, <1>3 DEF PS!Uis
  <2>2. PS!CountdownHasTicket'
    BY <1>0, <2>1 DEF PS!CountdownHasTicket
  <2> QED BY <1>1, <2>1, <2>2, ShownFacts
<1>4. CASE PS!OpenJoin \/ PS!CloseJoin
  BY <1>3, <1>4 DEF PS!OpenJoin, PS!CloseJoin
<1>5. CASE PS!CloseRename \/ \E p \in Peers : PS!OpenRename(p)
  BY <1>3, <1>5 DEF PS!CloseRename, PS!OpenRename
<1> QED BY <1>2, <1>4, <1>5

\* Events come and go.
LEMMA EmitFacts ==
  ASSUME PS!TypeOK
  PROVE  /\ \A kind \in {"paired", "expired", "unpaired"} :
              PS!Emit(kind) => psInbox' \in Seq({"paired", "expired", "unpaired"})
         /\ \A kind : PS!Handle(kind) => psInbox' \in Seq({"paired", "expired", "unpaired"})
  BY SMTT(30) DEF PS!TypeOK, PS!Emit, PS!Handle

\* The list that follows a join or a rename, and the list after an event.
LEMMA ListingFacts ==
  ASSUME PairingInv, NEW c \in psPend, c.k \in {"join", "rename"}
  PROVE  \E l \in PS!Calls : /\ PS!ListingThen(c) = (psPend \ {c}) \cup {l}
                             /\ l.k = "list" /\ l.then = c.k /\ l.gone = c.gone
<1> DEFINE l == [[PS!Call("list", None) EXCEPT !.then = c.k] EXCEPT !.gone = c.gone]
<1>1. c \in PS!Calls
  BY DEF PairingInv, PS!TypeOK
<1>2. c.gone \in BOOLEAN
  BY <1>1 DEF PS!Calls
<1>3. PS!Call("list", None) \in PS!Calls /\ PS!Call("list", None).k = "list"
  BY CallFacts DEF CallKinds
<1>4. l \in PS!Calls /\ l.k = "list" /\ l.then = c.k /\ l.gone = c.gone
  BY <1>2, <1>3 DEF PS!Calls
<1>5. PS!ListingThen(c) = (psPend \ {c}) \cup {l}
  BY DEF PS!ListingThen
<1> QED BY <1>4, <1>5

\* A button of the page makes a call; the copy button and the join dialog are busy
\* from then on.
LEMMA PairingCalls ==
  ASSUME PairingInv,
         \/ PS!CopyPairingCode \/ PS!CancelHost \/ PS!SaveName
         \/ \E p \in Peers : PS!Join(p) \/ PS!Forget(p)
  PROVE  PairingInv'
<1>0. /\ PS!TypeOK /\ psUi \in PS!Uis /\ PS!CountdownHasTicket /\ PS!BusyHasCall
      /\ psDevices \subseteq Peers /\ psNode \in PS!Nodes
      /\ psInbox \in Seq({"paired", "expired", "unpaired"}) /\ psUsed \in 0..MaxCalls
  BY DEF PairingInv, PS!TypeOK
<1>1. UNCHANGED <<psDevices, psNode, psInbox>>
  BY DEF PS!CopyPairingCode, PS!CancelHost, PS!SaveName, PS!Join, PS!Forget
<1>2. psUsed' \in 0..MaxCalls
  <2>1. psUsed' = psUsed \/ (psUsed < MaxCalls /\ psUsed' = psUsed + 1)
    BY DEF PS!CopyPairingCode, PS!CancelHost, PS!SaveName, PS!Join, PS!Forget
  <2> QED BY <1>0, <2>1, MCSettingsAssumption
<1>3. ASSUME NEW k \in CallKinds,
             NEW p \in Peers \cup {None}, k = "join" => p \in Peers,
             psPend' = psPend \cup {PS!Call(k, p)}, psUi' \in PS!Uis, PS!CountdownHasTicket',
             psUi'.loading => psUi.loading \/ k = "open",
             psUi'.joining => psUi.joining \/ k = "join"
      PROVE  PairingInv'
  <2>0. /\ PS!Call(k, p) \in PS!Calls
        /\ PS!Call(k, p).k = k /\ PS!Call(k, p).p = p /\ PS!Call(k, p).gone = FALSE
        /\ PS!Call(k, p).then = "none"
    BY CallFacts
  <2> DEFINE c == PS!Call(k, p)
  <2>1. c \in PS!Calls /\ c.k = k /\ c.p = p /\ c.gone = FALSE /\ c.then = "none"
    BY <2>0
  <2> HIDE DEF c
  <2>2. psPend' = (psPend \ {}) \cup {c}
    BY <1>3 DEF c
  <2>3. psUi'.loading => \E d \in psPend' : d.k = "open" /\ ~d.gone
    BY <1>0, <1>3, <2>1, <2>2 DEF PS!BusyHasCall
  <2>4. psUi'.joining => \E d \in psPend' : "join" \in {d.k, d.then} /\ ~d.gone
    BY <1>0, <1>3, <2>1, <2>2 DEF PS!BusyHasCall
  <2>5. \A d \in {c} : (d.then # "none" => d.k = "list") /\ (d.k = "join" => d.p \in Peers)
    BY <1>3, <2>1
  <2>6. {c} \in SUBSET PS!Calls
    BY <2>1
  <2>7. psDevices' \subseteq Peers /\ psNode' \in PS!Nodes /\ psInbox' \in Seq({"paired", "expired", "unpaired"})
    BY <1>0, <1>1
  <2> QED BY <1>2, <1>3, <2>2, <2>3, <2>4, <2>5, <2>6, <2>7, PendFacts
<1>4. CASE PS!CopyPairingCode
  <2>1. psUi' = [psUi EXCEPT !.loading = TRUE] /\ psPend' = psPend \cup {PS!Call("open", None)}
    BY <1>4 DEF PS!CopyPairingCode
  <2>2. /\ psUi' \in PS!Uis /\ psUi'.joining = psUi.joining
        /\ psUi'.left = psUi.left /\ psUi'.ticket = psUi.ticket
    BY <1>0, <2>1 DEF PS!Uis
  <2>3. PS!CountdownHasTicket'
    BY <1>0, <2>2 DEF PS!CountdownHasTicket
  <2> QED BY <1>3, <2>1, <2>2, <2>3 DEF CallKinds
<1>5. CASE PS!CancelHost
  <2>1. psUi' = PS!Closed(psUi) /\ psPend' = psPend \cup {PS!Call("stop", None)}
    BY <1>5 DEF PS!CancelHost
  <2>2. 0 \in 0..MaxCalls
    BY MCSettingsAssumption
  <2>3. /\ psUi' \in PS!Uis /\ psUi'.joining = psUi.joining /\ psUi'.loading = psUi.loading
        /\ psUi'.left = PS!NoCountdown
    BY <1>0, <2>1, <2>2 DEF PS!Uis, PS!Closed
  <2>4. PS!CountdownHasTicket'
    BY <2>3 DEF PS!CountdownHasTicket
  <2> QED BY <1>3, <2>1, <2>3, <2>4 DEF CallKinds
<1>6. CASE PS!SaveName
  <2>1. psUi' = [psUi EXCEPT !.saving = TRUE] /\ psPend' = psPend \cup {PS!Call("rename", psUi.rename)}
    BY <1>6 DEF PS!SaveName
  <2>2. /\ psUi' \in PS!Uis /\ psUi'.joining = psUi.joining /\ psUi'.loading = psUi.loading
        /\ psUi'.left = psUi.left /\ psUi'.ticket = psUi.ticket /\ psUi.rename \in Peers \cup {None}
    BY <1>0, <2>1 DEF PS!Uis
  <2>3. PS!CountdownHasTicket'
    BY <1>0, <2>2 DEF PS!CountdownHasTicket
  <2> QED BY <1>3, <2>1, <2>2, <2>3 DEF CallKinds
<1>7. ASSUME NEW p \in Peers, PS!Join(p)
      PROVE  PairingInv'
  <2>1. psUi' = [psUi EXCEPT !.joining = TRUE] /\ psPend' = psPend \cup {PS!Call("join", p)}
    BY <1>7 DEF PS!Join
  <2>2. /\ psUi' \in PS!Uis /\ psUi'.loading = psUi.loading
        /\ psUi'.left = psUi.left /\ psUi'.ticket = psUi.ticket
    BY <1>0, <2>1 DEF PS!Uis
  <2>3. PS!CountdownHasTicket'
    BY <1>0, <2>2 DEF PS!CountdownHasTicket
  <2> QED BY <1>3, <2>1, <2>2, <2>3 DEF CallKinds
<1>8. ASSUME NEW p \in Peers, PS!Forget(p)
      PROVE  PairingInv'
  <2>1. psUi' = psUi /\ psPend' = psPend \cup {PS!Call("forget", p)}
    BY <1>8 DEF PS!Forget
  <2>2. PS!CountdownHasTicket'
    BY <1>0, <2>1 DEF PS!CountdownHasTicket
  <2> QED BY <1>0, <1>3, <2>1, <2>2 DEF CallKinds
<1> QED BY <1>4, <1>5, <1>6, <1>7, <1>8

\* The node does what it was asked; the call is still to be answered, or was only
\* to be made.
LEMMA PairingNode ==
  ASSUME PairingInv,
         \/ \E c \in psPend, ok \in BOOLEAN : PS!NodeOpens(c, ok)
         \/ \E c \in psPend : PS!NodeStops(c) \/ PS!NodeLists(c)
         \/ \E p \in Peers : PS!PeerJoins(p) \/ PS!PeerForgets(p)
         \/ PS!WindowExpires
  PROVE  PairingInv'
<1>0. /\ PS!TypeOK /\ psUi \in PS!Uis /\ PS!CountdownHasTicket /\ PS!BusyHasCall /\ CallsAreShaped
      /\ psDevices \subseteq Peers /\ psNode \in PS!Nodes /\ psPend \subseteq PS!Calls
      /\ psInbox \in Seq({"paired", "expired", "unpaired"}) /\ psUsed \in 0..MaxCalls
  BY DEF PairingInv, PS!TypeOK
<1>1. UNCHANGED <<psUi, psDevices, psUsed>> /\ PS!CountdownHasTicket'
  BY <1>0 DEF PS!NodeOpens, PS!NodeStops, PS!NodeLists, PS!PeerJoins, PS!PeerForgets,
              PS!WindowExpires, PS!CountdownHasTicket
<1>2. 0 \in 0..MaxCalls /\ psNode.paired \in SUBSET Peers /\ psNode.window \in 0..MaxCalls
  BY <1>0, MCSettingsAssumption DEF PS!Nodes
<1>3. ASSUME NEW c \in psPend, NEW w \in 0..MaxCalls, PS!Done(c, w), psInbox' = psInbox,
             psNode' \in PS!Nodes
      PROVE  PairingInv'
  <2> DEFINE list == IF c.k = "list" THEN psNode.paired ELSE {}
             d == [[[c EXCEPT !.at = "done"] EXCEPT !.w = w] EXCEPT !.list = list]
  <2>1. psPend' = (psPend \ {c}) \cup {d}
    BY <1>3 DEF PS!Done
  <2>2. list \in SUBSET Peers
    BY <1>2
  <2> HIDE DEF list
  <2>3. d \in PS!Calls /\ d.k = c.k /\ d.p = c.p /\ d.gone = c.gone /\ d.then = c.then
    BY <1>0, <2>2 DEF PS!Calls
  <2> HIDE DEF d
  <2>4. \A e \in {d} : (e.then # "none" => e.k = "list") /\ (e.k = "join" => e.p \in Peers)
    BY <1>0, <2>3 DEF CallsAreShaped
  <2>5. psUi'.loading => \E e \in psPend' : e.k = "open" /\ ~e.gone
    BY <1>0, <1>1, <2>1, <2>3 DEF PS!BusyHasCall
  <2>6. psUi'.joining => \E e \in psPend' : "join" \in {e.k, e.then} /\ ~e.gone
    BY <1>0, <1>1, <2>1, <2>3 DEF PS!BusyHasCall
  <2>7. {d} \in SUBSET PS!Calls
    BY <2>3
  <2> QED BY <1>0, <1>1, <1>3, <2>1, <2>4, <2>5, <2>6, <2>7, PendFacts
<1>4. ASSUME NEW c \in psPend, NEW ok \in BOOLEAN, PS!NodeOpens(c, ok)
      PROVE  PairingInv'
  <2>1. psNode' = IF ok THEN [psNode EXCEPT !.window = psUsed] ELSE psNode
    BY <1>4 DEF PS!NodeOpens
  <2>2. psNode' \in PS!Nodes
    BY <1>0, <2>1 DEF PS!Nodes
  <2>3. PS!Done(c, IF ok THEN psUsed ELSE 0) /\ psInbox' = psInbox
    BY <1>4 DEF PS!NodeOpens
  <2>4. (IF ok THEN psUsed ELSE 0) \in 0..MaxCalls
    BY <1>0, <1>2
  <2> QED BY <1>3, <2>2, <2>3, <2>4
<1>5. ASSUME NEW c \in psPend, PS!NodeLists(c)
      PROVE  PairingInv'
  <2>1. PS!Done(c, 0) /\ psInbox' = psInbox /\ psNode' = psNode
    BY <1>5 DEF PS!NodeLists
  <2> QED BY <1>0, <1>2, <1>3, <2>1
<1>6. ASSUME NEW old \in SUBSET psPend, \A c \in old : c.k = "stop", psPend' = psPend \ old,
             psNode' \in PS!Nodes, psInbox' \in Seq({"paired", "expired", "unpaired"})
      PROVE  PairingInv'
  <2>1. psPend' = (psPend \ old) \cup {} /\ {} \in SUBSET PS!Calls
    BY <1>6
  <2>2. psUi'.loading => \E e \in psPend' : e.k = "open" /\ ~e.gone
    BY <1>0, <1>1, <1>6 DEF PS!BusyHasCall
  <2>3. psUi'.joining => \E e \in psPend' : "join" \in {e.k, e.then} /\ ~e.gone
    BY <1>0, <1>1, <1>6 DEF PS!BusyHasCall, CallsAreShaped
  <2> QED BY <1>0, <1>1, <1>6, <2>1, <2>2, <2>3, PendFacts
<1>7. ASSUME NEW c \in psPend, PS!NodeStops(c)
      PROVE  PairingInv'
  <2>1. /\ c.k = "stop" /\ psPend' = psPend \ {c} /\ psInbox' = psInbox
        /\ psNode' = [psNode EXCEPT !.window = 0]
    BY <1>7 DEF PS!NodeStops
  <2>2. psNode' \in PS!Nodes
    BY <1>0, <1>2, <2>1 DEF PS!Nodes
  <2>3. {c} \in SUBSET psPend /\ \A d \in {c} : d.k = "stop"
    BY <2>1
  <2>4. psInbox' \in Seq({"paired", "expired", "unpaired"})
    BY <1>0, <2>1
  <2> HIDE DEF PS!NodeStops
  <2> QED BY <1>6, <2>1, <2>2, <2>3, <2>4
<1>8. ASSUME psPend' = psPend, psNode' \in PS!Nodes,
             psInbox' \in Seq({"paired", "expired", "unpaired"})
      PROVE  PairingInv'
  <2>1. psPend' = psPend \ {} /\ {} \in SUBSET psPend /\ \A d \in {} : d.k = "stop"
    BY <1>8
  <2> QED BY <1>6, <1>8, <2>1
<1>9. ASSUME NEW p \in Peers, PS!PeerJoins(p) \/ PS!PeerForgets(p)
      PROVE  PairingInv'
  <2>1. PICK P \in SUBSET Peers, w \in 0..MaxCalls :
          psNode' = [[psNode EXCEPT !.window = w] EXCEPT !.paired = P]
    <3>1. CASE PS!PeerJoins(p)
      <4>1. psNode' = [[psNode EXCEPT !.window = 0] EXCEPT !.paired = psNode.paired \cup {p}]
        BY <1>0, <3>1 DEF PS!PeerJoins, PS!Nodes
      <4>2. psNode.paired \cup {p} \in SUBSET Peers
        BY <1>2
      <4> QED BY <1>2, <4>1, <4>2
    <3>2. CASE PS!PeerForgets(p)
      <4>1. psNode' = [psNode EXCEPT !.paired = psNode.paired \ {p}]
        BY <1>0, <3>2 DEF PS!PeerForgets, PS!Nodes
      <4>2. psNode' = [[psNode EXCEPT !.window = psNode.window] EXCEPT !.paired = psNode.paired \ {p}]
        BY <1>0, <4>1 DEF PS!Nodes
      <4>3. psNode.paired \ {p} \in SUBSET Peers
        BY <1>2
      <4> QED BY <1>2, <4>2, <4>3
    <3> QED BY <1>9, <3>1, <3>2
  <2>2. psNode' \in PS!Nodes
    BY <1>0, <2>1 DEF PS!Nodes
  <2>3. psPend' = psPend /\ psInbox' \in Seq({"paired", "expired", "unpaired"})
    BY <1>0, <1>9, EmitFacts DEF PS!PeerJoins, PS!PeerForgets
  <2> QED BY <1>8, <2>2, <2>3
<1>10. CASE PS!WindowExpires
  <2>1. psNode' = [psNode EXCEPT !.window = 0] /\ psPend' = psPend /\ PS!Emit("expired")
    BY <1>10 DEF PS!WindowExpires
  <2>2. psNode' \in PS!Nodes
    BY <1>0, <1>2, <2>1 DEF PS!Nodes
  <2>3. psInbox' \in Seq({"paired", "expired", "unpaired"})
    BY <1>0, <2>1, EmitFacts
  <2> QED BY <1>8, <2>1, <2>2, <2>3
<1> QED BY <1>4, <1>5, <1>7, <1>9, <1>10

\* A call is answered: the button or dialog that waited for it is released, unless
\* the page was left meanwhile, and a join goes on to list the devices.
LEMMA PairingAnswers ==
  ASSUME PairingInv, NEW c \in psPend, NEW ok \in BOOLEAN,
         \/ PS!OpenAnswer(c) \/ PS!JoinAnswer(c, ok) \/ PS!ForgetAnswer(c, ok)
         \/ PS!SaveAnswer(c, ok) \/ PS!ListAnswer(c, ok)
  PROVE  PairingInv'
<1>0. /\ PS!TypeOK /\ psUi \in PS!Uis /\ PS!CountdownHasTicket /\ PS!BusyHasCall /\ CallsAreShaped
      /\ psDevices \subseteq Peers /\ psNode \in PS!Nodes /\ psPend \subseteq PS!Calls
      /\ psInbox \in Seq({"paired", "expired", "unpaired"}) /\ psUsed \in 0..MaxCalls
      /\ c \in PS!Calls
  BY DEF PairingInv, PS!TypeOK
<1>1. psUsed' \in 0..MaxCalls
  BY <1>0 DEF PS!OpenAnswer, PS!JoinAnswer, PS!ForgetAnswer, PS!SaveAnswer, PS!ListAnswer
<1>2. ASSUME NEW new \in SUBSET PS!Calls,
             \A d \in new : (d.then # "none" => d.k = "list") /\ (d.k = "join" => d.p \in Peers),
             psPend' = (psPend \ {c}) \cup new, psUi' \in PS!Uis,
             (psUi'.left = psUi.left /\ psUi'.ticket = psUi.ticket) \/ psUi'.ticket # 0,
             psUi'.loading => psUi.loading /\ (c.k # "open" \/ c.gone),
             psUi'.joining => /\ psUi.joining
                              /\ \/ "join" \notin {c.k, c.then} \/ c.gone
                                 \/ \E d \in new : d.then = "join" /\ d.gone = c.gone,
             psDevices' \subseteq Peers, psNode' \in PS!Nodes,
             psInbox' \in Seq({"paired", "expired", "unpaired"})
      PROVE  PairingInv'
  <2>1. psUi'.loading => \E d \in psPend' : d.k = "open" /\ ~d.gone
    BY <1>0, <1>2 DEF PS!BusyHasCall
  <2>2. psUi'.joining => \E d \in psPend' : "join" \in {d.k, d.then} /\ ~d.gone
    BY <1>0, <1>2 DEF PS!BusyHasCall
  <2>3. PS!CountdownHasTicket'
    BY <1>0, <1>2 DEF PS!CountdownHasTicket
  <2> QED BY <1>1, <1>2, <2>1, <2>2, <2>3, PendFacts
<1>3. {} \in SUBSET PS!Calls /\ psPend \ {c} = (psPend \ {c}) \cup {}
  OBVIOUS
<1>4. CASE PS!OpenAnswer(c)
  <2>1. /\ c.k = "open" /\ psPend' = psPend \ {c} /\ UNCHANGED <<psDevices, psNode, psInbox>>
        /\ psUi' = IF c.gone THEN psUi
                   ELSE IF c.w # 0
                        THEN [[[psUi EXCEPT !.loading = FALSE] EXCEPT !.ticket = c.w] EXCEPT !.left = TTL]
                        ELSE [psUi EXCEPT !.loading = FALSE]
    BY <1>4 DEF PS!OpenAnswer
  <2>2. c.then # "join" /\ c.w \in 0..MaxCalls /\ TTL \in 1..TTL
    BY <1>0, <2>1, MCSettingsAssumption DEF CallsAreShaped, PS!Calls
  <2>3. /\ psUi' \in PS!Uis /\ psUi'.joining = psUi.joining
        /\ (psUi'.left = psUi.left /\ psUi'.ticket = psUi.ticket) \/ psUi'.ticket # 0
        /\ psUi'.loading => psUi.loading /\ c.gone
    <3>1. CASE c.gone
      BY <1>0, <2>1, <3>1
    <3>2. CASE ~c.gone /\ c.w # 0
      BY <1>0, <2>1, <2>2, <3>2 DEF PS!Uis
    <3>3. CASE ~c.gone /\ c.w = 0
      BY <1>0, <2>1, <3>3 DEF PS!Uis
    <3> QED BY <3>1, <3>2, <3>3
  <2> QED BY <1>0, <1>2, <1>3, <2>1, <2>2, <2>3
<1>5. CASE PS!JoinAnswer(c, ok)
  <2>0. c.k = "join" /\ c.p \in Peers /\ psDevices' = psDevices
    BY <1>0, <1>5 DEF PS!JoinAnswer, CallsAreShaped
  <2>1. CASE ok
    <3>1. /\ psPend' = PS!ListingThen(c) /\ psUi' = psUi /\ PS!Emit("paired")
          /\ psNode' = [psNode EXCEPT !.paired = psNode.paired \cup {c.p}]
      BY <1>0, <1>5, <2>1 DEF PS!JoinAnswer, PS!Nodes
    <3>2. PICK l \in PS!Calls : /\ psPend' = (psPend \ {c}) \cup {l}
                                /\ l.k = "list" /\ l.then = "join" /\ l.gone = c.gone
      BY <2>0, <3>1, ListingFacts
    <3>3. psNode' \in PS!Nodes /\ psInbox' \in Seq({"paired", "expired", "unpaired"})
      BY <1>0, <2>0, <3>1, EmitFacts DEF PS!Nodes
    <3>4. {l} \in SUBSET PS!Calls
      BY <3>2
    <3> QED BY <1>0, <1>2, <2>0, <3>1, <3>2, <3>3, <3>4
  <2>2. CASE ~ok
    <3>1. /\ psPend' = psPend \ {c} /\ psNode' = psNode /\ psInbox' = psInbox
          /\ psUi' = IF c.gone THEN psUi ELSE [psUi EXCEPT !.joining = FALSE]
      BY <1>5, <2>2 DEF PS!JoinAnswer
    <3>2. /\ psUi' \in PS!Uis /\ psUi'.loading = psUi.loading
          /\ psUi'.joining => psUi.joining /\ c.gone
          /\ psUi'.left = psUi.left /\ psUi'.ticket = psUi.ticket
      BY <1>0, <3>1 DEF PS!Uis
    <3> QED BY <1>0, <1>2, <1>3, <2>0, <3>1, <3>2
  <2> QED BY <2>1, <2>2
<1>6. CASE PS!ForgetAnswer(c, ok)
  <2>0. c.k = "forget" /\ c.then = "none" /\ psDevices' = psDevices /\ psUi' = psUi
    BY <1>0, <1>6 DEF PS!ForgetAnswer, CallsAreShaped
  <2>1. CASE ok
    <3>1. /\ psPend' = (psPend \ {c}) \cup {PS!Call("list", None)} /\ PS!Emit("unpaired")
          /\ psNode' = [psNode EXCEPT !.paired = psNode.paired \ {c.p}]
      BY <1>6, <2>1 DEF PS!ForgetAnswer, PS!Listing
    <3>2. /\ PS!Call("list", None) \in PS!Calls /\ PS!Call("list", None).k = "list"
      BY CallFacts DEF CallKinds
    <3>3. psNode' \in PS!Nodes /\ psInbox' \in Seq({"paired", "expired", "unpaired"})
      BY <1>0, <2>0, <3>1, EmitFacts DEF PS!Nodes
    <3>4. {PS!Call("list", None)} \in SUBSET PS!Calls
      BY <3>2
    <3> QED BY <1>0, <1>2, <2>0, <3>1, <3>2, <3>3, <3>4
  <2>2. CASE ~ok
    <3>1. psPend' = psPend \ {c} /\ psNode' = psNode /\ psInbox' = psInbox
      BY <1>6, <2>2 DEF PS!ForgetAnswer
    <3> QED BY <1>0, <1>2, <1>3, <2>0, <3>1
  <2> QED BY <2>1, <2>2
<1>7. CASE PS!SaveAnswer(c, ok)
  <2>0. c.k = "rename" /\ c.then = "none" /\ UNCHANGED <<psDevices, psNode, psInbox>>
    BY <1>0, <1>7 DEF PS!SaveAnswer, CallsAreShaped
  <2>1. psUi' = psUi \/ psUi' = [psUi EXCEPT !.saving = FALSE]
    BY <1>7 DEF PS!SaveAnswer
  <2>2. /\ psUi' \in PS!Uis /\ psUi'.loading = psUi.loading /\ psUi'.joining = psUi.joining
        /\ psUi'.left = psUi.left /\ psUi'.ticket = psUi.ticket
    BY <1>0, <2>1 DEF PS!Uis
  <2>3. CASE ok
    <3>1. PICK l \in PS!Calls : /\ psPend' = (psPend \ {c}) \cup {l}
                                /\ l.k = "list" /\ l.then = "rename" /\ l.gone = c.gone
      BY <1>7, <2>0, <2>3, ListingFacts DEF PS!SaveAnswer
    <3>2. {l} \in SUBSET PS!Calls
      BY <3>1
    <3> QED BY <1>0, <1>2, <2>0, <2>2, <3>1, <3>2
  <2>4. CASE ~ok
    <3>1. psPend' = psPend \ {c}
      BY <1>7, <2>4 DEF PS!SaveAnswer
    <3> QED BY <1>0, <1>2, <1>3, <2>0, <2>2, <3>1
  <2> QED BY <2>3, <2>4
<1>8. CASE PS!ListAnswer(c, ok)
  <2>1. /\ c.k = "list" /\ psPend' = psPend \ {c} /\ UNCHANGED <<psNode, psInbox>>
        /\ psDevices' = IF ok THEN c.list ELSE psDevices
        /\ psUi' = IF c.gone \/ c.then = "none" THEN psUi
                   ELSE IF c.then = "join" THEN [[psUi EXCEPT !.joining = FALSE] EXCEPT !.joinOpen = FALSE]
                   ELSE [[psUi EXCEPT !.rename = None] EXCEPT !.saving = FALSE]
    BY <1>8 DEF PS!ListAnswer
  <2>2. psDevices' \subseteq Peers
    BY <1>0, <2>1 DEF PS!Calls
  <2>3. /\ psUi' \in PS!Uis /\ psUi'.loading = psUi.loading
        /\ psUi'.joining => psUi.joining /\ (c.gone \/ c.then # "join")
        /\ psUi'.left = psUi.left /\ psUi'.ticket = psUi.ticket
    <3>1. CASE c.gone \/ c.then = "none"
      BY <1>0, <2>1, <3>1
    <3>2. CASE ~(c.gone \/ c.then = "none") /\ c.then = "join"
      BY <1>0, <2>1, <3>2 DEF PS!Uis
    <3>3. CASE ~(c.gone \/ c.then = "none") /\ c.then # "join"
      BY <1>0, <2>1, <3>3 DEF PS!Uis
    <3> QED BY <3>1, <3>2, <3>3
  <2> QED BY <1>0, <1>2, <1>3, <2>1, <2>2, <2>3
<1> QED BY <1>4, <1>5, <1>6, <1>7, <1>8

\* An event of the node is handled: the list is asked for anew, and a window that
\* is gone is no longer counted down.
LEMMA PairingEvents ==
  ASSUME PairingInv, PS!DevicePaired \/ PS!HostExpired \/ PS!DeviceUnpaired
  PROVE  PairingInv'
<1>0. /\ PS!TypeOK /\ psUi \in PS!Uis /\ PS!CountdownHasTicket /\ PS!BusyHasCall
      /\ psDevices \subseteq Peers /\ psNode \in PS!Nodes /\ psUsed \in 0..MaxCalls
  BY DEF PairingInv, PS!TypeOK
<1>1. psInbox' \in Seq({"paired", "expired", "unpaired"}) /\ UNCHANGED <<psDevices, psNode, psUsed>>
  <2>1. \E kind : PS!Handle(kind)
    BY DEF PS!DevicePaired, PS!HostExpired, PS!DeviceUnpaired
  <2> QED BY <1>0, <2>1, EmitFacts DEF PS!Handle
<1>2. psUi' = psUi \/ psUi' = PS!Closed(psUi)
  BY DEF PS!DevicePaired, PS!HostExpired, PS!DeviceUnpaired
<1>3. 0 \in 0..MaxCalls
  BY MCSettingsAssumption
<1>4. /\ psUi' \in PS!Uis /\ psUi'.joining = psUi.joining /\ psUi'.loading = psUi.loading
      /\ (psUi'.left = psUi.left /\ psUi'.ticket = psUi.ticket) \/ psUi'.left = PS!NoCountdown
  BY <1>0, <1>2, <1>3 DEF PS!Uis, PS!Closed
<1>5. PS!CountdownHasTicket'
  BY <1>0, <1>4 DEF PS!CountdownHasTicket
<1>6. /\ PS!Call("list", None) \in PS!Calls /\ PS!Call("list", None).k = "list"
  BY CallFacts DEF CallKinds
<1>7. \E new \in SUBSET {PS!Call("list", None)} : psPend' = (psPend \ {}) \cup new
  <2>1. psPend' = psPend \/ psPend' = psPend \cup {PS!Call("list", None)}
    BY DEF PS!DevicePaired, PS!HostExpired, PS!DeviceUnpaired, PS!Listing
  <2>2. CASE psPend' = psPend
    <3>1. {} \in SUBSET {PS!Call("list", None)} /\ psPend' = (psPend \ {}) \cup {}
      BY <2>2
    <3> QED BY <3>1
  <2>3. CASE psPend' = psPend \cup {PS!Call("list", None)}
    <3>1. psPend' = (psPend \ {}) \cup {PS!Call("list", None)}
      BY <2>3
    <3> QED BY <3>1
  <2> QED BY <2>1, <2>2, <2>3
<1>8. PICK new \in SUBSET PS!Calls : psPend' = (psPend \ {}) \cup new /\ \A d \in new : d.k = "list"
  BY <1>6, <1>7
<1>9. psUi'.loading => \E d \in psPend' : d.k = "open" /\ ~d.gone
  BY <1>0, <1>4, <1>8 DEF PS!BusyHasCall
<1>10. psUi'.joining => \E d \in psPend' : "join" \in {d.k, d.then} /\ ~d.gone
  BY <1>0, <1>4, <1>8 DEF PS!BusyHasCall
<1> QED BY <1>0, <1>1, <1>4, <1>5, <1>8, <1>9, <1>10, PendFacts

\* The page is left and visited again: its calls go on without it.
LEMMA PairingRevisit ==
  ASSUME PairingInv, PS!Revisit
  PROVE  PairingInv'
<1> DEFINE Left(c) == [c EXCEPT !.gone = c.k # "list" \/ c.then # "none"]
           new == {Left(c) : c \in psPend} \cup {PS!Call("list", None)}
<1>0. /\ PS!TypeOK /\ CallsAreShaped /\ psPend \subseteq PS!Calls
      /\ psDevices \subseteq Peers /\ psNode \in PS!Nodes /\ psUsed \in 0..MaxCalls
      /\ psInbox \in Seq({"paired", "expired", "unpaired"})
  BY DEF PairingInv, PS!TypeOK
<1>1. /\ psUi' = PS!Mounted /\ psPend' = new /\ psUsed' = psUsed + 1 /\ psUsed < MaxCalls
      /\ UNCHANGED <<psDevices, psNode, psInbox>>
  BY DEF PS!Revisit, PS!Listing
<1>2. \A c \in psPend : Left(c) \in PS!Calls /\ Left(c).k = c.k /\ Left(c).then = c.then /\ Left(c).p = c.p
  BY <1>0 DEF PS!Calls
<1>3. /\ PS!Call("list", None) \in PS!Calls /\ PS!Call("list", None).k = "list"
  BY CallFacts DEF CallKinds
<1> HIDE DEF Left
<1>4. /\ new \in SUBSET PS!Calls
      /\ \A d \in new : (d.then # "none" => d.k = "list") /\ (d.k = "join" => d.p \in Peers)
  BY <1>0, <1>2, <1>3 DEF CallsAreShaped
<1>5. psPend' = (psPend \ psPend) \cup new /\ psUsed' \in 0..MaxCalls
  BY <1>0, <1>1, MCSettingsAssumption
<1> HIDE DEF new
<1>6. PS!CountdownHasTicket' /\ psUi' \in PS!Uis /\ ~psUi'.loading /\ ~psUi'.joining
  BY <1>1, MountedFacts DEF PS!CountdownHasTicket
<1> QED BY <1>0, <1>1, <1>4, <1>5, <1>6, PendFacts

\* Every step of the page and of the node.
LEMMA PairingNext ==
  ASSUME PairingInv, PS!Next \/ UNCHANGED psVars
  PROVE  PairingInv'
<1>1. CASE PS!Page
  BY <1>1, PairingShown, PairingCalls, PairingAnswers, PairingEvents, PairingRevisit DEF PS!Page
<1>2. CASE PS!Node
  BY <1>2, PairingNode DEF PS!Node
<1>3. CASE UNCHANGED psVars
  BY <1>3 DEF psVars, PairingInv, PS!TypeOK, CallsAreShaped, PS!CountdownHasTicket, PS!BusyHasCall
<1> QED BY <1>1, <1>2, <1>3 DEF PS!Next

------------------------------------------------------------------------------
(* The pages together                                                       *)

SettingsInv == PairingInv /\ InvitesInv /\ RelayInv

\* A step moves one component, and the others stay where they are.
LEMMA OneMoves ==
  ASSUME [SumNext]_sumVars
  PROVE  /\ PS!Next \/ UNCHANGED psVars
         /\ PI!Next \/ UNCHANGED piVars
         /\ RS!Next \/ UNCHANGED rsVars
  BY DEF SumNext, Only, sumVars, PI!Next

LEMMA SettingsInductive == SumSpec => []SettingsInv
<1>1. SumInit => SettingsInv
  BY PairingInit, InvitesInit, RelayInit DEF SumInit, SettingsInv
<1>2. SettingsInv /\ [SumNext]_sumVars => SettingsInv'
  BY OneMoves, PairingNext, InvitesNext, RelayNext DEF SettingsInv
<1> QED BY <1>1, <1>2, PTL DEF SumSpec

\* Whatever is shown as under way is: a countdown has its ticket, a busy button or
\* dialog its call, the status of an invite a call or a timer, a spinning row its
\* test, a status that is not greyed out the settings as they are (usePairing.ts,
\* useSender.ts, relay-settings.tsx, RelayStatusButton.tsx).
THEOREM NothingIsShownInVain == SumSpec => []ShownIsUnderWay
<1>1. SettingsInv => ShownIsUnderWay
  BY SpinningRow DEF SettingsInv, PairingInv, InvitesInv, SenderInv, RelayInv, ShownIsUnderWay
<1> QED BY <1>1, SettingsInductive, PTL

\* For any number of invites: however often decline() and accept() are called, the
\* sender of an invite is answered at most once and by what was done, and the invite
\* received last is on the screen until it is answered (PairedInviteDialog.tsx,
\* DeviceNodeSync.tsx).
THEOREM NoInviteIsLost == SumSpec => []InvitesAreSettled
<1>1. SettingsInv => InvitesAreSettled
  BY DEF SettingsInv, InvitesInv, ReceiverInv, InvitesAreSettled
<1> QED BY <1>1, SettingsInductive, PTL

===============================================================================
