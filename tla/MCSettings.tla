----------------------------- MODULE MCSettings ------------------------------
(***************************************************************************)
(* The components with liveness properties behind the devices and settings  *)
(* pages, checked side by side: a behaviour is one of the device node's     *)
(* status store (extended here) or of one of the instances below, which     *)
(* share no state.                                                          *)
(***************************************************************************)
EXTENDS DeviceNode

CONSTANTS
  Peers, None, TTL, MaxCalls, MaxWaiting, MaxPend,  \* of PairingSettings
  Devices, Invites, MaxSends,                       \* of PairedInvites, with None
  Webs, MaxUrls, MaxEdits,                          \* of RelaySettings
  MaxReleases, MaxClicks                            \* of Updater

ASSUME MCSettingsAssumption ==
  /\ TTL \in Nat \ {0} /\ MaxCalls \in Nat
  /\ None \notin Invites
  /\ Webs \subseteq BOOLEAN

VARIABLES
  part, psUi, psDevices, psPend, psNode, psInbox, psUsed, piTicket, piReady,
  piKnown, piStatus, piCalls, piTimers, piAwaited, piCounts, piInvite, piHandler,
  piDialog, piShown, piLatest, piAnswers, piTaken, rsWeb, rsApp, rsPage, rsTesting, rsVerdict, rsStatus,
  rsAsked, rsNodeRelay, rsEdits, upPortable, upAvailable, upAuto,
  upQuery, upStale, upOpen, upChecking, upInstall, upReleases, upClicks

PS == INSTANCE PairingSettings WITH
        MaxQueue <- MaxWaiting, ui <- psUi, devices <- psDevices,
        pend <- psPend, node <- psNode, inbox <- psInbox, used <- psUsed

PI == INSTANCE PairedInvites WITH
        ticket <- piTicket, ready <- piReady,
        known <- piKnown, status <- piStatus, calls <- piCalls, timers <- piTimers,
        awaited <- piAwaited, counts <- piCounts, invite <- piInvite,
        handler <- piHandler, dialog <- piDialog, shown <- piShown, latest <- piLatest,
        answers <- piAnswers, taken <- piTaken

RS == INSTANCE RelaySettings WITH
        web <- rsWeb, app <- rsApp, page <- rsPage, testing <- rsTesting,
        verdict <- rsVerdict, status <- rsStatus, asked <- rsAsked,
        nodeRelay <- rsNodeRelay, edits <- rsEdits

UP == INSTANCE Updater WITH
        portable <- upPortable, available <- upAvailable,
        auto <- upAuto, query <- upQuery, stale <- upStale, open <- upOpen,
        checking <- upChecking, install <- upInstall,
        releases <- upReleases, clicks <- upClicks

psVars == <<psUi, psDevices, psPend, psNode, psInbox, psUsed>>
piVars == <<piTicket, piReady, piKnown, piStatus, piCalls, piTimers, piAwaited,
          piCounts, piInvite, piHandler, piDialog, piShown, piLatest, piAnswers, piTaken>>
rsVars == <<rsWeb, rsApp, rsPage, rsTesting, rsVerdict, rsStatus, rsAsked, rsNodeRelay,
          rsEdits>>
upVars == <<upPortable, upAvailable, upAuto, upQuery, upStale, upOpen,
          upChecking, upInstall, upReleases, upClicks>>

Parts == {"node", "pairing", "sends", "invites", "relay", "updater"}

\* The two halves of PairedInvites share no state either, and take part one at a
\* time.  The components that do not take part stay in one initial state.
SumInit ==
  /\ part \in Parts
  /\ Init
  /\ PS!Init
  /\ IF part = "invites" THEN TRUE ELSE piHandler = FALSE
  /\ PI!Init
  /\ IF part = "relay" THEN TRUE ELSE rsWeb = FALSE /\ rsApp = [mode |-> "default", urls |-> <<>>, token |-> FALSE, fallback |-> "strict"]
  /\ RS!Init
  /\ IF part = "updater" THEN TRUE ELSE upPortable = FALSE /\ upAvailable = FALSE /\ upAuto = FALSE
  /\ UP!Init

sumVars == <<part, vars, psVars, piVars, rsVars, upVars>>

\* The component p moves, the others stay where they are.
Only(p) ==
  /\ part = p
  /\ UNCHANGED part
  /\ IF p = "node" THEN TRUE ELSE UNCHANGED vars
  /\ IF p = "pairing" THEN TRUE ELSE UNCHANGED psVars
  /\ IF p \in {"sends", "invites"} THEN TRUE ELSE UNCHANGED piVars
  /\ IF p = "relay" THEN TRUE ELSE UNCHANGED rsVars
  /\ IF p = "updater" THEN TRUE ELSE UNCHANGED upVars

SumNext ==
  \/ Only("node") /\ Next
  \/ Only("pairing") /\ PS!Next
  \/ Only("sends") /\ PI!Sender
  \/ Only("invites") /\ PI!Receiver
  \/ Only("relay") /\ RS!Next
  \/ Only("updater") /\ UP!Next

\* The fairness of the component that takes part.
SumSpec ==
  /\ SumInit /\ [][SumNext]_sumVars
  /\ WF_vars(part = "node" /\ NodeAnswers)
  /\ WF_vars(part = "node" /\ \E ok \in BOOLEAN : Answer(ok))
  /\ WF_vars(part = "node" /\ \E ok \in BOOLEAN : HydrateAnswer(ok))
  /\ WF_vars(part = "node" /\ FallbackFires)
  /\ WF_vars(part = "node" /\ Delivered)
  /\ WF_psVars(part = "pairing" /\ PS!Tick)
  /\ \A d \in Devices :
       WF_piVars(part = "sends" /\ \E b \in BOOLEAN : PI!InviteAnswer(d, b))
  /\ WF_rsVars(part = "relay" /\ RS!Answers)
  /\ WF_upVars(part = "updater" /\ UP!Network)

------------------------------------------------------------------------------
\* What the settings show as under way or current is: a countdown has its ticket,
\* a disabled button its call, the state of an invite a call or a timer, a URL being
\* checked its test, and a status that is not greyed out is that of the settings
\* (usePairing.ts, useSender.ts, relay-settings.tsx, RelayStatusButton.tsx).
ShownIsUnderWay ==
  /\ part = "pairing" => PS!TypeOK /\ PS!CountdownHasTicket /\ PS!BusyHasCall
  /\ part = "sends" => PI!StatusIsBacked
  /\ part = "relay" => RS!CheckingIsUnderWay /\ RS!StatusIsCurrent

\* An invite is answered at most once and by what was done about it, and the
\* latest one is never lost: it is on the screen until it is answered
\* (PairedInviteDialog.tsx, DeviceNodeSync.tsx).
InvitesAreSettled == part = "invites" => PI!InvitesAreSettled

\* Nothing the settings wait for lasts for ever: the spinner of the devices page,
\* the countdown, an invite being sent, a test of the relays
\* (node-capability-store.ts, usePairing.ts, useSender.ts, relay-settings.tsx).
WaitsEnd ==
  /\ part = "node" /\ Pending ~> ~Pending
  /\ PS!CountdownEnds
  /\ PI!SendingEnds
  /\ RS!TestEnds

\* A withdrawn offer is asked about again (useInstallUpdateMutation).
StaleOfferIsChecked == UP!StaleOfferIsChecked
==============================================================================
