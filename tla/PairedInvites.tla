---------------------------- MODULE PairedInvites ----------------------------
(***************************************************************************)
(* Sending to a paired device without passing a ticket on.  On the sender's*)
(* page: the panel of devices and onInvitePairedDevice of useSender.ts,    *)
(* with one status per device.  On the receiver's: the invite store, which *)
(* holds one invite, and PairedInviteDialog.tsx.  Both halves run in every *)
(* page.                                                                   *)
(*                                                                         *)
(* External: the share behind the ticket (ShareView), the node, which      *)
(* delivers an invite or not and passes on the answers of other devices.   *)
(***************************************************************************)
EXTENDS Naturals, FiniteSets

CONSTANTS
  Devices,     \* paired devices
  Invites,     \* invites this page receives
  None,        \* no invite
  MaxSends     \* bound: invites this page sends

VARIABLES
  ticket,    \* is there a ticket
  ready,     \* isNodeReady
  known,     \* pairedDevices: what the page believes of each device
  status,    \* pairedInviteStatus
  calls,     \* invite_paired_device calls under way, per device
  timers,    \* 4 s timers of failures, per device
  awaited,   \* external: invites delivered and not answered, per device
  counts,    \* paired-send-counts: invites sent to each device
  invite,    \* usePairedInviteStore
  handler,   \* acceptPairedInvite is registered: the receive tab is mounted
  dialog,    \* the dialog is on the screen, also while it closes
  shown,     \* history: the invites received so far
  latest,    \* history: the one received last
  answers,   \* respond_paired_invite calls made for each invite, by their answer
  taken      \* invites handed to acceptPairedInvite

vars == <<ticket, ready, known, status, calls, timers, awaited, counts,
          invite, handler, dialog, shown, latest, answers, taken>>
senderVars == <<ticket, ready, known, status, calls, timers, awaited, counts>>
receiverVars == <<invite, handler, dialog, shown, latest, answers, taken>>

Unanswered == [yes |-> 0, no |-> 0]
Zero == [d \in Devices |-> 0]
NoStatus == [d \in Devices |-> "none"]

Init ==
  /\ ticket = FALSE
  /\ ready = FALSE
  /\ known = [d \in Devices |-> "offline"]
  /\ status = NoStatus
  /\ calls = Zero /\ timers = Zero /\ awaited = Zero /\ counts = Zero
  /\ invite = None
  /\ handler \in BOOLEAN
  /\ dialog = FALSE
  /\ shown = {}
  /\ latest = None
  /\ answers = [i \in Invites |-> Unanswered]
  /\ taken = {}

------------------------------------------------------------------------------
(* The sender                                                               *)

\* A share starts or ends; without a ticket the statuses are dropped.
SetTicket(b) ==
  /\ ticket # b
  /\ ticket' = b
  /\ status' = IF b THEN status ELSE NoStatus
  /\ UNCHANGED <<ready, known, calls, timers, awaited, counts, receiverVars>>

SetReady(b) ==
  /\ ready # b
  /\ ready' = b
  /\ UNCHANGED <<ticket, known, status, calls, timers, awaited, counts, receiverVars>>

\* A presence patch, or a list that says the device is unpaired.
Presence(d, k) ==
  /\ known[d] # k
  /\ known' = [known EXCEPT ![d] = k]
  /\ UNCHANGED <<ticket, ready, status, calls, timers, awaited, counts, receiverVars>>

Sum(f) == LET S[D \in SUBSET Devices] ==
                IF D = {} THEN 0 ELSE LET d == CHOOSE d \in D : TRUE IN f[d] + S[D \ {d}]
          IN  S[Devices]

\* The button of a device is enabled; onInvitePairedDevice asks the same again.
CanInvite(d) ==
  /\ ticket /\ ready
  /\ known[d] = "online"
  /\ status[d] \notin {"sending", "sent"}
  /\ \A e \in Devices \ {d} : status[e] \notin {"sending", "sent"}

\* onInvitePairedDevice up to the answer of invite_paired_device.
OnInvitePairedDevice(d) ==
  /\ CanInvite(d) /\ Sum(counts) < MaxSends
  /\ counts' = [counts EXCEPT ![d] = @ + 1]
  /\ status' = [status EXCEPT ![d] = "sending"]
  /\ calls' = [calls EXCEPT ![d] = @ + 1]
  /\ UNCHANGED <<ticket, ready, known, timers, awaited, receiverVars>>

\* Mutant of InviteAnswer: no timer takes the failure away.
InviteAnswer_NoTimer(d, delivered) ==
  /\ calls[d] > 0
  /\ calls' = [calls EXCEPT ![d] = @ - 1]
  /\ status' = [status EXCEPT ![d] = IF delivered THEN "sent" ELSE "failed"]
  /\ awaited' = IF delivered THEN [awaited EXCEPT ![d] = @ + 1] ELSE awaited
  /\ UNCHANGED <<ticket, ready, known, counts, timers, receiverVars>>

\* The rest of it: the status is set whatever happened meanwhile.
InviteAnswer(d, delivered) ==
  /\ calls[d] > 0
  /\ calls' = [calls EXCEPT ![d] = @ - 1]
  /\ status' = [status EXCEPT ![d] = IF delivered THEN "sent" ELSE "failed"]
  /\ awaited' = IF delivered THEN [awaited EXCEPT ![d] = @ + 1] ELSE awaited
  /\ timers' = IF delivered THEN timers ELSE [timers EXCEPT ![d] = @ + 1]
  /\ UNCHANGED <<ticket, ready, known, counts, receiverVars>>

\* The timer of a failure takes the status away, also a later one.
FailureTimer(d) ==
  /\ timers[d] > 0
  /\ timers' = [timers EXCEPT ![d] = @ - 1]
  /\ status' = [status EXCEPT ![d] = "none"]
  /\ UNCHANGED <<ticket, ready, known, calls, awaited, counts, receiverVars>>

\* paired-invite-response, accepted or declined.  It may overtake the answer.
InviteResponse(d) ==
  /\ awaited[d] > 0 \/ calls[d] > 0
  /\ awaited' = [awaited EXCEPT ![d] = IF @ > 0 THEN @ - 1 ELSE 0]
  /\ status' = [status EXCEPT ![d] = "none"]
  /\ UNCHANGED <<ticket, ready, known, calls, timers, counts, receiverVars>>

------------------------------------------------------------------------------
(* The receiver                                                             *)

\* paired-invite-received: a later invite takes the place of the one shown.
InviteReceived(i) ==
  /\ i \notin shown
  /\ shown' = shown \cup {i}
  /\ latest' = i
  /\ invite' = i
  /\ dialog' = TRUE
  /\ UNCHANGED <<handler, answers, taken, senderVars>>

\* Mutant of Declined: the invite the dialog was rendered with is declined.
Declined_Rendered(s) ==
  IF invite = None THEN s
  ELSE [invite |-> None, answers |-> [s.answers EXCEPT ![invite].no = @ + 1]]

\* decline(): what is in the store is declined, if anything is.
Declined(s) ==
  IF s.invite = None THEN s
  ELSE [invite |-> None, answers |-> [s.answers EXCEPT ![s.invite].no = @ + 1]]

Store == [invite |-> invite, answers |-> answers]

\* The decline button calls decline() itself and then closes the dialog, whose
\* onOpenChange calls it once more; Escape closes the dialog only.
Decline ==
  /\ dialog
  /\ \E s \in {Declined(Declined(Store)), Declined(Store)} :
       invite' = s.invite /\ answers' = s.answers
  /\ UNCHANGED <<handler, dialog, shown, latest, taken, senderVars>>

\* Mutant of Accept: the invite is taken out of the store before the receive tab is
\* looked for.
Accept_Cleared ==
  /\ dialog /\ invite # None
  /\ invite' = None
  /\ IF handler THEN answers' = [answers EXCEPT ![invite].yes = @ + 1] /\ taken' = taken \cup {invite}
                ELSE UNCHANGED <<answers, taken>>
  /\ UNCHANGED <<handler, dialog, shown, latest, senderVars>>

\* accept; without a receive tab the invite stays and a toast tells why.
Accept ==
  /\ dialog /\ invite # None /\ handler
  /\ invite' = None
  /\ answers' = [answers EXCEPT ![invite].yes = @ + 1]
  /\ taken' = taken \cup {invite}
  /\ UNCHANGED <<handler, dialog, shown, latest, senderVars>>

\* The dialog has closed; until then its buttons can be used again.
Closed ==
  /\ dialog /\ invite = None
  /\ dialog' = FALSE
  /\ UNCHANGED <<invite, handler, shown, latest, answers, taken, senderVars>>

\* The receive tab registers its handler and takes it back.
Register(b) ==
  /\ handler # b
  /\ handler' = b
  /\ UNCHANGED <<invite, dialog, shown, latest, answers, taken, senderVars>>

------------------------------------------------------------------------------

Sender ==
  \/ \E b \in BOOLEAN : SetTicket(b) \/ SetReady(b)
  \/ \E d \in Devices :
       \/ \E k \in {"online", "offline", "unpaired"} : Presence(d, k)
       \/ OnInvitePairedDevice(d)
       \/ \E delivered \in BOOLEAN : InviteAnswer(d, delivered)
       \/ FailureTimer(d)
       \/ InviteResponse(d)

Receiver ==
  \/ \E i \in Invites : InviteReceived(i)
  \/ Decline
  \/ Accept
  \/ Closed
  \/ \E b \in BOOLEAN : Register(b)

Next == Sender \/ Receiver

Spec == Init /\ [][Next]_vars

\* The node answers every invite call.
Fairness == \A d \in Devices : WF_vars(\E b \in BOOLEAN : InviteAnswer(d, b))

FairSpec == Spec /\ Fairness

------------------------------------------------------------------------------
(* Properties                                                               *)

\* "Sending" has a call under way that will end it, and a failure a timer that
\* takes it away: a status without either would keep every device disabled, or the
\* failure shown, for as long as the share lasts.
StatusIsBacked ==
  \A d \in Devices :
    /\ status[d] = "sending" => calls[d] > 0
    /\ status[d] = "failed" => timers[d] > 0

\* However decline() and accept() are called, twice by one click, again while the
\* dialog closes, or with a new invite in between: the sender of an invite is
\* answered at most once and told what was done, and the invite received last is on
\* the screen until it is answered.  Only one that a later one replaced is neither.
InvitesAreSettled ==
  /\ \A i \in Invites :
       /\ answers[i].yes + answers[i].no <= 1
       /\ i \in taken <=> answers[i].yes = 1
  /\ latest # None /\ answers[latest] = Unanswered => invite = latest /\ dialog

\* Sending to a device ends, whatever becomes of the share meanwhile.
SendingEnds == \A d \in Devices : (status[d] = "sending") ~> (status[d] # "sending")
==============================================================================
