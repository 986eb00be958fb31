----------------------------- MODULE ReceiveView -----------------------------
(***************************************************************************)
(* The receive tab of the frontend: the hook useReceiver.ts, which lives   *)
(* as long as the application (ReceiverProvider), and what Receiver.tsx    *)
(* renders of it.                                                          *)
(*                                                                         *)
(* As in ShareView an action is one callback up to its next await, and the *)
(* effects React runs after it.  Receives are numbered: the page never sees*)
(* the number, it tags what an event or a summary is about.  An item count *)
(* or a preview is tagged with the ticket it was learnt from.              *)
(*                                                                         *)
(* External: the commands fetch_ticket_metadata, receive_file and          *)
(* cancel_receive (ReceiveCommand) and the folder picker.                  *)
(***************************************************************************)
EXTENDS Naturals, Sequences, FiniteSets

CONSTANTS
  Tickets,      \* tickets a person pastes or an invite brings
  None,         \* no ticket: the empty string
  Platforms,    \* IS_ANDROID, IS_WEB or neither
  MaxReceives,  \* bound: receive_file calls in a behaviour
  MaxQueue      \* bound: events and answers under way to the page

ASSUME ConstantsAssumption ==
  /\ None \notin Tickets
  /\ Platforms \subseteq {"desktop", "android", "web"}
  /\ MaxReceives \in Nat /\ MaxQueue \in Nat

VARIABLES
  platform,  \* where the page runs; never changes
  view,      \* the useState of the hook
  ref,       \* its refs
  fetches,   \* preview requests: the 300 ms timer and calls under way
  picking,   \* a folder picker is open
  calls,     \* external: receive_file calls under way
  inbox,     \* events and answers not yet handled
  made       \* history: receive_file calls made so far

vars == <<platform, view, ref, fetches, picking, calls, inbox, made>>

NoMeta == [of |-> 0, count |-> None, path |-> "none"]
InitialView ==
  [ticket |-> None, receiving |-> FALSE, transporting |-> FALSE, completed |-> FALSE,
   meta |-> NoMeta, preview |-> None, loading |-> FALSE, alert |-> FALSE,
   path |-> "default", uri |-> FALSE]
\* active: transferSeqRef # 0, which is all the listeners ask of it.
InitialRef ==
  [active |-> FALSE, preview |-> None, count |-> None, conflict |-> FALSE,
   openUri |-> FALSE, opened |-> FALSE]

Init ==
  /\ platform \in Platforms
  /\ view = InitialView
  /\ ref = InitialRef
  /\ fetches = {}
  /\ picking = FALSE
  /\ calls = {}
  /\ inbox = <<>>
  /\ made = 0

------------------------------------------------------------------------------
(* The preview of a ticket                                                  *)

\* previewRequestSeqRef += 1: calls under way lose, the timer is cleared.
Outdate == {[f EXCEPT !.fresh = FALSE] : f \in {f \in fetches : f.stage = "call"}}

\* The effect on [ticket, isReceiving], after v was rendered.
PreviewEffect(v, r) ==
  IF v.receiving
  THEN /\ view' = [v EXCEPT !.loading = FALSE]
       /\ ref' = r
       /\ fetches' = Outdate
  ELSE /\ view' = [v EXCEPT !.preview = None, !.loading = v.ticket # None]
       /\ ref' = [r EXCEPT !.preview = None]
       /\ fetches' = Outdate \cup
            (IF v.ticket = None THEN {}
             ELSE {[t |-> v.ticket, stage |-> "timer", fresh |-> TRUE]})

\* handleTicketChange
HandleTicketChange(t) ==
  /\ ~view.receiving /\ ~view.alert /\ t # view.ticket
  /\ PreviewEffect([view EXCEPT !.ticket = t], ref)
  /\ UNCHANGED <<platform, picking, calls, inbox, made>>

\* The timer calls fetch_ticket_metadata.
PreviewTimer(f) ==
  /\ f.stage = "timer"
  /\ fetches' = (fetches \ {f}) \cup {[f EXCEPT !.stage = "call"]}
  /\ UNCHANGED <<platform, view, ref, picking, calls, inbox, made>>

\* Mutant of PreviewAnswer: any answer is taken.
PreviewAnswer_Any(f, ok) ==
  /\ f.stage = "call"
  /\ fetches' = fetches \ {f}
  /\ view' = [view EXCEPT !.preview = IF ok THEN f.t ELSE None, !.loading = FALSE]
  /\ ref' = [ref EXCEPT !.preview = IF ok THEN f.t ELSE None]
  /\ UNCHANGED <<platform, picking, calls, inbox, made>>

\* Mutant of PreviewAnswer: a failure does not reset isPreviewLoading.
PreviewAnswer_NoFinally(f, ok) ==
  /\ f.stage = "call"
  /\ fetches' = fetches \ {f}
  /\ view' = IF f.fresh
             THEN [view EXCEPT !.preview = IF ok THEN f.t ELSE None, !.loading = @ /\ ~ok]
             ELSE view
  /\ ref' = IF f.fresh THEN [ref EXCEPT !.preview = IF ok THEN f.t ELSE None] ELSE ref
  /\ UNCHANGED <<platform, picking, calls, inbox, made>>

\* Only the answer of the latest request counts.
PreviewAnswer(f, ok) ==
  /\ f.stage = "call"
  /\ fetches' = fetches \ {f}
  /\ view' = IF f.fresh
             THEN [view EXCEPT !.preview = IF ok THEN f.t ELSE None, !.loading = FALSE]
             ELSE view
  /\ ref' = IF f.fresh THEN [ref EXCEPT !.preview = IF ok THEN f.t ELSE None] ELSE ref
  /\ UNCHANGED <<platform, picking, calls, inbox, made>>

------------------------------------------------------------------------------
(* Receiving                                                                *)

\* receiveWithTicket up to receive_file.  The item count is that of the preview,
\* unless one is remembered already.
ReceiveWithTicket(v, r) ==
  /\ made < MaxReceives
  /\ PreviewEffect(
       [v EXCEPT !.receiving = TRUE, !.transporting = FALSE, !.completed = FALSE,
                 !.meta = NoMeta],
       [r EXCEPT !.count = IF @ # None THEN @ ELSE r.preview,
                 !.active = TRUE, !.conflict = FALSE, !.opened = FALSE,
                 !.openUri = v.uri])
  /\ calls' = calls \cup {[n |-> made + 1, stage |-> "called", cancelled |-> FALSE]}
  /\ made' = made + 1

\* handleReceive: the button, or Enter in the text area.
HandleReceive ==
  /\ view.ticket # None /\ ~view.receiving /\ ~view.alert
  /\ ReceiveWithTicket(view, ref)
  /\ UNCHANGED <<platform, picking, inbox>>

\* acceptPairedInvite, from the invite dialog on any page.
AcceptPairedInvite(t) ==
  /\ IF view.receiving \/ view.transporting
     THEN /\ view' = [view EXCEPT !.alert = TRUE]
          /\ UNCHANGED <<ref, fetches, calls, made>>
     ELSE ReceiveWithTicket([view EXCEPT !.ticket = t, !.preview = t],
                            [ref EXCEPT !.preview = t, !.count = t])
  /\ UNCHANGED <<platform, picking, inbox>>

\* resetForNewTransfer: Stop while receiving, Done on the summary.
ResetForNewTransfer ==
  /\ view.receiving /\ ~view.alert
  /\ PreviewEffect([InitialView EXCEPT !.path = view.path, !.uri = view.uri], InitialRef)
  /\ calls' = {[c EXCEPT !.cancelled = TRUE] : c \in calls}
  /\ UNCHANGED <<platform, picking, inbox, made>>

CloseAlert ==
  /\ view.alert
  /\ view' = [view EXCEPT !.alert = FALSE]
  /\ UNCHANGED <<platform, ref, fetches, picking, calls, inbox, made>>

\* handleBrowseFolder; the picker's answer finds whatever is going on by then.
HandleBrowseFolder ==
  /\ ~view.receiving /\ ~view.alert /\ ~picking
  /\ picking' = TRUE
  /\ UNCHANGED <<platform, view, ref, fetches, calls, inbox, made>>

PickerAnswer(chosen) ==
  /\ picking
  /\ picking' = FALSE
  /\ view' = IF chosen THEN [view EXCEPT !.path = "chosen", !.uri = platform = "android"]
             ELSE view
  /\ UNCHANGED <<platform, ref, fetches, calls, inbox, made>>

\* handleOpenFolder, once per receive unless it fails.
HandleOpenFolder(ok) ==
  /\ view.receiving /\ view.completed /\ ~view.alert
  /\ platform # "web" /\ ~ref.opened
  /\ LET works == ok /\ (platform = "android" => ref.openUri)
     IN  /\ ref' = [ref EXCEPT !.opened = works]
         /\ view' = [view EXCEPT !.alert = ~works]
  /\ UNCHANGED <<platform, fetches, picking, calls, inbox, made>>

------------------------------------------------------------------------------
(* External: receive_file                                                   *)

Emit(kind, c) == inbox' = Append(inbox, [k |-> kind, n |-> c.n])

\* Stages of a call and what it emits on entering the next one.  A blob that is
\* in the store already is announced as completed before it is exported.
CallSteps ==
  { <<"called", "started", "started">>, <<"started", "local", "completed">>,
    <<"started", "exported", "conflicts">>, <<"local", "exported", "conflicts">>,
    <<"started", "completed", "completed">>, <<"local", "completed", "completed">>,
    <<"exported", "completed", "completed">>, <<"completed", "private", "fallback">> }

CallMoves(c, step) ==
  /\ c.stage = step[1] /\ Len(inbox) < MaxQueue
  /\ step[3] = "fallback" => platform = "android"
  /\ calls' = (calls \ {c}) \cup {[c EXCEPT !.stage = step[2]]}
  /\ Emit(step[3], c)
  /\ UNCHANGED <<platform, view, ref, fetches, picking, made>>

\* It ends well, with an error, or with "cancelled" if it was cancelled in time.
CallEnds(c, how) ==
  /\ Len(inbox) < MaxQueue
  /\ how = "ok" => c.stage \in {"completed", "private"}
  /\ how = "error" => c.stage \in {"called", "started", "local"}
  /\ how = "cancelled" => c.cancelled /\ c.stage \notin {"completed", "private"}
  /\ calls' = calls \ {c}
  /\ Emit(how, c)
  /\ UNCHANGED <<platform, view, ref, fetches, picking, made>>

------------------------------------------------------------------------------
(* Events and answers                                                       *)

Handle(kind) ==
  /\ inbox # <<>> /\ Head(inbox).k = kind
  /\ inbox' = Tail(inbox)

HandleStarted ==
  /\ Handle("started")
  /\ view' = IF ref.active THEN [view EXCEPT !.transporting = TRUE, !.completed = FALSE]
             ELSE view
  /\ UNCHANGED <<platform, ref, fetches, picking, calls, made>>

HandleConflicts ==
  /\ Handle("conflicts")
  /\ ref' = IF ref.active THEN [ref EXCEPT !.conflict = TRUE] ELSE ref
  /\ UNCHANGED <<platform, view, fetches, picking, calls, made>>

\* Mutant of HandleCompleted: without a remembered item count no summary is made.
HandleCompleted_NoCount ==
  /\ Handle("completed")
  /\ IF ref.active
     THEN /\ view' = [view EXCEPT !.transporting = FALSE, !.completed = TRUE,
                       !.meta = IF ref.count = None THEN @
                                ELSE [of |-> Head(inbox).n, count |-> ref.count, path |-> view.path],
                       !.alert = @ \/ ref.conflict]
          /\ ref' = [ref EXCEPT !.conflict = FALSE]
     ELSE UNCHANGED <<view, ref>>
  /\ UNCHANGED <<platform, fetches, picking, calls, made>>

\* receive-completed: the summary takes the path shown now, and a notice of
\* renamed files comes up.
HandleCompleted ==
  /\ Handle("completed")
  /\ IF ref.active
     THEN /\ view' = [view EXCEPT !.transporting = FALSE, !.completed = TRUE,
                       !.meta = [of |-> Head(inbox).n, count |-> ref.count, path |-> view.path],
                       !.alert = @ \/ ref.conflict]
          /\ ref' = [ref EXCEPT !.conflict = FALSE]
     ELSE UNCHANGED <<view, ref>>
  /\ UNCHANGED <<platform, fetches, picking, calls, made>>

\* receive-download-fallback, handled whether or not a receive is active.
HandleFallback ==
  /\ Handle("fallback")
  /\ ref' = [ref EXCEPT !.openUri = FALSE]
  /\ view' = [view EXCEPT !.path = "private", !.alert = TRUE,
                 !.meta = IF view.meta = NoMeta THEN @ ELSE [@ EXCEPT !.path = "private"]]
  /\ UNCHANGED <<platform, fetches, picking, calls, made>>

\* Mutant of HandleAnswer: an error only raises the alert.
HandleAnswer_AlertOnly ==
  \E how \in {"ok", "cancelled", "error"} :
    /\ Handle(how)
    /\ view' = [view EXCEPT !.alert = @ \/ how = "error"]
    /\ UNCHANGED <<platform, ref, fetches, picking, calls, made>>

\* The catch of receiveWithTicket: "cancelled" is ignored, and success too.
HandleAnswer ==
  \E how \in {"ok", "cancelled", "error"} :
    /\ Handle(how)
    /\ IF how = "error"
       THEN LET v == [view EXCEPT !.receiving = FALSE, !.transporting = FALSE,
                                  !.completed = FALSE, !.alert = TRUE]
            IN  IF view.receiving THEN PreviewEffect(v, ref)
                ELSE view' = v /\ UNCHANGED <<ref, fetches>>
       ELSE UNCHANGED <<view, ref, fetches>>
    /\ UNCHANGED <<platform, picking, calls, made>>

------------------------------------------------------------------------------

Next ==
  \/ \E t \in Tickets \cup {None} : HandleTicketChange(t)
  \/ \E f \in fetches : PreviewTimer(f)
  \/ \E f \in fetches, ok \in BOOLEAN : PreviewAnswer(f, ok)
  \/ HandleReceive
  \/ \E t \in Tickets : AcceptPairedInvite(t)
  \/ ResetForNewTransfer
  \/ CloseAlert
  \/ HandleBrowseFolder
  \/ \E chosen \in BOOLEAN : PickerAnswer(chosen)
  \/ \E ok \in BOOLEAN : HandleOpenFolder(ok)
  \/ \E c \in calls, step \in CallSteps : CallMoves(c, step)
  \/ \E c \in calls, how \in {"ok", "error", "cancelled"} : CallEnds(c, how)
  \/ HandleStarted
  \/ HandleConflicts
  \/ HandleCompleted
  \/ HandleFallback
  \/ HandleAnswer

Spec == Init /\ [][Next]_vars

\* A receive_file call goes on and answers; the event loop handles what arrives.
FairSpec ==
  /\ Spec
  /\ WF_vars(\E c \in calls, how \in {"ok", "error", "cancelled"} : CallEnds(c, how))
  /\ WF_vars(\E c \in calls, step \in CallSteps : CallMoves(c, step))
  /\ WF_vars(HandleStarted \/ HandleConflicts \/ HandleCompleted
             \/ HandleFallback \/ HandleAnswer)

------------------------------------------------------------------------------
(* Properties                                                               *)

Paths == {"default", "chosen", "private"}
Stages == {"called", "started", "local", "exported", "completed", "private"}
Kinds == {"started", "conflicts", "completed", "fallback", "ok", "cancelled", "error"}

Metas == [of : 0..made, count : Tickets \cup {None}, path : Paths \cup {"none"}]
Screens ==
  [ticket : Tickets \cup {None}, receiving : BOOLEAN, transporting : BOOLEAN,
   completed : BOOLEAN, meta : Metas, preview : Tickets \cup {None}, loading : BOOLEAN,
   alert : BOOLEAN, path : Paths, uri : BOOLEAN]
Refs ==
  [active : BOOLEAN, preview : Tickets \cup {None}, count : Tickets \cup {None},
   conflict : BOOLEAN, openUri : BOOLEAN, opened : BOOLEAN]
Fetches == [t : Tickets, stage : {"timer", "call"}, fresh : BOOLEAN]
Calls == [n : 1..made, cancelled : BOOLEAN, stage : Stages]
Messages == [n : 1..made, k : Kinds]

\* Types; events, calls and summaries are of receives that were asked for.
TypeOK ==
  /\ platform \in Platforms /\ picking \in BOOLEAN /\ made \in 0..MaxReceives
  /\ view \in Screens
  /\ ref \in Refs
  /\ fetches \subseteq Fetches
  /\ calls \subseteq Calls
  /\ inbox \in Seq(Messages)

\* The preview on the screen, and its copy in the ref that a download reads, is
\* that of the ticket in the text area: answers of fetch_ticket_metadata come in any
\* order, and invites, failures and resets change the ticket in between.
PreviewMatchesTicket ==
  /\ view.preview \in {None, view.ticket}
  /\ ref.preview = view.preview

\* "Connecting to sender" is never left on the screen: while isPreviewLoading is
\* set, a request that will reset it is under way.
LoadingHasRequest == view.loading => \E f \in fetches : f.fresh

\* isCompleted and the summary are set and reset together by the five handlers
\* that touch them; without a summary the screen shows a download for ever.
CompletedHasSummary == view.completed => view.meta # NoMeta

\* No screen waits for what will not come: neither the preview nor the summary
\* (the spinner and the end screen of Receiver.tsx).
ScreenIsSound == TypeOK /\ LoadingHasRequest /\ CompletedHasSummary

\* A receive that begins when no cancelled one is unwinding or has events under
\* way ends on the page too: with the summary, at the ticket, or by the stop button.
ReceiveEnds ==
  (view.receiving /\ inbox = <<>> /\ \E c \in calls : calls = {c} /\ c.n = made /\ c.stage = "called")
    ~> (~view.receiving \/ view.completed)

\* A summary is about the newest receive: "ignore events whose seq no longer
\* matches - preventing ghost completions from a just-cancelled download"
\* (useReceiver.ts).
NoGhostCompletion == view.completed => view.meta.of = made
==============================================================================
