-------------------------- MODULE ReceiveView_proofs --------------------------
(***************************************************************************)
(* The screens of the receive tab, for any tickets and any number of       *)
(* receives, previews and events under way.                                *)
(***************************************************************************)
EXTENDS ReceiveView, TLAPS

\* What the screens ask of the hook's state v, its refs r and the preview
\* requests fs; a request that still counts is for the ticket that is shown.
Sound(v, r, fs) ==
  /\ v \in Screens /\ r \in Refs /\ fs \subseteq Fetches
  /\ v.preview \in {None, v.ticket} /\ r.preview = v.preview
  /\ v.loading => \E f \in fs : f.fresh
  /\ v.completed => v.meta # NoMeta
  /\ \A f \in fs : f.fresh => f.t = v.ticket

IInv == TypeOK /\ Sound(view, ref, fetches)

USE ConstantsAssumption

------------------------------------------------------------------------------
(* Types that grow with the receives                                        *)

LEMMA SameTypes ==
  ASSUME UNCHANGED made
  PROVE  Screens' = Screens /\ Calls' = Calls /\ Messages' = Messages
  BY DEF Screens, Metas, Calls, Messages

LEMMA MoreTypes ==
  ASSUME made \in Nat, made' = made + 1
  PROVE  Screens \subseteq Screens' /\ Calls \subseteq Calls' /\ Messages \subseteq Messages'
<1>1. 0..made \subseteq 0..made' /\ 1..made \subseteq 1..made'
  OBVIOUS
<1>2. Metas \subseteq Metas'
  BY <1>1 DEF Metas
<1>3. Screens \subseteq Screens'
  BY <1>2 DEF Screens
<1> QED BY <1>1, <1>3 DEF Calls, Messages

\* What is left to show of a step that calls no receive_file.
LEMMA PlainStep ==
  ASSUME IInv, UNCHANGED <<platform, made>>, Sound(view', ref', fetches'), picking' \in BOOLEAN,
         calls' \subseteq Calls, inbox' \in Seq(Messages)
  PROVE  IInv'
  BY SameTypes DEF IInv, TypeOK, Sound, Refs, Fetches

LEMMA NoMetaIsMeta == ASSUME TypeOK PROVE NoMeta \in Metas
  BY DEF TypeOK, NoMeta, Metas

\* Nothing is received, shown or asked for at first.
LEMMA InitInv == Init => IInv
<1> SUFFICES ASSUME Init PROVE IInv
  OBVIOUS
<1>1. NoMeta \in Metas
  BY DEF Init, NoMeta, Metas
<1>2. view \in Screens
  BY <1>1 DEF Init, InitialView, Screens, Paths
<1>3. ref \in Refs
  BY DEF Init, InitialRef, Refs
<1>4. TypeOK
  <2>1. inbox \in Seq(Messages) /\ made \in 0..MaxReceives
    BY DEF Init
  <2>2. calls \subseteq Calls /\ fetches \subseteq Fetches
    BY DEF Init
  <2> QED BY <1>2, <1>3, <2>1, <2>2 DEF Init, TypeOK
<1> QED BY <1>2, <1>3, <1>4 DEF Init, IInv, Sound, InitialView, InitialRef

------------------------------------------------------------------------------
(* The preview                                                              *)

\* No request counts any more.
LEMMA OutdateTypes ==
  ASSUME fetches \subseteq Fetches
  PROVE  Outdate \subseteq Fetches /\ \A f \in Outdate : ~f.fresh
  BY DEF Outdate, Fetches

\* The effect leaves a preview that belongs to the ticket, whatever the handler
\* before it did to the ticket.
LEMMA EffectIsSound ==
  ASSUME TypeOK, NEW v \in Screens, NEW r \in Refs, PreviewEffect(v, r),
         v.completed => v.meta # NoMeta,
         v.receiving => v.preview \in {None, v.ticket} /\ r.preview = v.preview
  PROVE  Sound(view', ref', fetches')
<1>1. Outdate \subseteq Fetches /\ \A f \in Outdate : ~f.fresh
  BY OutdateTypes DEF TypeOK
<1>2. CASE v.receiving
  <2>1. view' = [v EXCEPT !.loading = FALSE] /\ ref' = r /\ fetches' = Outdate
    BY <1>2 DEF PreviewEffect
  <2> QED BY <1>1, <1>2, <2>1 DEF Sound, Screens
<1>3. CASE ~v.receiving
  <2> DEFINE timer == [t |-> v.ticket, stage |-> "timer", fresh |-> TRUE]
  <2>1. /\ view' = [v EXCEPT !.preview = None, !.loading = v.ticket # None]
        /\ ref' = [r EXCEPT !.preview = None]
        /\ fetches' = Outdate \cup (IF v.ticket = None THEN {} ELSE {timer})
    BY <1>3 DEF PreviewEffect
  <2>2. v.ticket # None => timer \in Fetches
    BY DEF Screens, Fetches
  <2>3. /\ view' \in Screens /\ view'.preview = None /\ view'.ticket = v.ticket
        /\ view'.loading = (v.ticket # None) /\ view'.completed = v.completed
        /\ view'.meta = v.meta /\ ref' \in Refs /\ ref'.preview = None
    BY <2>1 DEF Screens, Refs
  <2>4. fetches' \subseteq Fetches /\ (v.ticket # None => timer \in fetches')
    BY <1>1, <2>1, <2>2
  <2>5. \A f \in fetches' : f.fresh => f.t = v.ticket
    BY <1>1, <2>1
  <2> QED BY <2>3, <2>4, <2>5 DEF Sound
<1> QED BY <1>2, <1>3

LEMMA HandleTicketChangeInv ==
  ASSUME IInv, NEW t \in Tickets \cup {None}, HandleTicketChange(t)
  PROVE  IInv'
<1> DEFINE v == [view EXCEPT !.ticket = t]
<1>1. v \in Screens /\ ~v.receiving /\ v.completed = view.completed /\ v.meta = view.meta
  BY DEF IInv, TypeOK, HandleTicketChange, Screens
<1>2. Sound(view', ref', fetches')
  BY <1>1, EffectIsSound DEF IInv, TypeOK, Sound, HandleTicketChange
<1> QED BY <1>2, PlainStep DEF IInv, TypeOK, HandleTicketChange

\* The timer's request becomes a call for the same ticket.
LEMMA PreviewTimerInv == ASSUME IInv, NEW f \in fetches, PreviewTimer(f) PROVE IInv'
<1> DEFINE g == [f EXCEPT !.stage = "call"]
<1>1. g \in Fetches /\ g.t = f.t /\ g.fresh = f.fresh
  BY DEF IInv, TypeOK, Fetches
<1>2. fetches' = (fetches \ {f}) \cup {g}
  BY DEF PreviewTimer
<1>3. Sound(view', ref', fetches')
  BY <1>1, <1>2 DEF IInv, Sound, PreviewTimer
<1> QED BY <1>3, PlainStep DEF IInv, TypeOK, PreviewTimer

\* An answer that counts is for the ticket that is shown, and ends the wait.
LEMMA PreviewAnswerInv ==
  ASSUME IInv, NEW f \in fetches, NEW ok \in BOOLEAN, PreviewAnswer(f, ok)
  PROVE  IInv'
<1>1. f.t \in Tickets /\ fetches' = fetches \ {f}
  BY DEF IInv, TypeOK, Fetches, PreviewAnswer
<1>2. CASE f.fresh
  <2> DEFINE p == IF ok THEN f.t ELSE None
  <2>1. p \in Tickets \cup {None} /\ p \in {None, view.ticket}
    BY <1>1, <1>2 DEF IInv, Sound
  <2>2. view' = [view EXCEPT !.preview = p, !.loading = FALSE] /\ ref' = [ref EXCEPT !.preview = p]
    BY <1>2 DEF PreviewAnswer
  <2> HIDE DEF p
  <2>3. /\ view' \in Screens /\ ref' \in Refs /\ view'.preview = p /\ ref'.preview = p
        /\ view'.loading = FALSE /\ view'.ticket = view.ticket
        /\ view'.completed = view.completed /\ view'.meta = view.meta
    BY <2>1, <2>2 DEF IInv, TypeOK, Screens, Refs
  <2>4. Sound(view', ref', fetches')
    BY <1>1, <2>1, <2>3 DEF IInv, Sound
  <2> QED BY <2>4, PlainStep DEF IInv, TypeOK, PreviewAnswer
<1>3. CASE ~f.fresh
  <2>1. Sound(view', ref', fetches')
    BY <1>1, <1>3 DEF IInv, Sound, PreviewAnswer
  <2> QED BY <2>1, PlainStep DEF IInv, TypeOK, PreviewAnswer
<1> QED BY <1>2, <1>3

------------------------------------------------------------------------------
(* Receiving                                                                *)

\* A receive that begins has no summary yet, and a new call of its own.
LEMMA ReceiveWithTicketInv ==
  ASSUME IInv, NEW v \in Screens, NEW r \in Refs, ReceiveWithTicket(v, r),
         v.preview \in {None, v.ticket}, r.preview = v.preview,
         UNCHANGED <<platform, picking, inbox>>
  PROVE  IInv'
<1> DEFINE w == [v EXCEPT !.receiving = TRUE, !.transporting = FALSE, !.completed = FALSE,
                          !.meta = NoMeta]
           q == [r EXCEPT !.count = IF @ # None THEN @ ELSE r.preview,
                          !.active = TRUE, !.conflict = FALSE, !.opened = FALSE,
                          !.openUri = v.uri]
           c == [n |-> made + 1, stage |-> "called", cancelled |-> FALSE]
<1>1. w \in Screens /\ w.completed = FALSE /\ w.preview = v.preview /\ w.ticket = v.ticket
  BY NoMetaIsMeta DEF IInv, Screens
<1>2. q \in Refs /\ q.preview = r.preview
  <2>1. v.uri \in BOOLEAN
    BY DEF Screens
  <2> QED BY <2>1 DEF Refs
<1>3. PreviewEffect(w, q) /\ calls' = calls \cup {c} /\ made' = made + 1 /\ made < MaxReceives
  BY DEF ReceiveWithTicket
<1> HIDE DEF w, q
<1>4. Sound(view', ref', fetches')
  BY <1>1, <1>2, <1>3, EffectIsSound DEF IInv
<1>5. made \in Nat /\ made' \in 0..MaxReceives
  BY <1>3 DEF IInv, TypeOK
<1>6. Screens \subseteq Screens' /\ Calls \subseteq Calls' /\ Messages \subseteq Messages'
  BY <1>3, <1>5, MoreTypes
<1>7. c \in Calls'
  BY <1>3, <1>5 DEF Calls, Stages
<1>8. view' \in Screens' /\ calls' \subseteq Calls' /\ inbox' \in Seq(Messages')
  <2>1. inbox' \in Seq(Messages)
    BY DEF IInv, TypeOK
  <2>2. Seq(Messages) \subseteq Seq(Messages')
    BY <1>6
  <2> QED BY <1>3, <1>4, <1>6, <1>7, <2>1, <2>2 DEF IInv, TypeOK, Sound
<1>9. TypeOK'
  BY <1>4, <1>5, <1>8 DEF IInv, TypeOK, Sound, Refs, Fetches
<1> QED BY <1>4, <1>8, <1>9 DEF IInv, Sound, Refs, Fetches

LEMMA HandleReceiveInv == ASSUME IInv, HandleReceive PROVE IInv'
  BY ReceiveWithTicketInv DEF IInv, TypeOK, Sound, HandleReceive

LEMMA AcceptPairedInviteInv ==
  ASSUME IInv, NEW t \in Tickets, AcceptPairedInvite(t)
  PROVE  IInv'
<1>1. CASE view.receiving \/ view.transporting
  <2>1. view' = [view EXCEPT !.alert = TRUE] /\ UNCHANGED <<platform, ref, fetches, picking, calls, inbox, made>>
    BY <1>1 DEF AcceptPairedInvite
  <2>2. Sound(view', ref', fetches')
    BY <2>1 DEF IInv, Sound, Screens
  <2> QED BY <2>1, <2>2, PlainStep DEF IInv, TypeOK
<1>2. CASE ~(view.receiving \/ view.transporting)
  <2> DEFINE v == [view EXCEPT !.ticket = t, !.preview = t]
             r == [ref EXCEPT !.preview = t, !.count = t]
  <2>1. v \in Screens /\ v.preview = t /\ v.ticket = t /\ r \in Refs /\ r.preview = t
    BY DEF IInv, TypeOK, Screens, Refs
  <2>2. ReceiveWithTicket(v, r) /\ UNCHANGED <<platform, picking, inbox>>
    BY <1>2 DEF AcceptPairedInvite
  <2> HIDE DEF v, r
  <2> QED BY <2>1, <2>2, ReceiveWithTicketInv
<1> QED BY <1>1, <1>2

LEMMA ResetForNewTransferInv == ASSUME IInv, ResetForNewTransfer PROVE IInv'
<1> DEFINE v == [InitialView EXCEPT !.path = view.path, !.uri = view.uri]
<1>1. view.path \in Paths /\ view.uri \in BOOLEAN
  BY DEF IInv, TypeOK, Screens
<1>2. InitialView \in Screens
  BY NoMetaIsMeta DEF IInv, InitialView, Screens, Paths
<1>3. v \in Screens
  BY <1>1, <1>2 DEF Screens
<1>4. ~v.completed /\ ~v.receiving
  BY DEF InitialView
<1>5. InitialRef \in Refs
  BY DEF InitialRef, Refs
<1>6. PreviewEffect(v, InitialRef)
  BY DEF ResetForNewTransfer
<1> HIDE DEF v
<1>7. Sound(view', ref', fetches')
  BY <1>3, <1>4, <1>5, <1>6, EffectIsSound DEF IInv
<1>8. calls' \subseteq Calls
  BY DEF IInv, TypeOK, ResetForNewTransfer, Calls
<1> QED BY <1>7, <1>8, PlainStep DEF IInv, TypeOK, ResetForNewTransfer

LEMMA CloseAlertInv == ASSUME IInv, CloseAlert PROVE IInv'
<1>1. Sound(view', ref', fetches')
  BY DEF IInv, Sound, Screens, CloseAlert
<1> QED BY <1>1, PlainStep DEF IInv, TypeOK, CloseAlert

LEMMA BrowseInv == ASSUME IInv, HandleBrowseFolder PROVE IInv'
  BY PlainStep DEF IInv, TypeOK, HandleBrowseFolder

LEMMA PickerAnswerInv == ASSUME IInv, NEW chosen \in BOOLEAN, PickerAnswer(chosen) PROVE IInv'
<1>1. "chosen" \in Paths /\ (platform = "android") \in BOOLEAN
  BY DEF Paths
<1>2. Sound(view', ref', fetches')
  BY <1>1 DEF IInv, Sound, Screens, PickerAnswer
<1> QED BY <1>2, PlainStep DEF IInv, TypeOK, PickerAnswer

LEMMA HandleOpenFolderInv == ASSUME IInv, NEW ok \in BOOLEAN, HandleOpenFolder(ok) PROVE IInv'
<1> DEFINE works == ok /\ (platform = "android" => ref.openUri)
<1>1. works \in BOOLEAN /\ ref' = [ref EXCEPT !.opened = works] /\ view' = [view EXCEPT !.alert = ~works]
      /\ UNCHANGED <<platform, fetches, picking, calls, inbox, made>>
  BY DEF HandleOpenFolder
<1> HIDE DEF works
<1>2. Sound(view', ref', fetches')
  BY <1>1 DEF IInv, Sound, Screens, Refs
<1> QED BY <1>1, <1>2, PlainStep DEF IInv, TypeOK

------------------------------------------------------------------------------
(* receive_file, its events and answers                                     *)

LEMMA CallMovesInv ==
  ASSUME IInv, NEW c \in calls, NEW step \in CallSteps, CallMoves(c, step)
  PROVE  IInv'
<1>1. step[2] \in Stages /\ step[3] \in Kinds
  BY DEF CallSteps, Stages, Kinds
<1>2. c \in Calls
  BY DEF IInv, TypeOK
<1>3. [c EXCEPT !.stage = step[2]] \in Calls /\ [k |-> step[3], n |-> c.n] \in Messages
  BY <1>1, <1>2 DEF Calls, Messages
<1>4. calls' \subseteq Calls
  BY <1>3 DEF IInv, TypeOK, CallMoves
<1>5. inbox' \in Seq(Messages)
  BY <1>3 DEF IInv, TypeOK, CallMoves, Emit
<1> QED BY <1>4, <1>5, PlainStep DEF IInv, TypeOK, CallMoves

LEMMA CallEndsInv ==
  ASSUME IInv, NEW c \in calls, NEW how \in {"ok", "error", "cancelled"}, CallEnds(c, how)
  PROVE  IInv'
<1>1. [k |-> how, n |-> c.n] \in Messages
  BY DEF IInv, TypeOK, Calls, Messages, Kinds
<1>2. inbox' \in Seq(Messages)
  BY <1>1 DEF IInv, TypeOK, CallEnds, Emit
<1> QED BY <1>2, PlainStep DEF IInv, TypeOK, CallEnds

\* The oldest message, and what is left.
LEMMA HandleTypes ==
  ASSUME TypeOK, NEW kind, Handle(kind)
  PROVE  Head(inbox).n \in 1..made /\ inbox' \in Seq(Messages)
<1>1. Head(inbox) \in Messages /\ Tail(inbox) \in Seq(Messages)
  BY DEF TypeOK, Handle
<1> QED BY <1>1 DEF Messages, Handle

LEMMA HandleStartedInv == ASSUME IInv, HandleStarted PROVE IInv'
<1>1. inbox' \in Seq(Messages)
  BY HandleTypes DEF IInv, HandleStarted
<1>2. Sound(view', ref', fetches')
  BY DEF IInv, Sound, Screens, HandleStarted
<1> QED BY <1>1, <1>2, PlainStep DEF IInv, TypeOK, HandleStarted

LEMMA HandleConflictsInv == ASSUME IInv, HandleConflicts PROVE IInv'
<1>1. inbox' \in Seq(Messages)
  BY HandleTypes DEF IInv, HandleConflicts
<1>2. Sound(view', ref', fetches')
  BY DEF IInv, Sound, Refs, HandleConflicts
<1> QED BY <1>1, <1>2, PlainStep DEF IInv, TypeOK, HandleConflicts

\* A summary has the path that is shown, so it is not the empty one.
LEMMA HandleCompletedInv == ASSUME IInv, HandleCompleted PROVE IInv'
<1> DEFINE m == [of |-> Head(inbox).n, count |-> ref.count, path |-> view.path]
<1>1. Head(inbox).n \in 1..made /\ inbox' \in Seq(Messages)
  BY HandleTypes DEF IInv, HandleCompleted
<1>2. Head(inbox).n \in 0..made /\ Head(inbox).n # 0
  BY <1>1 DEF IInv, TypeOK
<1>3. m \in Metas /\ m # NoMeta
  BY <1>2 DEF IInv, TypeOK, Screens, Refs, Metas, NoMeta
<1>4. Sound(view', ref', fetches')
  <2>1. CASE ref.active
    <3>1. /\ view' = [view EXCEPT !.transporting = FALSE, !.completed = TRUE, !.meta = m,
                                  !.alert = @ \/ ref.conflict]
          /\ ref' = [ref EXCEPT !.conflict = FALSE] /\ fetches' = fetches
      BY <2>1 DEF HandleCompleted
    <3> HIDE DEF m
    <3> QED BY <1>3, <3>1 DEF IInv, Sound, Screens, Refs
  <2>2. CASE ~ref.active
    BY <2>2 DEF IInv, HandleCompleted
  <2> QED BY <2>1, <2>2
<1> QED BY <1>1, <1>4, PlainStep DEF IInv, TypeOK, HandleCompleted

\* The path of a summary is changed, an empty summary is left alone.
LEMMA HandleFallbackInv == ASSUME IInv, HandleFallback PROVE IInv'
<1>1. inbox' \in Seq(Messages)
  BY HandleTypes DEF IInv, HandleFallback
<1> DEFINE m == IF view.meta = NoMeta THEN view.meta ELSE [view.meta EXCEPT !.path = "private"]
<1>2. m \in Metas /\ (view.meta # NoMeta => m # NoMeta)
  BY DEF IInv, TypeOK, Screens, Metas, NoMeta, Paths
<1>3. /\ view' = [view EXCEPT !.path = "private", !.alert = TRUE, !.meta = m]
      /\ ref' = [ref EXCEPT !.openUri = FALSE] /\ fetches' = fetches
  BY DEF HandleFallback
<1> HIDE DEF m
<1>4. "private" \in Paths
  BY DEF Paths
<1>5. Sound(view', ref', fetches')
  BY <1>2, <1>3, <1>4 DEF IInv, Sound, Screens, Refs
<1> QED BY <1>1, <1>5, PlainStep DEF IInv, TypeOK, HandleFallback

\* An error ends the receive, and the preview of the ticket is asked for again.
LEMMA HandleAnswerInv == ASSUME IInv, HandleAnswer PROVE IInv'
<1>1. PICK how \in {"ok", "cancelled", "error"} :
        /\ Handle(how)
        /\ IF how = "error"
           THEN LET v == [view EXCEPT !.receiving = FALSE, !.transporting = FALSE,
                                      !.completed = FALSE, !.alert = TRUE]
                IN  IF view.receiving THEN PreviewEffect(v, ref)
                    ELSE view' = v /\ UNCHANGED <<ref, fetches>>
           ELSE UNCHANGED <<view, ref, fetches>>
        /\ UNCHANGED <<platform, picking, calls, made>>
  BY DEF HandleAnswer
<1> DEFINE v == [view EXCEPT !.receiving = FALSE, !.transporting = FALSE,
                             !.completed = FALSE, !.alert = TRUE]
<1>2. inbox' \in Seq(Messages)
  BY <1>1, HandleTypes DEF IInv
<1>3. /\ v \in Screens /\ ~v.receiving /\ ~v.completed /\ v.ticket = view.ticket
      /\ v.preview = view.preview /\ v.loading = view.loading
  BY DEF IInv, TypeOK, Screens
<1>4. CASE how = "error" /\ view.receiving
  <2>1. PreviewEffect(v, ref)
    BY <1>1, <1>4
  <2> HIDE DEF v
  <2> QED BY <1>1, <1>2, <1>3, <2>1, EffectIsSound, PlainStep DEF IInv, TypeOK
<1>5. CASE how = "error" /\ ~view.receiving
  <2>1. view' = v /\ UNCHANGED <<ref, fetches>>
    BY <1>1, <1>5
  <2> HIDE DEF v
  <2>2. Sound(view', ref', fetches')
    BY <1>3, <2>1 DEF IInv, Sound
  <2> QED BY <1>1, <1>2, <2>2, PlainStep DEF IInv, TypeOK
<1>6. CASE how # "error"
  BY <1>1, <1>2, <1>6, PlainStep DEF IInv, TypeOK
<1> QED BY <1>4, <1>5, <1>6

------------------------------------------------------------------------------
LEMMA NextInv == IInv /\ [Next]_vars => IInv'
<1>1. ASSUME IInv, UNCHANGED vars PROVE IInv'
  BY <1>1, PlainStep DEF IInv, TypeOK, vars
<1>2. ASSUME IInv, Next PROVE IInv'
  BY <1>2, HandleTicketChangeInv, PreviewTimerInv, PreviewAnswerInv, HandleReceiveInv,
     AcceptPairedInviteInv, ResetForNewTransferInv, CloseAlertInv, BrowseInv, PickerAnswerInv,
     HandleOpenFolderInv, CallMovesInv, CallEndsInv, HandleStartedInv, HandleConflictsInv,
     HandleCompletedInv, HandleFallbackInv, HandleAnswerInv DEF Next
<1> QED BY <1>1, <1>2

LEMMA Invariance == Spec => []IInv
  BY InitInv, NextInv, PTL DEF Spec

\* Whatever order the answers of fetch_ticket_metadata come in, and whatever
\* invites, errors and resets do to the ticket meanwhile, the preview on the screen
\* and the one a download reads are of the ticket in the text area.
THEOREM PreviewIsOfTicket == Spec => []PreviewMatchesTicket
<1>1. IInv => PreviewMatchesTicket
  BY DEF IInv, Sound, PreviewMatchesTicket
<1> QED BY <1>1, Invariance, PTL

\* The spinner has a request that will end it, and the end screen its summary.
THEOREM NothingIsAwaitedInVain == Spec => []ScreenIsSound
<1>1. IInv => ScreenIsSound
  BY DEF IInv, Sound, ScreenIsSound, LoadingHasRequest, CompletedHasSummary
<1> QED BY <1>1, Invariance, PTL
===============================================================================
