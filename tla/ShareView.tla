------------------------------ MODULE ShareView ------------------------------
(***************************************************************************)
(* The send tab of the frontend: the store (store/sender-store.ts), the    *)
(* hook that drives it from buttons and engine events (hooks/useSender.ts) *)
(* and what Sender.tsx renders of it.                                      *)
(*                                                                         *)
(* JavaScript runs one callback at a time, so an action is one callback up *)
(* to its next await; what comes after the await is an element of pend     *)
(* that holds the locals the code captured.  Handlers of buttons see the   *)
(* store of the last render, which is the store of the moment of the click *)
(*                                                                         *)
(* The engine is external: it answers send_items and stop_sharing and      *)
(* emits events, which wait in a queue until the page handles them.  Shares*)
(* and transfers are numbered; the page never sees these numbers, they tag *)
(* what a ticket or a summary is about.  The progress of a transfer steers *)
(* nothing here and is the subject of TransferMeter.                       *)
(***************************************************************************)
EXTENDS Naturals, Sequences, FiniteSets

CONSTANTS
  MaxItems,      \* bound: files and folders selected
  MaxShares,     \* bound: shares asked for in a behaviour
  MaxTransfers,  \* bound: transfers begun in a behaviour
  MaxQueue,      \* bound: events under way to the page
  MaxStops,      \* bound: calls of stopSharing in a behaviour
  Broadcast      \* may the broadcast switch be used (showBroadcastToggle)

ASSUME BoundsAssumption ==
  /\ MaxItems \in Nat /\ MaxShares \in Nat /\ MaxTransfers \in Nat /\ MaxQueue \in Nat
  /\ MaxStops \in Nat
  /\ Broadcast \in BOOLEAN

VARIABLES
  store,     \* useSenderStore
  ref,       \* the refs of the hook that outlive a render
  pend,      \* continuations: answers, timers and callbacks not yet run
  engine,    \* external: the live share, running transfers, numbers given out
  events     \* events emitted and not yet handled

vars == <<store, ref, pend, engine, events>>

Views == {"IDLE", "SHARING", "TRANSPORTING", "SUCCESS"}
NoMeta == [of |-> 0, stopped |-> FALSE, exact |-> FALSE]

InitialStore ==
  [view |-> "IDLE", ticket |-> 0, sel |-> 0, meta |-> NoMeta,
   loading |-> FALSE, broadcast |-> FALSE, alert |-> FALSE]

Init ==
  /\ store = InitialStore
  /\ ref = [stopped |-> FALSE, started |-> 0]
  /\ pend = {}
  /\ engine = [live |-> 0, running |-> {}, shares |-> 0, transfers |-> 0, stops |-> 0]
  /\ events = <<>>

------------------------------------------------------------------------------
(* The store                                                                *)

\* Mutant of ResetToIdle: the ticket is kept.
ResetToIdle_KeepsTicket(s) ==
  [InitialStore EXCEPT !.alert = s.alert, !.ticket = s.ticket]

\* resetToIdle: the alert is left alone.
ResetToIdle(s) == [InitialStore EXCEPT !.alert = s.alert]

\* resetForBroadcast: back to listening, the ticket and the selection kept.
ResetForBroadcast(s) ==
  [s EXCEPT !.view = "SHARING", !.meta = NoMeta]

Has(kind) == \E c \in pend : c.k = kind
NoTransfer == [stopped |-> FALSE, started |-> 0]

\* What Sender.tsx puts on the screen, from the flags each part is shown
\* under; an open alert dialog is modal and covers the rest.
Summary(s) == s.view = "SUCCESS" /\ s.meta # NoMeta /\ ~s.broadcast
Card(s) == s.view = "SHARING" \/ (s.view = "TRANSPORTING" /\ ~s.broadcast)
Blank(s) == s.view # "IDLE" /\ ~Summary(s) /\ ~Card(s)

Screen ==
  IF store.alert THEN "alert"
  ELSE IF store.view = "IDLE" THEN "select"
  ELSE IF Summary(store) THEN "summary"
  ELSE IF Card(store) THEN "card" ELSE "blank"

\* ShareLinkPanel shows the ticket, with its copy button and broadcast switch.
TicketShown == Screen = "card" /\ store.view # "TRANSPORTING" /\ store.ticket # 0

------------------------------------------------------------------------------
(* Choosing what to send                                                    *)

\* handleFilesSelect adds to the selection.  On Android it is also called when
\* the copy of a chosen document ends, and that copy outlives the idle screen.
SelectFiles ==
  /\ store.sel < MaxItems
  /\ store' = [store EXCEPT !.sel = @ + 1]
  /\ UNCHANGED <<ref, pend, engine, events>>

\* clearSelectedPath and removeSelectedPath, from the idle screen
Deselect(n) ==
  /\ Screen = "select" /\ n < store.sel /\ ~store.loading
  /\ store' = [store EXCEPT !.sel = n]
  /\ UNCHANGED <<ref, pend, engine, events>>

------------------------------------------------------------------------------
(* Starting and stopping a share                                            *)

\* startSharing up to send_items: everything about an earlier share is dropped.
StartSharing ==
  /\ Screen = "select" /\ store.sel # 0 /\ ~store.loading
  /\ engine.shares < MaxShares
  /\ store' = [store EXCEPT !.view = "IDLE", !.meta = NoMeta,
                             !.loading = TRUE]
  /\ ref' = NoTransfer
  /\ engine' = [engine EXCEPT !.shares = @ + 1]
  /\ pend' = pend \cup {[k |-> "send", share |-> engine.shares + 1]}
  /\ UNCHANGED events

\* External: send_items ends, with a live share unless there is one or it fails.
EngineShares(c, ok) ==
  /\ c.k = "send"
  /\ engine' = IF ok /\ engine.live = 0 THEN [engine EXCEPT !.live = c.share] ELSE engine
  /\ pend' = (pend \ {c}) \cup
       {[k |-> "sent", share |-> c.share, ok |-> ok /\ engine.live = 0]}
  /\ UNCHANGED <<store, ref, events>>

\* Mutant of SendAnswer: an error skips what finally does.
SendAnswer_NoFinally(c) ==
  /\ c.k = "sent"
  /\ store' = IF ~c.ok
               THEN [store EXCEPT !.alert = TRUE]
               ELSE [store EXCEPT !.ticket = c.share, !.view = "SHARING", !.loading = FALSE]
  /\ pend' = pend \ {c}
  /\ UNCHANGED <<ref, engine, events>>

\* The rest of startSharing: the ticket, or an alert, and the finally.
SendAnswer(c) ==
  /\ c.k = "sent"
  /\ store' = IF ~c.ok
               THEN [store EXCEPT !.alert = TRUE, !.loading = FALSE]
               ELSE [store EXCEPT !.ticket = c.share, !.view = "SHARING", !.loading = FALSE]
  /\ pend' = pend \ {c}
  /\ UNCHANGED <<ref, engine, events>>

\* stopSharing up to its await of stop_sharing.  setIsBroadcastMode(false) comes
\* first, so its branch for an active transfer in broadcast mode is never taken.
StopSharing(closesAlert) ==
  LET s == [store EXCEPT !.broadcast = FALSE, !.alert = @ /\ ~closesAlert]
      active == store.view = "TRANSPORTING" /\ ~store.meta.stopped /\ store.sel # 0
      completed == store.view = "SUCCESS" /\ store.meta # NoMeta
  IN  /\ engine.stops < MaxStops
      /\ engine' = [engine EXCEPT !.stops = @ + 1]
      /\ store' = IF completed THEN ResetToIdle(s)
                  ELSE IF active
                  THEN [s EXCEPT !.view = "SUCCESS",
                                 !.meta = [of |-> ref.started, stopped |-> TRUE, exact |-> FALSE]]
                  ELSE s
      /\ ref' = IF completed THEN NoTransfer
                ELSE IF active
                THEN [stopped |-> TRUE, started |-> 0]
                ELSE ref
      /\ pend' = pend \cup {[k |-> "stop", n |-> engine.stops + 1,
                              how |-> IF completed THEN "background"
                                      ELSE IF active THEN "active" ELSE "plain"]}
      /\ UNCHANGED events

\* The stop button of the card.
StopButton == Screen = "card" /\ StopSharing(FALSE)
\* Done on the summary of TransferSuccessScreen: resetForNewTransfer.
Done == Screen = "summary" /\ StopSharing(FALSE)
\* The alert dialog offers to stop sharing whatever it is about.
AlertStop == Screen = "alert" /\ StopSharing(TRUE)

CloseAlert ==
  /\ Screen = "alert"
  /\ store' = [store EXCEPT !.alert = FALSE]
  /\ UNCHANGED <<ref, pend, engine, events>>

\* External: stop_sharing takes the live share; transfers under way end, a
\* last transfer-failed may still be emitted.  Nobody awaits a background one.
EngineStops(c, last) ==
  /\ c.k = "stop"
  /\ engine' = [engine EXCEPT !.live = 0, !.running = {}]
  /\ last => engine.running # {} /\ Len(events) < MaxQueue
  /\ events' = IF last THEN Append(events, [k |-> "failed",
                                           x |-> CHOOSE x \in engine.running : TRUE])
               ELSE events
  /\ pend' = (pend \ {c}) \cup
       (IF c.how = "background" THEN {} ELSE {[k |-> "stopped", n |-> c.n, how |-> c.how]})
  /\ UNCHANGED <<store, ref>>

\* The rest of stopSharing.
StopAnswer(c, ok) ==
  /\ c.k = "stopped"
  /\ store' = IF ~ok THEN [store EXCEPT !.alert = TRUE]
              ELSE IF c.how = "plain" THEN ResetToIdle(store)
              ELSE [store EXCEPT !.ticket = 0, !.sel = 0]
  /\ ref' = IF ~ok THEN ref
            ELSE IF c.how = "plain" THEN NoTransfer ELSE [ref EXCEPT !.started = 0]
  /\ pend' = pend \ {c}
  /\ UNCHANGED <<engine, events>>

------------------------------------------------------------------------------
(* Broadcast                                                                *)

\* handleBroadcastChange: switching on leaves a toast with Undo for 5 s.
SetBroadcast(on) ==
  /\ Broadcast /\ TicketShown /\ store.broadcast # on
  /\ store' = [store EXCEPT !.broadcast = on]
  /\ pend' = IF on THEN pend \cup {[k |-> "undo"]} ELSE pend
  /\ UNCHANGED <<ref, engine, events>>

UndoBroadcast ==
  /\ Has("undo")
  /\ store' = [store EXCEPT !.broadcast = FALSE]
  /\ pend' = pend \ {[k |-> "undo"]}
  /\ UNCHANGED <<ref, engine, events>>

UndoExpires ==
  /\ Has("undo")
  /\ pend' = pend \ {[k |-> "undo"]}
  /\ UNCHANGED <<store, ref, engine, events>>

------------------------------------------------------------------------------
(* Events of the engine                                                     *)

\* External: what the engine emits for the live share.
Emit(kind, x) == events' = Append(events, [k |-> kind, x |-> x])

\* Nobody can connect before the page has the ticket to pass on.
EngineBegins ==
  /\ engine.live # 0 /\ [k |-> "sent", share |-> engine.live, ok |-> TRUE] \notin pend
  /\ engine.transfers < MaxTransfers /\ Len(events) < MaxQueue
  /\ engine' = [engine EXCEPT !.transfers = @ + 1, !.running = @ \cup {engine.transfers + 1}]
  /\ Emit("started", engine.transfers + 1)
  /\ UNCHANGED <<store, ref, pend>>

EngineEnds(x, kind) ==
  /\ Len(events) < MaxQueue
  /\ engine' = [engine EXCEPT !.running = @ \ {x}]
  /\ Emit(kind, x)
  /\ UNCHANGED <<store, ref, pend>>

\* The listener of each event takes the oldest one.
Handle(kind) ==
  /\ events # <<>> /\ Head(events).k = kind
  /\ events' = Tail(events)

\* Mutant of HandleStarted: broadcast mode gets the transfer view as well.
HandleStarted_AnyMode ==
  /\ Handle("started")
  /\ store' = [store EXCEPT !.view = "TRANSPORTING", !.meta = NoMeta]
  /\ ref' = [stopped |-> FALSE, started |-> Head(events).x]
  /\ UNCHANGED <<pend, engine>>

\* transfer-started: whatever the view is.
HandleStarted ==
  /\ Handle("started")
  /\ store' = [store EXCEPT !.view = IF store.broadcast THEN @ ELSE "TRANSPORTING",
                             !.meta = NoMeta]
  /\ ref' = [stopped |-> FALSE, started |-> Head(events).x]
  /\ UNCHANGED <<pend, engine>>

\* The guards of transfer-completed and transfer-failed.
Stale ==
  \/ ref.stopped
  \/ store.view = "IDLE"
  \/ store.sel = 0
  \/ ~store.broadcast /\ store.view # "TRANSPORTING"

\* transfer-completed up to its 10 ms wait; the store is captured before it.
HandleCompleted ==
  /\ Handle("completed")
  /\ pend' = IF Stale THEN pend
             ELSE pend \cup {[k |-> "finish", of |-> Head(events).x,
                              broadcast |-> store.broadcast, single |-> store.sel <= 1]}
  /\ UNCHANGED <<store, ref, engine>>

\* Mutant of Finish: the summary is left to the answer of get_file_size.
Finish_NoSummary(c) ==
  /\ c.k = "finish"
  /\ store' = [store EXCEPT !.view = IF c.broadcast THEN @ ELSE "SUCCESS"]
  /\ pend' = (pend \ {c})
       \cup (IF c.broadcast THEN {[k |-> "relisten", of |-> c.of]} ELSE {})
       \cup (IF c.single THEN {[k |-> "size", of |-> c.of]} ELSE {})
  /\ UNCHANGED <<ref, engine, events>>

\* After the wait, nothing is looked at again.
Finish(c) ==
  /\ c.k = "finish"
  /\ store' = [store EXCEPT !.meta = [of |-> c.of, stopped |-> FALSE, exact |-> FALSE],
                             !.view = IF c.broadcast THEN @ ELSE "SUCCESS"]
  /\ pend' = (pend \ {c})
       \cup (IF c.broadcast THEN {[k |-> "relisten", of |-> c.of]} ELSE {})
       \cup (IF c.single THEN {[k |-> "size", of |-> c.of]} ELSE {})
  /\ UNCHANGED <<ref, engine, events>>

\* get_file_size answers, or fails and is only logged.
SizeAnswer(c, ok) ==
  /\ c.k = "size"
  /\ store' = IF ok THEN [store EXCEPT !.meta = [of |-> c.of, stopped |-> FALSE, exact |-> TRUE]]
              ELSE store
  /\ pend' = pend \ {c}
  /\ UNCHANGED <<ref, engine, events>>

\* In broadcast mode the card listens again 2 s after a completion.
Relisten(c) ==
  /\ c.k = "relisten"
  /\ store' = ResetForBroadcast(store)
  /\ ref' = [ref EXCEPT !.started = 0]
  /\ pend' = pend \ {c}
  /\ UNCHANGED <<engine, events>>

\* transfer-failed
HandleFailed ==
  /\ Handle("failed")
  /\ IF Stale THEN UNCHANGED <<store, ref>>
     ELSE /\ store' = IF store.broadcast THEN ResetForBroadcast(store)
                      ELSE [store EXCEPT !.view = "SUCCESS",
                             !.meta = [of |-> Head(events).x, stopped |-> TRUE, exact |-> FALSE]]
          /\ ref' = IF store.broadcast THEN [ref EXCEPT !.started = 0] ELSE ref
  /\ UNCHANGED <<pend, engine>>

------------------------------------------------------------------------------

User ==
  \/ SelectFiles
  \/ \E n \in 0..MaxItems : Deselect(n)
  \/ StartSharing
  \/ StopButton
  \/ Done
  \/ AlertStop
  \/ CloseAlert
  \/ \E on \in BOOLEAN : SetBroadcast(on)
  \/ UndoBroadcast

Page ==
  \/ \E c \in pend : SendAnswer(c) \/ Finish(c) \/ Relisten(c)
  \/ \E c \in pend, ok \in BOOLEAN : StopAnswer(c, ok) \/ SizeAnswer(c, ok)
  \/ UndoExpires
  \/ HandleStarted
  \/ HandleCompleted
  \/ HandleFailed

Engine ==
  \/ \E c \in pend, ok \in BOOLEAN : EngineShares(c, ok) \/ EngineStops(c, ok)
  \/ EngineBegins
  \/ \E x \in engine.running : \E k \in {"completed", "failed"} : EngineEnds(x, k)

Next == User \/ Page \/ Engine

Spec == Init /\ [][Next]_vars

\* send_items always answers (an error or a ticket) and the event loop runs
\* every continuation.
FairSpec ==
  /\ Spec
  /\ WF_vars(\E c \in pend, ok \in BOOLEAN : EngineShares(c, ok))
  /\ WF_vars(\E c \in pend : SendAnswer(c))

------------------------------------------------------------------------------
(* Properties                                                               *)

Metas == [of : 0..engine.transfers, stopped : BOOLEAN, exact : BOOLEAN]

Stores ==
  [view : Views, ticket : 0..engine.shares, sel : 0..MaxItems, meta : Metas,
   loading : BOOLEAN, broadcast : BOOLEAN, alert : BOOLEAN]

Refs == [stopped : BOOLEAN, started : 0..engine.transfers]

Continuations ==
  [k : {"send"}, share : 0..engine.shares]
    \cup [k : {"sent"}, share : 0..engine.shares, ok : BOOLEAN]
    \cup [k : {"stop", "stopped"}, n : 0..engine.stops, how : {"background", "active", "plain"}]
    \cup [k : {"finish"}, of : 1..engine.transfers, broadcast : BOOLEAN, single : BOOLEAN]
    \cup [k : {"size", "relisten"}, of : 1..engine.transfers]
    \cup [k : {"undo"}]

Engines ==
  [live : 0..MaxShares, running : SUBSET (1..MaxTransfers),
   shares : 0..MaxShares, transfers : 0..MaxTransfers, stops : 0..MaxStops]

Messages == [k : {"started", "completed", "failed"}, x : 1..engine.transfers]

\* Types; a ticket is of a share that was asked for, a summary is about a transfer
\* that was begun.
TypeOK ==
  /\ store \in Stores
  /\ ref \in Refs
  /\ pend \subseteq Continuations
  /\ engine \in Engines
  /\ engine.live <= engine.shares /\ engine.running \subseteq 1..engine.transfers
  /\ events \in Seq(Messages)

\* The file selection screen never hides a ticket: late answers of send_items and
\* stop_sharing, late events and timers never leave one behind it.
IdleHasNoTicket == store.view = "IDLE" => store.ticket = 0

\* A completion that noted ordinary mode before its 10 ms wait goes on in broadcast
\* mode: the 2 s timer of an earlier completion brought the card back, or another share
\* was begun, and broadcast was switched on, all within the wait.
LateFinish ==
  \E c \in pend : /\ c.k = "finish" /\ ~c.broadcast /\ store.broadcast
                  /\ Finish(c)

\* Sender.tsx has a screen for every state of the store, whatever the order of buttons,
\* answers, events and timers, and never goes blank, but by a completion that goes by
\* the mode it read before its wait.
BlankOnlyIfLate == [][~Blank(store) /\ Blank(store') => LateFinish]_vars

\* startSharing always gives the button back, also when a stop resets the store
\* while send_items is under way.
LoadingEnds == store.loading ~> ~store.loading
==============================================================================
