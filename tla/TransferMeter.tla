----------------------------- MODULE TransferMeter -----------------------------
(***************************************************************************)
(* The progress of a transfer as the pages show it: the progress events in *)
(* hooks/useSender.ts and hooks/useReceiver.ts, the moving average of      *)
(* utils/etaUtils.ts, and the bars of TransferProgressBar.tsx behind the   *)
(* clamp of ShareLinkPanel.tsx.                                            *)
(*                                                                         *)
(* The sender keeps the last progress in a ref and copies it to the page   *)
(* every 50 ms; the receiver sets it at once.  The events do not say of    *)
(* which transfer they are, so a progress is tagged with the number of     *)
(* announcements heard before it.  A fraction is kept as its numerator and *)
(* its denominator.                                                        *)
(*                                                                         *)
(* ShareView and ReceiveView have the rest of the two pages.  External:    *)
(* the engine, which announces transfers, reports on any of them, also on  *)
(* one that was cancelled, and tells of at most one end each.              *)
(***************************************************************************)
EXTENDS Naturals, Sequences, SequencesExt

CONSTANTS
  Totals,      \* sizes of what is transferred
  Speeds,      \* speeds the engine reports
  MaxSamples,  \* of a SpeedAverager
  Bars,        \* BAR_COUNT, or SEGMENT_COUNT of the ring
  MaxTransfers, MaxEvents   \* bounds: announcements, reports after each

VARIABLES
  sender,   \* this is the sending page
  page,     \* viewState, isBroadcastMode, wasManuallyStoppedRef, a selected path;
            \* of the receiver: "RECEIVING" is transferSeqRef # 0
  due,      \* what is to follow: the rest of a completion, its reset after 2 s,
            \* the answer of stop_sharing
  speeds,   \* samples of the averager
  latest,   \* latestProgressRef
  shown,    \* transferProgress
  timer,    \* the interval, by the view it copies the ref in
  started,  \* announcements heard
  ended,    \* external: ends the engine told of
  log       \* history: speeds accepted since the averager was reset

vars == <<sender, page, due, speeds, latest, shown, timer, started, ended, log>>
meter == <<speeds, latest, shown, timer, log>>

NoProgress == [since |-> 0, bytes |-> 0, total |-> 0, eta |-> <<>>]
Idle == [view |-> "IDLE", broadcast |-> FALSE, stopped |-> FALSE, path |-> FALSE]

Init ==
  /\ sender \in BOOLEAN
  /\ page = Idle
  /\ due = {}
  /\ speeds = <<>>
  /\ latest = NoProgress
  /\ shown = NoProgress
  /\ timer = "none"
  /\ started = 0 /\ ended = 0
  /\ log = <<>>

------------------------------------------------------------------------------
Sum(s) == FoldLeft(LAMBDA a, b : a + b, 0, s)

\* Mutant of AddSample: nothing is shifted out.
AddSample_KeepsAll(s, v) == Append(s, v)

AddSample(s, v) ==
  LET t == Append(s, v) IN IF Len(t) > MaxSamples THEN Tail(t) ELSE t

\* Mutant of CalculateETA: a speed of zero is not looked for.
CalculateETA_AnySpeed(remaining, s) ==
  IF s = <<>> \/ remaining = 0 THEN <<>> ELSE <<remaining * Len(s), Sum(s)>>

\* calculateETA over getAverage: remaining bytes by the mean speed, or nothing.
CalculateETA(remaining, s) ==
  IF s = <<>> \/ Sum(s) = 0 \/ remaining = 0 THEN <<>>
  ELSE <<remaining * Len(s), Sum(s)>>

Lesser(a, b) == IF a < b THEN a ELSE b

\* latestProgressRef, setTransferProgress and the averager, all emptied.
Cleared == latest' = NoProgress /\ shown' = NoProgress /\ speeds' = <<>> /\ log' = <<>>

------------------------------------------------------------------------------
(* The events of the engine                                                 *)

\* What the handler of an announcement does to the page.
Announced ==
  /\ started < MaxTransfers
  /\ sender \/ page.view = "RECEIVING"
  /\ started' = started + 1
  /\ IF sender
     THEN /\ page' = [page EXCEPT !.view = IF page.broadcast THEN @ ELSE "TRANSPORTING",
                                  !.stopped = FALSE]
          /\ timer' = IF page.broadcast THEN "SHARING" ELSE "TRANSPORTING"
     ELSE UNCHANGED <<page, timer>>
  /\ UNCHANGED <<sender, due, ended>>

\* Mutant of Started: the ref keeps the last progress of the transfer before.
Started_KeepsLatest ==
  /\ Announced
  /\ shown' = NoProgress /\ speeds' = <<>> /\ log' = <<>>
  /\ UNCHANGED latest

\* transfer-started, in whatever view and mode, and receive-started, which a page
\* that is not armed ignores: also while an earlier transfer runs.
Started == Announced /\ Cleared

Accepts ==
  IF sender THEN page.view = "TRANSPORTING" \/ (page.broadcast /\ page.view = "SHARING")
  ELSE page.view = "RECEIVING"

\* Mutant of Progress: the page is not looked at.
Progress_Always(bytes, total, speed) ==
  /\ Len(log) < MaxEvents
  /\ log' = Append(log, speed)
  /\ speeds' = AddSample(speeds, speed)
  /\ LET p == [since |-> started, bytes |-> bytes, total |-> total,
               eta |-> CalculateETA(total - Lesser(bytes, total), speeds')]
     IN  IF sender THEN latest' = p /\ UNCHANGED shown ELSE shown' = p /\ UNCHANGED latest
  /\ UNCHANGED <<sender, page, due, timer, started, ended>>

\* transfer-progress, receive-progress, of any transfer.  The engine may report
\* more bytes than the total: what is resumed is counted again.
Progress(bytes, total, speed) ==
  /\ Accepts /\ Len(log) < MaxEvents
  /\ log' = Append(log, speed)
  /\ speeds' = AddSample(speeds, speed)
  /\ LET p == [since |-> started, bytes |-> bytes, total |-> total,
               eta |-> CalculateETA(total - Lesser(bytes, total), speeds')]
     IN  IF sender THEN latest' = p /\ UNCHANGED shown ELSE shown' = p /\ UNCHANGED latest
  /\ UNCHANGED <<sender, page, due, timer, started, ended>>

\* The guards of transfer-completed and transfer-failed.
EndCounts ==
  /\ sender /\ ~page.stopped /\ page.view # "IDLE" /\ page.path
  /\ page.broadcast \/ page.view = "TRANSPORTING"

Copied == IF latest = NoProgress THEN shown ELSE latest

\* transfer-completed: the page shows the last progress there was, for 10 ms.
Completed ==
  /\ EndCounts /\ ended < started
  /\ ended' = ended + 1
  /\ timer' = "none"
  /\ shown' = Copied
  /\ due' = due \cup {[k |-> "finish", of |-> ended', how |-> page.broadcast]}
  /\ UNCHANGED <<sender, page, speeds, latest, started, log>>

\* The rest of it, by the mode of before: the end screen, or a reset to come.
Finish(c) ==
  /\ c \in due /\ c.k = "finish"
  /\ due' = (due \ {c}) \cup (IF c.how THEN {[c EXCEPT !.k = "relisten"]} ELSE {})
  /\ IF c.how THEN UNCHANGED <<page, shown>>
     ELSE page' = [page EXCEPT !.view = "SUCCESS"] /\ shown' = NoProgress
  /\ UNCHANGED <<sender, speeds, latest, timer, started, ended, log>>

\* The reset of broadcast mode, 2 s later, whatever runs by then.
Relisten(c) ==
  /\ c \in due /\ c.k = "relisten"
  /\ due' = due \ {c}
  /\ page' = [page EXCEPT !.view = "SHARING"]
  /\ latest' = NoProgress /\ shown' = NoProgress
  /\ UNCHANGED <<sender, speeds, timer, started, ended, log>>

\* transfer-failed.
Failed ==
  /\ EndCounts /\ ended < started
  /\ ended' = ended + 1
  /\ timer' = "none"
  /\ shown' = NoProgress
  /\ IF page.broadcast
     THEN page' = [page EXCEPT !.view = "SHARING"] /\ latest' = NoProgress
     ELSE page' = [page EXCEPT !.view = "SUCCESS"] /\ UNCHANGED latest
  /\ UNCHANGED <<sender, due, speeds, started, log>>

\* receive-completed.  The page stays armed.
ReceiveCompleted ==
  /\ ~sender /\ page.view = "RECEIVING"
  /\ shown' = NoProgress
  /\ UNCHANGED <<sender, page, due, speeds, latest, timer, started, ended, log>>

------------------------------------------------------------------------------
(* The page                                                                 *)

\* The 50 ms interval of the sender.
Tick ==
  /\ timer # "none" /\ page.view = timer
  /\ shown' = Copied
  /\ UNCHANGED <<sender, page, due, speeds, latest, timer, started, ended, log>>

\* startSharing, with its answer.
StartSharing ==
  /\ sender /\ page.view = "IDLE"
  /\ page' = [Idle EXCEPT !.view = "SHARING", !.path = TRUE]
  /\ Cleared
  /\ UNCHANGED <<sender, due, timer, started, ended>>

SetBroadcast ==
  /\ sender /\ page.view \in {"SHARING", "TRANSPORTING"}
  /\ page' = [page EXCEPT !.broadcast = ~@]
  /\ UNCHANGED <<sender, due, meter, started, ended>>

\* stopSharing: a transfer is shown as stopped before the engine is told.  While
\* none is shown the interval goes on.
StopSharing ==
  /\ sender /\ page.view \in {"SHARING", "TRANSPORTING"}
  /\ LET active == page.view = "TRANSPORTING" /\ page.path
         c == [k |-> "stop", of |-> 0, how |-> active]
     IN  /\ c \notin due    \* bound: one call of a kind under way
         /\ due' = due \cup {c}
         /\ IF active
            THEN /\ page' = [page EXCEPT !.view = "SUCCESS", !.broadcast = FALSE, !.stopped = TRUE]
                 /\ timer' = "none"
                 /\ latest' = NoProgress /\ speeds' = <<>> /\ log' = <<>>
                 /\ UNCHANGED shown
            ELSE page' = [page EXCEPT !.broadcast = FALSE] /\ UNCHANGED meter
  /\ UNCHANGED <<sender, started, ended>>

\* stop_sharing was answered; after an error nothing more is done.
StopAnswer(c, ok) ==
  /\ c \in due /\ c.k = "stop"
  /\ due' = due \ {c}
  /\ IF ok THEN /\ page' = IF c.how THEN [page EXCEPT !.path = FALSE] ELSE Idle
                /\ Cleared /\ UNCHANGED timer
     ELSE UNCHANGED <<page, meter>>
  /\ UNCHANGED <<sender, started, ended>>

\* The end screen is left: resetForNewTransfer of the sender.
Done ==
  /\ sender /\ page.view = "SUCCESS"
  /\ page' = Idle
  /\ Cleared
  /\ UNCHANGED <<sender, due, timer, started, ended>>

\* receiveWithTicket arms the page, before anything is announced.
ReceiveWithTicket ==
  /\ ~sender
  /\ page' = [page EXCEPT !.view = "RECEIVING"]
  /\ shown' = NoProgress
  /\ UNCHANGED <<sender, due, speeds, latest, timer, started, ended, log>>

\* resetForNewTransfer of the receiver, the only place where transferSeqRef is
\* cleared: after a completion or an error progress is accepted as before.
ResetForNewTransfer ==
  /\ ~sender /\ page.view = "RECEIVING"
  /\ page' = Idle
  /\ shown' = NoProgress
  /\ UNCHANGED <<sender, due, speeds, latest, timer, started, ended, log>>

Next ==
  \/ Started \/ Completed \/ Failed \/ ReceiveCompleted
  \/ \E t \in Totals, v \in Speeds : \E b \in 0..(t + 1) : Progress(b, t, v)
  \/ \E c \in due : Finish(c) \/ Relisten(c) \/ \E ok \in BOOLEAN : StopAnswer(c, ok)
  \/ Tick
  \/ StartSharing \/ SetBroadcast \/ StopSharing \/ Done
  \/ ReceiveWithTicket \/ ResetForNewTransfer

Spec == Init /\ [][Next]_vars

------------------------------------------------------------------------------
(* What is drawn                                                            *)

\* The share of the whole, clamped to it; 0 of 1 without a total.
Clamped(p) == IF p.total = 0 THEN <<0, 1>> ELSE <<Lesser(p.bytes, p.total), p.total>>

\* Mutant of FilledBars: rounded up.
FilledBars_Up(f) == (f[1] * Bars + f[2] - 1) \div f[2]

FilledBars(f) == (f[1] * Bars) \div f[2]

\* How far bar i (from 0) is filled, in parts of f[2].
Fill(f, i) ==
  IF i < FilledBars(f) THEN f[2]
  ELSE IF i = FilledBars(f) THEN (f[1] * Bars) % f[2]
  ELSE 0

------------------------------------------------------------------------------
(* Properties                                                               *)

\* Every state is one of its type, and what is shown never has an ETA of zero
\* or by zero (calculateETA).
TypeOK ==
  /\ sender \in BOOLEAN
  /\ started \in 0..MaxTransfers
  /\ speeds \in Seq(Speeds) /\ log \in Seq(Speeds)
  /\ \A p \in {latest, shown} : p.eta # <<>> => p.eta[1] > 0 /\ p.eta[2] > 0

\* What the page shows was reported since a transfer was last announced, never
\* before: neither the interval, which outlives its transfer and its share, nor a
\* completion copies what an earlier one left in the ref.
ProgressIsFresh == shown.since \in {0, started}

\* A page that is idle, or not armed, shows no progress, whatever events and answers
\* come late and however long the interval goes on.
IdleShowsNothing == page.view = "IDLE" => shown = NoProgress

\* The average the ETA rests on is that of the last speeds accepted since it was
\* reset, at most MaxSamples of them (SpeedAverager).
AverageIsRecent ==
  speeds = SubSeq(log, Len(log) + 1 - Lesser(Len(log), MaxSamples), Len(log))

\* The bars together show the share that is transferred: none is more than
\* full, and they add up to it (TransferProgressBar, CircularRing).
BarsAddUp ==
  LET f == Clamped(shown)
      fills == [i \in 1..Bars |-> Fill(f, i - 1)]
  IN  /\ \A i \in 1..Bars : fills[i] \in 0..f[2]
      /\ Sum(fills) = f[1] * Bars
===============================================================================
