------------------------------ MODULE AndroidCopy ------------------------------
(***************************************************************************)
(* On Android a file to send is first copied to the cache of the app:      *)
(* hooks/useDragDrop.ts (pick a document or a folder, take what the Share  *)
(* sheet left, cancel), plugins/nativeUtils.ts (the channel of a copy),    *)
(* FileCopyProgressDialog.tsx, and the plug-in that copies: NativeUtils.kt *)
(* and CopyUtils.kt.                                                       *)
(*                                                                         *)
(* A call is answered and a copy is reported on two different ways: the    *)
(* messages of one copy keep their order, but they may come before or      *)
(* after any answer.                                                       *)
(***************************************************************************)
EXTENDS Naturals, Sequences

CONSTANTS
  MaxJobs,     \* bound: copies asked for in a behaviour
  MaxRetries,  \* length of retryDelaysMs
  MaxPicks,    \* bound: documents and folders the user asks for
  MaxShares    \* bound: shares that arrive while the page is open

VARIABLES
  job,        \* one record for each call of beginAndroidCacheCopy
  copying,    \* isCopying
  cancelRef,  \* the copy that Cancel stops, 0 for null
  cancels,    \* cancel_job calls under way: the copy, and the run that waits
  settled,    \* settled: this page has taken a share
  retries,    \* retry timers not yet fired
  refused,    \* an alert says that the share could not be taken
  emptied,    \* history: what opened the dialog last was the end of an empty copy
  stash,      \* pendingShareUri # null
  events,     \* shareReceived events under way
  shares,     \* bound: shares so far
  picks       \* bound: picks so far

page == <<copying, cancelRef, settled, retries, refused, emptied>>
native == <<stash, events, shares>>
vars == <<job, cancels, page, native, picks>>

Jobs == 1..MaxJobs
Free == [by |-> "none", call |-> "none", run |-> "none", chan |-> <<>>]

\* The page has just been mounted; a share may have started the app.
Init ==
  /\ job = [j \in Jobs |-> Free]
  /\ copying = FALSE
  /\ cancelRef = 0
  /\ cancels = {}
  /\ settled = FALSE
  /\ retries = MaxRetries
  /\ refused = FALSE
  /\ emptied = FALSE
  /\ stash \in BOOLEAN
  /\ events = IF stash THEN 1 ELSE 0
  /\ shares = 0
  /\ picks = 0

------------------------------------------------------------------------------
(* Starting and cancelling                                                  *)

\* Bookkeeping of the model: a copy nobody can hear of or cancel is forgotten.
Tidy(f, ref, cs) ==
  [j \in Jobs |->
     IF /\ f[j].call = "back" /\ f[j].run \in {"none", "off"} /\ f[j].chan = <<>>
        /\ ref # j /\ \A c \in cs : c.job # j /\ c.for # j
     THEN Free ELSE f[j]]

Unused == {j \in Jobs : job[j].by = "none"}
Slot == CHOOSE j \in Unused : TRUE
Begin(by, call) ==
  Unused # {} /\ job' = [job EXCEPT ![Slot] = [Free EXCEPT !.by = by, !.call = call]]

\* browseFile and browseFolder.
Browse ==
  /\ picks < MaxPicks
  /\ picks' = picks + 1
  /\ Begin("pick", "asked")
  /\ UNCHANGED <<cancels, page, native>>

\* run and the head of consumeAndroidShare: a copy under way is cancelled before
\* the page knows whether there is a share.  requestTab('send') is left out.
Run ==
  IF settled THEN UNCHANGED <<job, cancels>>
  ELSE /\ Begin("share", IF cancelRef = 0 THEN "asked" ELSE "cancel")
       /\ cancels' = IF cancelRef = 0 THEN cancels
                     ELSE cancels \cup {[job |-> cancelRef, for |-> Slot, at |-> "asked"]}

\* Mutant of ShareEvent: the event is left to the retries.
ShareEvent_Ignored ==
  /\ events > 0
  /\ events' = events - 1
  /\ UNCHANGED <<job, cancels, page, stash, shares, picks>>

ShareEvent ==
  /\ events > 0
  /\ events' = events - 1
  /\ Run
  /\ UNCHANGED <<page, stash, shares, picks>>

Retry ==
  /\ retries > 0
  /\ retries' = retries - 1
  /\ Run
  /\ UNCHANGED <<copying, cancelRef, settled, refused, emptied, native, picks>>

\* The dialog is closed: cancelCopy's finally, onComplete and onError.
CloseDialog == copying' = FALSE /\ cancelRef' = 0 /\ emptied' = FALSE

\* The Cancel button.  Without a cancelRef only the dialog is closed.
CancelCopy ==
  /\ copying
  /\ IF cancelRef = 0 THEN CloseDialog /\ UNCHANGED cancels
     ELSE /\ \A c \in cancels : c.for # 0   \* bound: one press under way
          /\ cancels' = cancels \cup {[job |-> cancelRef, for |-> 0, at |-> "asked"]}
          /\ UNCHANGED <<copying, cancelRef, emptied>>
  /\ UNCHANGED <<job, settled, retries, refused, native, picks>>

\* The answer to cancel_job, which comes when the copy has ended (cancelAndJoin).
\* The run that waited goes on, or gives up with an alert when the call was rejected.
CancelAnswer(c) ==
  /\ c \in cancels
  /\ c.at = "rejected" \/ (c.at = "joining" /\ job[c.job].run = "off")
  /\ cancels' = cancels \ {c}
  /\ CloseDialog
  /\ job' = Tidy(IF c.for = 0 THEN job
                 ELSE [job EXCEPT ![c.for].call = IF c.at = "rejected" THEN "back" ELSE "asked"],
                 0, cancels \ {c})
  /\ refused' = (refused \/ (c.for # 0 /\ c.at = "rejected"))
  /\ UNCHANGED <<settled, retries, native, picks>>

\* The answer to select_send_document, select_send_folder, consume_share_intent.
Answer(j) ==
  /\ job[j].call \in {"yes", "no"}
  /\ cancelRef' = IF job[j].call = "yes" THEN j ELSE cancelRef
  /\ job' = Tidy([job EXCEPT ![j].call = "back"], cancelRef', cancels)
  /\ settled' = (settled \/ (job[j].by = "share" /\ job[j].call = "yes"))
  /\ UNCHANGED <<cancels, copying, retries, refused, emptied, native, picks>>

------------------------------------------------------------------------------
(* The messages of a copy (bindCopyChannel)                                 *)

\* onStart.  The last message of an empty copy has a path and no progress, as the
\* first one has: it is taken for a start.
Start(m) ==
  /\ copying' = TRUE
  /\ emptied' = (m = "empty")
  /\ UNCHANGED cancelRef

\* Mutant of Message: an error is shown, and the dialog stays.
Message_ErrorOnly(j) ==
  /\ job[j].chan # <<>>
  /\ LET m == Head(job[j].chan) IN
       CASE m \in {"start", "empty"} -> Start(m)
         [] m = "complete" -> CloseDialog
         [] m = "error" -> UNCHANGED <<copying, cancelRef, emptied>>
  /\ job' = Tidy([job EXCEPT ![j].chan = Tail(@)], cancelRef', cancels)
  /\ UNCHANGED <<cancels, settled, retries, refused, native, picks>>

\* Progress only moves the bar and is left out, and so is the alert of onError;
\* what onComplete selects is FileSelection's HandleFilesSelect.
Message(j) ==
  /\ job[j].chan # <<>>
  /\ LET m == Head(job[j].chan) IN
       CASE m \in {"start", "empty"} -> Start(m)
         [] m \in {"complete", "error"} -> CloseDialog
  /\ job' = Tidy([job EXCEPT ![j].chan = Tail(@)], cancelRef', cancels)
  /\ UNCHANGED <<cancels, settled, retries, refused, native, picks>>

------------------------------------------------------------------------------
(* The plug-in                                                              *)

\* A document is picked or not; a share is there or not.  The copy is launched
\* before the call is answered (startUriCopy).
NativeAnswers(j, yes) ==
  /\ job[j].call = "asked"
  /\ job[j].by = "share" => yes = stash
  /\ stash' = (stash /\ job[j].by # "share")
  /\ job' = [job EXCEPT ![j].call = IF yes THEN "yes" ELSE "no",
                        ![j].run = IF yes THEN "new" ELSE "none"]
  /\ UNCHANGED <<cancels, page, events, shares, picks>>

\* cancel_job has taken the copy out of jobs and waits for its end.
Cancelled(j) == \E c \in cancels : c.job = j /\ c.at = "joining"

\* copyUri and copyUriTreeWithProgress emit the first message.
NativeStarts(j) ==
  /\ job[j].run = "new"
  /\ job' = [job EXCEPT ![j].run = "on", ![j].chan = Append(@, "start")]
  /\ UNCHANGED <<cancels, page, native, picks>>

\* They fail, or find out that they are cancelled, before the first message or after.
NativeFails(j) ==
  /\ job[j].run \in {"new", "on"}
  /\ job' = [job EXCEPT ![j].run = "done", ![j].chan = Append(@, "error")]
  /\ UNCHANGED <<cancels, page, native, picks>>

\* They emit the last message, also when cancelled after they looked last; without
\* a byte to copy it is the first one again.
NativeEnds(j, empty) ==
  /\ job[j].run = "on"
  /\ job' = [job EXCEPT ![j].run = "done", ![j].chan = Append(@, IF empty THEN "empty" ELSE "complete")]
  /\ UNCHANGED <<cancels, page, native, picks>>

\* The finally of the coroutine takes the copy out of jobs.  One that is cancelled
\* before it was dispatched does nothing at all.
NativeLeaves(j) ==
  /\ job[j].run = "done" \/ (job[j].run = "new" /\ Cancelled(j))
  /\ job' = Tidy([job EXCEPT ![j].run = "off"], cancelRef, cancels)
  /\ UNCHANGED <<cancels, page, native, picks>>

\* cancel_job: a copy that is not in jobs any more, or was cancelled before, is not
\* found and the call is rejected.
NativeCancels(c) ==
  /\ c \in cancels /\ c.at = "asked"
  /\ LET found == job[c.job].run \in {"new", "on", "done"} /\ ~Cancelled(c.job) IN
       cancels' = (cancels \ {c}) \cup {[c EXCEPT !.at = IF found THEN "joining" ELSE "rejected"]}
  /\ UNCHANGED <<job, page, native, picks>>

\* A share arrives (onNewIntent).  The event that onResume repeats while the share is
\* not taken makes the page do what a retry does, and is left out.
ShareArrives ==
  /\ shares < MaxShares
  /\ shares' = shares + 1
  /\ stash' = TRUE
  /\ events' = events + 1
  /\ refused' = FALSE
  /\ UNCHANGED <<job, cancels, copying, cancelRef, settled, retries, emptied, picks>>

Page ==
  \/ ShareEvent \/ Retry
  \/ \E j \in Jobs : Answer(j)
  \/ \E j \in Jobs : Message(j)
  \/ \E c \in cancels : CancelAnswer(c)

User == Browse \/ CancelCopy

Native ==
  \/ \E j \in Jobs : NativeStarts(j) \/ NativeFails(j) \/ NativeLeaves(j)
  \/ \E j \in Jobs, yes \in BOOLEAN : NativeAnswers(j, yes)
  \/ \E j \in Jobs, empty \in BOOLEAN : NativeEnds(j, empty)
  \/ \E c \in cancels : NativeCancels(c)

Next == Page \/ User \/ Native \/ ShareArrives

Spec == Init /\ [][Next]_vars

\* Timers fire, events and messages are delivered, the plug-in answers and a
\* copy ends.  The user, and the next share, are not waited for.
FairSpec == Spec /\ WF_vars(Page) /\ WF_vars(Native)

------------------------------------------------------------------------------
(* Properties                                                               *)

\* An open copy dialog has work behind it: some copy still runs or its last message
\* is on its way; or it was opened by the last message of an empty copy, and then
\* only the Cancel button or another copy closes it (beginAndroidCacheCopy,
\* bindCopyChannel, against a cancel that overtakes the messages).
DialogHasCopy ==
  copying => \/ emptied
             \/ \E j \in Jobs :
                  \/ job[j].run = "on"
                  \/ job[j].chan # <<>> /\ job[j].chan[Len(job[j].chan)] # "start"

\* The dialog does not stay for ever, unless an empty copy opened it.
DialogCloses == copying ~> (~copying \/ emptied)

\* A share that the page may still take is taken or an error is shown; it is
\* never left in silence (run, the retries and the shareReceived listener).
ShareIsTaken == (stash /\ ~settled) ~> (~stash \/ settled \/ refused)

===============================================================================
