--------------------------- MODULE ProvideProgress ---------------------------
(***************************************************************************)
(* The sender's view of the transfers of one share:                        *)
(* show_provide_progress_with_logging (engine/protocol/src/send.rs), which *)
(* turns the provider's messages about each get request into the events    *)
(* transfer-started, transfer-progress, transfer-completed and             *)
(* transfer-failed.                                                        *)
(*                                                                         *)
(* All request tasks are polled by one task, so they interleave only where *)
(* one waits: for its next update, or for the 500 ms before it announces   *)
(* the end of the transfer.  Size-probe requests are drained and change    *)
(* nothing; they are left out.  The provider (iroh-blobs) may send the     *)
(* updates of a request in any legal order and may end the channel at any  *)
(* point.                                                                  *)
(***************************************************************************)
EXTENDS Integers, Sequences, FiniteSets, FiniteSetsExt

CONSTANTS
  Requests,    \* payload requests, in any order of arrival
  Sizes,       \* sizes of the blobs of the collection; Sizes[1] has index 0
  Payload,     \* positions in Sizes of the files themselves
  Total,       \* total_collection_size
  MetaFirst    \* entry_type is "directory" or "collection"

ASSUME RequestsAssumption == IsFiniteSet(Requests)
ASSUME SizesAssumption == Sizes \in Seq(Nat) /\ Total \in Nat /\ MetaFirst \in BOOLEAN

VARIABLES
  pc,          \* where the task of each request is, or how it ended
  started,     \* transfer_started
  transfers,   \* keys of transfer_states
  accounted,   \* accounted_payload_bytes
  blobSize,    \* current_blob_size
  endOffset,   \* current_blob_end_offset
  ignoring,    \* ignore_current_blob
  active,      \* active_requests
  completed,   \* completed_requests
  before,      \* active_before_wait of a request that waits
  fresh,       \* did a request arrive while it waits
  emitted,     \* has_emitted_completed
  announced,   \* the last of transfer-completed and transfer-failed
  closed,      \* the channel of provider messages is closed
  reported,    \* history: bytes in the last progress event of the request
  sent         \* history: positions of the blobs the request was sent

stateVars == <<transfers, accounted, blobSize, endOffset, ignoring>>
waitVars  == <<before, fresh>>
events    == <<emitted, announced>>
vars == <<pc, started, stateVars, active, completed, waitVars, events, closed,
          reported, sent>>

\* Under way: "open", "settling".  Ended: "completed" and "aborted" are counted
\* in completed_requests, "short" was taken out of active_requests, "silent"
\* never started and is in neither.
Pcs == {"new", "open", "settling", "completed", "aborted", "short", "silent"}
UnderWay == {"open", "settling"}
Counted == {"settling", "completed", "aborted"}

Init ==
  /\ pc = [r \in Requests |-> "new"]
  /\ started = [r \in Requests |-> FALSE]
  /\ transfers = {}
  /\ accounted = [r \in Requests |-> 0]
  /\ blobSize = [r \in Requests |-> 0]
  /\ endOffset = [r \in Requests |-> 0]
  /\ ignoring = [r \in Requests |-> FALSE]
  /\ active = 0
  /\ completed = 0
  /\ before = [r \in Requests |-> 0]
  /\ fresh = [r \in Requests |-> FALSE]
  /\ emitted = FALSE
  /\ announced = "none"
  /\ closed = FALSE
  /\ reported = [r \in Requests |-> 0]
  /\ sent = [r \in Requests |-> {}]

------------------------------------------------------------------------------
Capped(n) == IF n < Total THEN n ELSE Total

\* Mutant of transfer_payload_complete: the threshold is left out.
transfer_payload_complete_Any(bytes) == bytes >= 0

transfer_payload_complete(bytes) == Total = 0 \/ bytes * 100 >= Total * 95

\* The current blob counts as sent unless it is the metadata blob.
Accounted(r) ==
  IF ignoring[r] THEN accounted[r] ELSE Capped(accounted[r] + blobSize[r])

\* GetRequestReceivedNotify of a request that is not a size probe.
Receive(r) ==
  /\ pc[r] = "new"
  /\ ~closed
  /\ pc' = [pc EXCEPT ![r] = "open"]
  /\ active' = active + 1
  /\ fresh' = [q \in Requests |-> fresh[q] \/ pc[q] = "settling"]
  /\ UNCHANGED <<started, stateVars, completed, before, events, closed,
                 reported, sent>>

\* Mutant of NextAccounted: the blob that ends is not accounted.
NextAccounted_Forgets(r, metadata) ==
  IF ignoring[r] /\ ~metadata THEN 0 ELSE accounted[r]

\* A blob that begins ends the one before it; leaving the metadata blob resets.
NextAccounted(r, metadata) ==
  IF ignoring[r] /\ ~metadata THEN 0 ELSE Accounted(r)

\* RequestUpdate::Started for the blob at position i, after those sent so far.
Started(r, i) ==
  /\ pc[r] = "open"
  /\ \A j \in sent[r] : j < i
  /\ LET metadata == MetaFirst /\ i = 1
     IN /\ accounted' = [accounted EXCEPT ![r] = NextAccounted(r, metadata)]
        /\ ignoring' = [ignoring EXCEPT ![r] = metadata]
  /\ blobSize' = [blobSize EXCEPT ![r] = Sizes[i]]
  /\ endOffset' = [endOffset EXCEPT ![r] = 0]
  /\ started' = [started EXCEPT ![r] = TRUE]
  /\ transfers' = transfers \cup {r}
  /\ sent' = [sent EXCEPT ![r] = @ \cup {i}]
  /\ UNCHANGED <<pc, active, completed, waitVars, events, closed, reported>>

\* RequestUpdate::Progress; one that comes before any Started opens the entry
\* and counts for nothing.
Progress(r, offset) ==
  /\ pc[r] = "open"
  /\ LET ignore == ignoring[r] \/ ~started[r]
         capped == IF offset < blobSize[r] THEN offset ELSE blobSize[r]
         end    == IF capped > endOffset[r] THEN capped ELSE endOffset[r]
     IN /\ ignoring' = [ignoring EXCEPT ![r] = ignore]
        /\ endOffset' = [endOffset EXCEPT ![r] = IF ignore THEN @ ELSE end]
        /\ reported' = [reported EXCEPT ![r] =
             IF ignore THEN accounted[r] ELSE Capped(accounted[r] + end)]
  /\ started' = [started EXCEPT ![r] = TRUE]
  /\ transfers' = transfers \cup {r}
  /\ UNCHANGED <<pc, accounted, blobSize, active, completed, waitVars, events,
                 closed, sent>>

\* Mutant of GiveUp: request_completed is not set and the task goes on.
GiveUp_Again(r) ==
  /\ active' = active - 1
  /\ UNCHANGED <<pc, completed, waitVars>>

\* A request that ended short of the payload leaves active_requests.
GiveUp(r) ==
  /\ pc' = [pc EXCEPT ![r] = "short"]
  /\ active' = active - 1
  /\ UNCHANGED <<completed, waitVars>>

\* One that delivered it is counted, and waits if it seems to be the last.
Count(r) ==
  /\ completed' = completed + 1
  /\ pc' = [pc EXCEPT ![r] =
              IF completed + 1 >= active THEN "settling" ELSE "completed"]
  /\ before' = [before EXCEPT ![r] = active]
  /\ fresh' = [fresh EXCEPT ![r] = FALSE]
  /\ UNCHANGED active

\* RequestUpdate::Completed; without a Started it is ignored.
Completed(r) ==
  /\ pc[r] = "open"
  /\ started[r]
  /\ accounted' = [accounted EXCEPT ![r] = Accounted(r)]
  /\ transfers' = transfers \ {r}
  /\ IF transfer_payload_complete(Accounted(r)) THEN Count(r) ELSE GiveUp(r)
  /\ UNCHANGED <<started, blobSize, endOffset, ignoring, events, closed,
                 reported, sent>>

\* Mutant of Quiet: the counters are not looked at again.
Quiet_Stale(r) == transfers = {}

\* Mutant of EmitCompleted: has_emitted_completed is set and not looked at.
EmitCompleted_Again == emitted' = TRUE /\ announced' = "completed"

\* transfer-completed is sent once.
EmitCompleted ==
  /\ emitted' = TRUE
  /\ announced' = IF emitted THEN announced ELSE "completed"

\* What the task checks after the wait, but for the age of the last request.
Quiet(r) ==
  /\ completed >= active
  /\ completed >= 1
  /\ active <= before[r]
  /\ transfers = {}

\* The 500 ms are over.  A request that came meanwhile is younger than that,
\* unless the timer was late.
Settle(r) ==
  /\ pc[r] = "settling"
  /\ pc' = [pc EXCEPT ![r] = "completed"]
  /\ \E recent \in (IF fresh[r] THEN BOOLEAN ELSE {FALSE}) :
       IF Quiet(r) /\ ~recent THEN EmitCompleted ELSE UNCHANGED events
  /\ UNCHANGED <<started, stateVars, active, completed, waitVars, closed, reported,
                 sent>>

\* RequestUpdate::Aborted; without a Started it is ignored.
Aborted(r) ==
  /\ pc[r] = "open"
  /\ started[r]
  /\ pc' = [pc EXCEPT ![r] = "aborted"]
  /\ transfers' = transfers \ {r}
  /\ completed' = completed + 1
  /\ announced' = IF completed + 1 >= active THEN "failed" ELSE announced
  /\ UNCHANGED <<started, accounted, blobSize, endOffset, ignoring, active,
                 waitVars, emitted, closed, reported, sent>>

\* The channel of the request ends with neither.  The entry of a request that
\* has started stays in transfer_states.
StreamEnd(r) ==
  /\ pc[r] = "open"
  /\ IF ~started[r]
     THEN /\ pc' = [pc EXCEPT ![r] = "silent"]
          /\ UNCHANGED <<active, completed, waitVars>>
     ELSE IF transfer_payload_complete(accounted[r]) THEN Count(r) ELSE GiveUp(r)
  /\ UNCHANGED <<started, stateVars, events, closed, reported, sent>>

\* The share is stopped: no more messages ...
Close ==
  /\ ~closed
  /\ closed' = TRUE
  /\ UNCHANGED <<pc, started, stateVars, active, completed, waitVars, events,
                 reported, sent>>

\* ... and once every task is done the counters decide.
Finish ==
  /\ closed
  /\ \A r \in Requests : pc[r] \notin UnderWay
  /\ completed >= active
  /\ completed >= 1
  /\ ~emitted
  /\ EmitCompleted
  /\ UNCHANGED <<pc, started, stateVars, active, completed, waitVars, closed,
                 reported, sent>>

------------------------------------------------------------------------------
Offsets == 0..Max({Sizes[i] : i \in DOMAIN Sizes})

Provider(r) ==
  \/ Receive(r)
  \/ \E i \in DOMAIN Sizes : Started(r, i)
  \/ \E offset \in Offsets : Progress(r, offset)
  \/ Completed(r)
  \/ Aborted(r)
  \/ StreamEnd(r)

Next ==
  \/ \E r \in Requests : Provider(r) \/ Settle(r)
  \/ Close
  \/ Finish

Spec == Init /\ [][Next]_vars

\* The timer of a waiting task fires, and a closed channel ends the loop.
FairSpec == Spec /\ WF_vars(Finish) /\ \A r \in Requests : WF_vars(Settle(r))

------------------------------------------------------------------------------
(* Properties                                                               *)

\* The variables have their types; in particular active_requests, which is
\* unsigned, is never taken below zero.
TypeOK ==
  /\ pc \in [Requests -> Pcs]
  /\ started \in [Requests -> BOOLEAN]
  /\ transfers \subseteq Requests
  /\ accounted \in [Requests -> Nat]
  /\ blobSize \in [Requests -> Nat]
  /\ endOffset \in [Requests -> Nat]
  /\ ignoring \in [Requests -> BOOLEAN]
  /\ active \in Nat
  /\ completed \in Nat
  /\ before \in [Requests -> Int]
  /\ fresh \in [Requests -> BOOLEAN]
  /\ emitted \in BOOLEAN
  /\ announced \in {"none", "completed", "failed"}
  /\ closed \in BOOLEAN
  /\ reported \in [Requests -> Nat]
  /\ sent \in [Requests -> SUBSET DOMAIN Sizes]

InActive == {r \in Requests : pc[r] \notin {"new", "short"}}
InCompleted == {r \in Requests : pc[r] \in Counted}

\* active_requests counts the requests that arrived and did not end short, and
\* completed_requests those that ended or wait to announce the end.
CountersMatch ==
  /\ active = Cardinality(InActive)
  /\ completed = Cardinality(InCompleted)

\* An end of the transfer, good or bad, is announced only when no payload
\* request is under way, other than ones that wait to announce it themselves:
\* the two counters stand for the requests however they overlap and end.
AnnouncedWhenQuiet ==
  [][announced' # announced => \A r \in Requests : pc[r] # "open" \/ pc'[r] # "open"]_vars

SizeOf(blobs) == LET size(i) == Sizes[i] IN MapThenSumSet(size, blobs)
PayloadSent(r) == SizeOf(sent[r] \cap Payload)

\* The blobs that the reporter counts although they are no files: it ignores the blob
\* at index 0, the hash sequence, and not the list of names that follows it.
Extra == {i \in DOMAIN Sizes : i \notin Payload /\ ~(MetaFirst /\ i = 1)}

\* While the share is up, transfer-completed is only announced when some single
\* request was sent at least 95 % of the payload, less what the list of names counts
\* for, whatever the other requests were sent and however they end.
NearlyDelivered ==
  emitted /\ ~closed =>
    \E r \in Requests : 100 * (PayloadSent(r) + SizeOf(Extra)) >= 95 * Total

\* The progress a request reports never goes back and never exceeds the total,
\* across blobs, the metadata blob and offsets that come out of order.
ProgressIsMonotone ==
  [][\A r \in Requests : reported[r] <= reported'[r] /\ reported'[r] <= Total]_vars

\* What the counters, offsets and waits of this module come to for the page.
Report ==
  INSTANCE ShareReport WITH
    serving <- {r \in Requests : pc[r] = "open"},
    ended <- {r \in Requests : pc[r] \notin {"new", "open"}},
    progress <- reported,
    told <- announced,
    good <- emitted

\* The reporter implements ShareReport: however requests overlap, the page never
\* sees progress go back, an end while a request is open, or a second good end.
ImplementsShareReport == Report!Spec

\* "A completed payload request with all bytes sent indicates the end of the
\* transfer": once no request is under way and one of them was completed, the
\* end is announced.
CompletionIsAnnounced ==
  (/\ \A r \in Requests : pc[r] \notin UnderWay
   /\ \E r \in Requests : pc[r] = "completed") ~>
  (emitted \/ \E r \in Requests : pc[r] \in UnderWay)
==============================================================================
