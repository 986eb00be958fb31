------------------------------ MODULE MCPickers ------------------------------
(***************************************************************************)
(* How files and events reach the page: the listeners of the hooks (extended *)
(* here), the copies that Android makes of chosen and shared documents, the  *)
(* files that a browser registers and sends, and its event bus. They share   *)
(* no state; a behaviour is one of one of them.                              *)
(***************************************************************************)
EXTENDS EventListeners, FiniteSets

CONSTANTS
  MaxJobs, MaxRetries, MaxPicks, MaxShares,  \* of AndroidCopy
  Names, Inner, MaxHanded, MaxSends,         \* of WebPlatform
  Handlers                                   \* of WebEventBus

ASSUME MCPickersAssumption == IsFiniteSet(Inner)

VARIABLES
  part, acJob, acCopying, acCancelRef, acCancels, acSettled, acRetries,
  acRefused, acEmptied, acStash, acEvents, acShares, acPicks, wpFiles, wpDirs, wpSel,
  wpReading, wpBridge, wpSend, wpTicket, wpShares, wpUsed, weSets, weCurrent, weSubs,
  weGone, weStale

AC == INSTANCE AndroidCopy WITH
        job <- acJob, copying <- acCopying, cancelRef <- acCancelRef,
        cancels <- acCancels, settled <- acSettled, retries <- acRetries,
        refused <- acRefused, emptied <- acEmptied, stash <- acStash, events <- acEvents,
        shares <- acShares, picks <- acPicks

WP == INSTANCE WebPlatform WITH
        MaxPicks <- MaxHanded, files <- wpFiles, dirs <- wpDirs, sel <- wpSel,
        reading <- wpReading, bridge <- wpBridge, send <- wpSend, ticket <- wpTicket,
        shares <- wpShares, used <- wpUsed

WE == INSTANCE WebEventBus WITH
        sets <- weSets, current <- weCurrent, subs <- weSubs, gone <- weGone,
        stale <- weStale

acVars == <<acJob, acCopying, acCancelRef, acCancels, acSettled, acRetries, acRefused,
          acEmptied, acStash, acEvents, acShares, acPicks>>
wpVars == <<wpFiles, wpDirs, wpSel, wpReading, wpBridge, wpSend, wpTicket, wpShares,
          wpUsed>>
weVars == <<weSets, weCurrent, weSubs, weGone, weStale>>

Parts == {"listeners", "android", "web", "bus"}

\* The components that do not take part stay in one initial state.
SumInit ==
  /\ part \in Parts
  /\ Init
  /\ IF part = "android" THEN TRUE ELSE acStash = FALSE
  /\ AC!Init
  /\ WP!Init
  /\ WE!Init

sumVars == <<part, vars, acVars, wpVars, weVars>>

\* The component p moves, the others stay where they are.
Only(p) ==
  /\ part = p
  /\ UNCHANGED part
  /\ IF p = "listeners" THEN TRUE ELSE UNCHANGED vars
  /\ IF p = "android" THEN TRUE ELSE UNCHANGED acVars
  /\ IF p = "web" THEN TRUE ELSE UNCHANGED wpVars
  /\ IF p = "bus" THEN TRUE ELSE UNCHANGED weVars

SumNext ==
  \/ Only("listeners") /\ Next
  \/ Only("android") /\ AC!Next
  \/ Only("web") /\ WP!Next
  \/ Only("bus") /\ WE!Next

\* The fairness of the component that takes part.
SumSpec ==
  /\ SumInit /\ [][SumNext]_sumVars
  /\ WF_acVars(part = "android" /\ AC!Page)
  /\ WF_acVars(part = "android" /\ AC!Native)
  /\ WF_wpVars(part = "web" /\ WP!Page)

------------------------------------------------------------------------------
\* An open copy dialog has a copy that ends, or was opened by the end of an empty one
\* (beginAndroidCacheCopy, bindCopyChannel).
DialogHasCopy == part = "android" => AC!DialogHasCopy

\* On the web every selected path stays known, and the engine is given something
\* for each of them, nothing twice (web-file-store.ts, web-send-items.ts).
PayloadIsSound == part = "web" => WP!SelectedIsKnown /\ WP!PayloadIsComplete

\* A handler is reached while it is subscribed, unless an unsubscriber was called
\* again (web-event-bus.ts).
HandlersAreReached == part = "bus" => WE!HandlersAreReached

\* The copy dialog closes or was opened by an empty copy, a share is taken or refused aloud, and sending on the
\* web succeeds or fails (useDragDrop.ts, wasm-bridge-client.ts).
PickingEnds ==
  /\ AC!DialogCloses
  /\ AC!ShareIsTaken
  /\ WP!SendEnds
==============================================================================
