---------------------------- MODULE ReceiveCommand ----------------------------
(***************************************************************************)
(* The receive side of the desktop and mobile application: the commands    *)
(* receive_file and cancel_receive (src-tauri/src/commands.rs) with their  *)
(* part of AppState, and download (engine/native/src/receive.rs) with the  *)
(* partial store it keeps on disk.                                         *)
(*                                                                         *)
(* Commands run concurrently; AppState is behind one mutex and a step ends *)
(* where it is released or the command awaits something else.  A ticket is *)
(* its content hash: the store directory is named after it.                *)
(***************************************************************************)
EXTENDS FiniteSets

CONSTANTS
  Calls,    \* receive_file calls that may be under way at the same time
  Hashes,   \* content hashes of the tickets
  None      \* an empty Option

ASSUME NoneAssumption == None \notin Calls \cup Hashes

VARIABLES
  pc,            \* where each call is
  hash,          \* incoming_hash of the call, None if the ticket does not parse
  stale,         \* stale_hash the call has taken and will delete
  cancel,        \* state of the call's oneshot cancel channel
  outcome,       \* result of the call's download
  slot,          \* AppState.current_receive_cancel: the call whose sender it is
  lastCancelled, \* AppState.last_cancelled_recv_hash
  stores,        \* hashes with a store directory on disk
  removing,      \* directories whose removal an armed guard has spawned
  userCancelled  \* history: calls the user cancelled

vars == <<pc, hash, stale, cancel, outcome, slot, lastCancelled, stores, removing,
          userCancelled>>

Pcs == {"idle", "relay", "stale", "delete", "claim", "open", "transfer",
        "shutdown", "epilogue"}
CancelStates == {"none", "held", "sent", "dropped"}
Outcomes == {"none", "ok", "cancelled", "error"}

Init ==
  /\ pc = [r \in Calls |-> "idle"]
  /\ hash = [r \in Calls |-> None]
  /\ stale = [r \in Calls |-> None]
  /\ cancel = [r \in Calls |-> "none"]
  /\ outcome = [r \in Calls |-> "none"]
  /\ slot = None
  /\ lastCancelled = None
  /\ stores = {}
  /\ removing = {}
  /\ userCancelled = {}

Goto(r, l) == pc' = [pc EXCEPT ![r] = l]

\* The call's FsStore is open: the directory is locked until it is shut down.
Opened(r) == pc[r] \in {"transfer", "shutdown"}

------------------------------------------------------------------------------
(* receive_file                                                             *)

\* A ticket that does not parse has no incoming_hash.
Receive(r, h) ==
  /\ pc[r] = "idle"
  /\ Goto(r, "relay")
  /\ hash' = [hash EXCEPT ![r] = h]
  /\ cancel' = [cancel EXCEPT ![r] = "none"]
  /\ outcome' = [outcome EXCEPT ![r] = "none"]
  /\ userCancelled' = userCancelled \ {r}
  /\ UNCHANGED <<stale, slot, lastCancelled, stores, removing>>

\* resolve_relay_mode_with_fallback: an error ends the call before anything.
ResolveRelay(r) ==
  /\ pc[r] = "relay"
  /\ \E l \in {"stale", "idle"} : Goto(r, l)
  /\ UNCHANGED <<hash, stale, cancel, outcome, slot, lastCancelled, stores,
                 removing, userCancelled>>

\* If the new hash is known, the hash of the last partial is taken, whatever
\* becomes of this call, and the store of a different hash is deleted.
TakeStale(r) ==
  /\ pc[r] = "stale"
  /\ lastCancelled' = IF hash[r] = None THEN lastCancelled ELSE None
  /\ IF hash[r] = None \/ lastCancelled \in {None, hash[r]}
     THEN Goto(r, "claim") /\ UNCHANGED stale
     ELSE Goto(r, "delete") /\ stale' = [stale EXCEPT ![r] = lastCancelled]
  /\ UNCHANGED <<hash, cancel, outcome, slot, stores, removing, userCancelled>>

DeleteStale(r) ==
  /\ pc[r] = "delete"
  /\ stores' = stores \ {stale[r]}
  /\ stale' = [stale EXCEPT ![r] = None]
  /\ Goto(r, "claim")
  /\ UNCHANGED <<hash, cancel, outcome, slot, lastCancelled, removing,
                 userCancelled>>

\* Mutant of Claim: the sender goes into the slot unasked.
Claim_Unchecked(r) ==
  /\ pc[r] = "claim"
  /\ Goto(r, "open")
  /\ slot' = r
  /\ cancel' = [cancel EXCEPT ![r] = "held"]
  /\ UNCHANGED <<hash, stale, outcome, lastCancelled, stores, removing,
                 userCancelled>>

\* "Already receiving a file", or the sender goes into the slot.
Claim(r) ==
  /\ pc[r] = "claim"
  /\ IF slot # None
     THEN Goto(r, "idle") /\ UNCHANGED <<slot, cancel>>
     ELSE /\ Goto(r, "open")
          /\ slot' = r
          /\ cancel' = [cancel EXCEPT ![r] = "held"]
  /\ UNCHANGED <<hash, stale, outcome, lastCancelled, stores, removing,
                 userCancelled>>

\* download: parse the ticket, bind the endpoint and load the store named after
\* the hash, which fails while another call has it open.
OpenStore(r) ==
  /\ pc[r] = "open"
  /\ hash[r] # None
  /\ ~\E q \in Calls \ {r} : Opened(q) /\ hash[q] = hash[r]
  /\ stores' = stores \cup {hash[r]}
  /\ Goto(r, "transfer")
  /\ UNCHANGED <<hash, stale, cancel, outcome, slot, lastCancelled, removing,
                 userCancelled>>

OpenFails(r) ==
  /\ pc[r] = "open"
  /\ outcome' = [outcome EXCEPT ![r] = "error"]
  /\ Goto(r, "epilogue")
  /\ UNCHANGED <<hash, stale, cancel, slot, lastCancelled, stores, removing,
                 userCancelled>>

\* The transfer and the export are done; the armed guard spawns the removal of
\* the store when download returns.
TransferOk(r) ==
  /\ pc[r] = "transfer"
  /\ outcome' = [outcome EXCEPT ![r] = "ok"]
  /\ removing' = removing \cup {hash[r]}
  /\ Goto(r, "epilogue")
  /\ UNCHANGED <<hash, stale, cancel, slot, lastCancelled, stores, userCancelled>>

\* The transfer fails: the guard is disarmed and the store shut down.
TransferErr(r) ==
  /\ pc[r] = "transfer"
  /\ outcome' = [outcome EXCEPT ![r] = "error"]
  /\ Goto(r, "shutdown")
  /\ UNCHANGED <<hash, stale, cancel, slot, lastCancelled, stores, removing,
                 userCancelled>>

\* cancel_rx resolves: a message was sent, or the sender was dropped.
CancelSeen(r) ==
  /\ pc[r] = "transfer"
  /\ cancel[r] \in {"sent", "dropped"}
  /\ outcome' = [outcome EXCEPT ![r] = "cancelled"]
  /\ Goto(r, "shutdown")
  /\ UNCHANGED <<hash, stale, cancel, slot, lastCancelled, stores, removing,
                 userCancelled>>

\* db.shutdown and endpoint.close; an error of the former is the result.
Shutdown(r) ==
  /\ pc[r] = "shutdown"
  /\ \E o \in {outcome[r], "error"} : outcome' = [outcome EXCEPT ![r] = o]
  /\ Goto(r, "epilogue")
  /\ UNCHANGED <<hash, stale, cancel, slot, lastCancelled, stores, removing,
                 userCancelled>>

\* Mutant of Epilogue: the slot is emptied only after a success.
Epilogue_LeaksSlot(r) ==
  /\ pc[r] = "epilogue"
  /\ slot' = IF outcome[r] = "ok" THEN None ELSE slot
  /\ lastCancelled' = IF outcome[r] = "ok" THEN lastCancelled ELSE hash[r]
  /\ Goto(r, "idle")
  /\ UNCHANGED <<hash, stale, cancel, outcome, stores, removing, userCancelled>>

\* The slot is emptied whoever's sender it holds, and the hash of a download
\* that did not succeed is recorded.
Epilogue(r) ==
  /\ pc[r] = "epilogue"
  /\ slot' = None
  /\ cancel' = [q \in Calls |->
                  IF q = slot THEN "dropped" ELSE cancel[q]]
  /\ lastCancelled' = IF outcome[r] = "ok" THEN lastCancelled ELSE hash[r]
  /\ Goto(r, "idle")
  /\ UNCHANGED <<hash, stale, outcome, stores, removing, userCancelled>>

------------------------------------------------------------------------------
(* cancel_receive, and the blocking task of AutoCleanupDir                  *)

\* Mutant of CancelReceive: the sender is put back and not used.
CancelReceive_Unsent ==
  /\ slot # None
  /\ userCancelled' = userCancelled \cup {slot}
  /\ UNCHANGED <<pc, hash, stale, cancel, outcome, slot, lastCancelled, stores,
                 removing>>

CancelReceive ==
  /\ slot # None
  /\ cancel' = [cancel EXCEPT ![slot] = "sent"]
  /\ userCancelled' = userCancelled \cup {slot}
  /\ slot' = None
  /\ UNCHANGED <<pc, hash, stale, outcome, lastCancelled, stores, removing>>

RemoveDir(h) ==
  /\ h \in removing
  /\ removing' = removing \ {h}
  /\ stores' = stores \ {h}
  /\ UNCHANGED <<pc, hash, stale, cancel, outcome, slot, lastCancelled,
                 userCancelled>>

------------------------------------------------------------------------------
\* What a call does without the other device.
CallStep(r) ==
  \/ ResolveRelay(r)
  \/ TakeStale(r)
  \/ DeleteStale(r)
  \/ Claim(r)
  \/ OpenStore(r)
  \/ OpenFails(r)
  \/ CancelSeen(r)
  \/ Shutdown(r)
  \/ Epilogue(r)

Next ==
  \/ \E r \in Calls : CallStep(r) \/ TransferOk(r) \/ TransferErr(r)
  \/ \E r \in Calls, h \in Hashes \cup {None} : Receive(r, h)
  \/ CancelReceive
  \/ \E h \in Hashes : RemoveDir(h)

Spec == Init /\ [][Next]_vars

\* A command that can go on does; the sender may be silent for ever.
Fairness ==
  /\ \A r \in Calls : WF_vars(CallStep(r))
  /\ \A h \in Hashes : WF_vars(RemoveDir(h))

FairSpec == Spec /\ Fairness

------------------------------------------------------------------------------
(* Properties                                                               *)

\* The variables have their types, and a store that is deleted as stale is never
\* the one the call is about to resume.
TypeOK ==
  /\ pc \in [Calls -> Pcs]
  /\ hash \in [Calls -> Hashes \cup {None}]
  /\ stale \in [Calls -> Hashes \cup {None}]
  /\ \A r \in Calls : pc[r] = "delete" => stale[r] \in Hashes \ {hash[r]}
  /\ cancel \in [Calls -> CancelStates]
  /\ outcome \in [Calls -> Outcomes]
  /\ slot \in Calls \cup {None}
  /\ lastCancelled \in Hashes \cup {None}
  /\ stores \subseteq Hashes
  /\ removing \subseteq Hashes
  /\ userCancelled \subseteq Calls

Downloading == {"open", "transfer", "shutdown", "epilogue"}

\* The slot never keeps the sender of a call that has returned: "Already
\* receiving a file" is only ever answered while a download is under way, and
\* cancel_receive always has one to signal.
SlotIsLive ==
  slot # None => pc[slot] \in Downloading /\ cancel[slot] = "held"

\* At most one download can still be cancelled by the user; every other one has
\* had its channel fired or dropped and is on its way out.
OneCancellable ==
  \A q, r \in Calls :
    /\ pc[q] \in Downloading /\ cancel[q] = "held"
    /\ pc[r] \in Downloading /\ cancel[r] = "held"
    => q = r

\* A download the user has cancelled ends, also when the cancel came before it
\* had opened its store and when the sending device has fallen silent.
CancelEndsDownload ==
  \A r \in Calls : r \in userCancelled ~> pc[r] = "idle"
==============================================================================
