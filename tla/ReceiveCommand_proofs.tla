------------------------ MODULE ReceiveCommand_proofs -------------------------
(***************************************************************************)
(* The cancel slot of the receive commands, for any number of overlapping  *)
(* calls and of tickets.  OneCancellable alone is not inductive: a call    *)
(* whose sender is neither in the slot nor used would be joined by the     *)
(* next that finds the slot empty.  HeldIsInSlot rules it out.             *)
(***************************************************************************)
EXTENDS ReceiveCommand, TLAPS

\* A sender that has been neither used nor dropped is the one in the slot.
HeldIsInSlot == \A r \in Calls : cancel[r] = "held" => slot = r

\* A store is open only for a ticket that parsed: its directory is named after
\* the hash.
OpenedHasHash == \A r \in Calls : Opened(r) => hash[r] # None

Inv == TypeOK /\ SlotIsLive /\ HeldIsInSlot /\ OpenedHasHash

\* No call is under way and the slot is empty.
LEMMA InitInv == Init => Inv
  BY NoneAssumption
  DEF Init, Inv, TypeOK, SlotIsLive, HeldIsInSlot, OpenedHasHash, Opened, Pcs, CancelStates, Outcomes

\* A call begins anew: it was idle, so its sender is not in the slot.
LEMMA ReceiveInv ==
  ASSUME Inv, NEW r \in Calls, NEW h \in Hashes \cup {None}, Receive(r, h)
  PROVE  Inv'
<1>1. TypeOK'
  BY DEF Inv, TypeOK, Receive, Goto, Pcs, CancelStates, Outcomes
<1>2. slot # r
  BY NoneAssumption DEF Inv, SlotIsLive, Receive, Downloading
<1>3. SlotIsLive'
  BY <1>2 DEF Inv, TypeOK, SlotIsLive, Receive, Goto
<1>4. HeldIsInSlot'
  BY DEF Inv, TypeOK, HeldIsInSlot, Receive
<1>5. OpenedHasHash'
  BY DEF Inv, TypeOK, OpenedHasHash, Opened, Receive, Goto
<1> QED
  BY <1>1, <1>3, <1>4, <1>5 DEF Inv

\* ResolveRelay: the slot is not touched.
LEMMA ResolveRelayInv ==
  ASSUME Inv, NEW r \in Calls, ResolveRelay(r)
  PROVE  Inv'
<1>1. TypeOK'
  BY NoneAssumption DEF Inv, TypeOK, ResolveRelay, Goto, Pcs, CancelStates, Outcomes
<1>2. SlotIsLive'
  BY NoneAssumption DEF Inv, TypeOK, SlotIsLive, ResolveRelay, Goto, Downloading
<1>3. HeldIsInSlot'
  BY NoneAssumption DEF Inv, TypeOK, SlotIsLive, HeldIsInSlot, ResolveRelay
<1>4. OpenedHasHash'
  BY DEF Inv, TypeOK, OpenedHasHash, Opened, ResolveRelay, Goto
<1> QED
  BY <1>1, <1>2, <1>3, <1>4 DEF Inv

\* TakeStale: what is taken as stale is another hash than the one to be received.
LEMMA TakeStaleInv ==
  ASSUME Inv, NEW r \in Calls, TakeStale(r)
  PROVE  Inv'
<1>1. TypeOK'
  BY NoneAssumption DEF Inv, TypeOK, TakeStale, Goto, Pcs, CancelStates, Outcomes
<1>2. SlotIsLive'
  BY NoneAssumption DEF Inv, TypeOK, SlotIsLive, TakeStale, Goto, Downloading
<1>3. HeldIsInSlot'
  BY NoneAssumption DEF Inv, TypeOK, SlotIsLive, HeldIsInSlot, TakeStale
<1>4. OpenedHasHash'
  BY DEF Inv, TypeOK, OpenedHasHash, Opened, TakeStale, Goto
<1> QED
  BY <1>1, <1>2, <1>3, <1>4 DEF Inv

\* DeleteStale: the slot is not touched.
LEMMA DeleteStaleInv ==
  ASSUME Inv, NEW r \in Calls, DeleteStale(r)
  PROVE  Inv'
<1>1. TypeOK'
  BY NoneAssumption DEF Inv, TypeOK, DeleteStale, Goto, Pcs, CancelStates, Outcomes
<1>2. SlotIsLive'
  BY NoneAssumption DEF Inv, TypeOK, SlotIsLive, DeleteStale, Goto, Downloading
<1>3. HeldIsInSlot'
  BY NoneAssumption DEF Inv, TypeOK, SlotIsLive, HeldIsInSlot, DeleteStale
<1>4. OpenedHasHash'
  BY DEF Inv, TypeOK, OpenedHasHash, Opened, DeleteStale, Goto
<1> QED
  BY <1>1, <1>2, <1>3, <1>4 DEF Inv

\* Claim: only an empty slot is taken.
LEMMA ClaimInv ==
  ASSUME Inv, NEW r \in Calls, Claim(r)
  PROVE  Inv'
<1>1. TypeOK'
  BY NoneAssumption DEF Inv, TypeOK, Claim, Goto, Pcs, CancelStates, Outcomes
<1>2. SlotIsLive'
  BY NoneAssumption DEF Inv, TypeOK, SlotIsLive, Claim, Goto, Downloading
<1>3. HeldIsInSlot'
  BY NoneAssumption DEF Inv, TypeOK, SlotIsLive, HeldIsInSlot, Claim
<1>4. OpenedHasHash'
  BY DEF Inv, TypeOK, OpenedHasHash, Opened, Claim, Goto
<1> QED
  BY <1>1, <1>2, <1>3, <1>4 DEF Inv

\* OpenStore: the call stays among the downloads.
LEMMA OpenStoreInv ==
  ASSUME Inv, NEW r \in Calls, OpenStore(r)
  PROVE  Inv'
<1>1. TypeOK'
  BY NoneAssumption DEF Inv, TypeOK, OpenStore, Goto, Pcs, CancelStates, Outcomes
<1>2. SlotIsLive'
  BY NoneAssumption DEF Inv, TypeOK, SlotIsLive, OpenStore, Goto, Downloading
<1>3. HeldIsInSlot'
  BY NoneAssumption DEF Inv, TypeOK, SlotIsLive, HeldIsInSlot, OpenStore
<1>4. OpenedHasHash'
  BY DEF Inv, TypeOK, OpenedHasHash, Opened, OpenStore, Goto
<1> QED
  BY <1>1, <1>2, <1>3, <1>4 DEF Inv

\* OpenFails: the call goes on to its epilogue, with its sender where it was.
LEMMA OpenFailsInv ==
  ASSUME Inv, NEW r \in Calls, OpenFails(r)
  PROVE  Inv'
<1>1. TypeOK'
  BY NoneAssumption DEF Inv, TypeOK, OpenFails, Goto, Pcs, CancelStates, Outcomes
<1>2. SlotIsLive'
  BY NoneAssumption DEF Inv, TypeOK, SlotIsLive, OpenFails, Goto, Downloading
<1>3. HeldIsInSlot'
  BY NoneAssumption DEF Inv, TypeOK, SlotIsLive, HeldIsInSlot, OpenFails
<1>4. OpenedHasHash'
  BY DEF Inv, TypeOK, OpenedHasHash, Opened, OpenFails, Goto
<1> QED
  BY <1>1, <1>2, <1>3, <1>4 DEF Inv

\* CancelSeen: the channel has been used or dropped.
LEMMA CancelSeenInv ==
  ASSUME Inv, NEW r \in Calls, CancelSeen(r)
  PROVE  Inv'
<1>1. TypeOK'
  BY NoneAssumption DEF Inv, TypeOK, CancelSeen, Goto, Pcs, CancelStates, Outcomes
<1>2. SlotIsLive'
  BY NoneAssumption DEF Inv, TypeOK, SlotIsLive, CancelSeen, Goto, Downloading
<1>3. HeldIsInSlot'
  BY NoneAssumption DEF Inv, TypeOK, SlotIsLive, HeldIsInSlot, CancelSeen
<1>4. OpenedHasHash'
  BY DEF Inv, TypeOK, OpenedHasHash, Opened, CancelSeen, Goto
<1> QED
  BY <1>1, <1>2, <1>3, <1>4 DEF Inv

\* Shutdown: the call stays among the downloads.
LEMMA ShutdownInv ==
  ASSUME Inv, NEW r \in Calls, Shutdown(r)
  PROVE  Inv'
<1>1. TypeOK'
  BY NoneAssumption DEF Inv, TypeOK, Shutdown, Goto, Pcs, CancelStates, Outcomes
<1>2. SlotIsLive'
  BY NoneAssumption DEF Inv, TypeOK, SlotIsLive, Shutdown, Goto, Downloading
<1>3. HeldIsInSlot'
  BY NoneAssumption DEF Inv, TypeOK, SlotIsLive, HeldIsInSlot, Shutdown
<1>4. OpenedHasHash'
  BY DEF Inv, TypeOK, OpenedHasHash, Opened, Shutdown, Goto
<1> QED
  BY <1>1, <1>2, <1>3, <1>4 DEF Inv

\* Epilogue: whichever sender was in the slot is dropped with it.
LEMMA EpilogueInv ==
  ASSUME Inv, NEW r \in Calls, Epilogue(r)
  PROVE  Inv'
<1>1. TypeOK'
  BY NoneAssumption DEF Inv, TypeOK, Epilogue, Goto, Pcs, CancelStates, Outcomes
<1>2. SlotIsLive'
  BY NoneAssumption DEF Inv, TypeOK, SlotIsLive, Epilogue, Goto, Downloading
<1>3. HeldIsInSlot'
  BY NoneAssumption DEF Inv, TypeOK, SlotIsLive, HeldIsInSlot, Epilogue
<1>4. OpenedHasHash'
  BY DEF Inv, TypeOK, OpenedHasHash, Opened, Epilogue, Goto
<1> QED
  BY <1>1, <1>2, <1>3, <1>4 DEF Inv

\* TransferOk: the call stays among the downloads.
LEMMA TransferOkInv ==
  ASSUME Inv, NEW r \in Calls, TransferOk(r)
  PROVE  Inv'
<1>1. TypeOK'
  BY NoneAssumption DEF Inv, TypeOK, TransferOk, Goto, Pcs, CancelStates, Outcomes, OpenedHasHash, Opened
<1>2. SlotIsLive'
  BY NoneAssumption DEF Inv, TypeOK, SlotIsLive, TransferOk, Goto, Downloading
<1>3. HeldIsInSlot'
  BY NoneAssumption DEF Inv, TypeOK, SlotIsLive, HeldIsInSlot, TransferOk
<1>4. OpenedHasHash'
  BY DEF Inv, TypeOK, OpenedHasHash, Opened, TransferOk, Goto
<1> QED
  BY <1>1, <1>2, <1>3, <1>4 DEF Inv

\* TransferErr: the call stays among the downloads.
LEMMA TransferErrInv ==
  ASSUME Inv, NEW r \in Calls, TransferErr(r)
  PROVE  Inv'
<1>1. TypeOK'
  BY NoneAssumption DEF Inv, TypeOK, TransferErr, Goto, Pcs, CancelStates, Outcomes
<1>2. SlotIsLive'
  BY NoneAssumption DEF Inv, TypeOK, SlotIsLive, TransferErr, Goto, Downloading
<1>3. HeldIsInSlot'
  BY NoneAssumption DEF Inv, TypeOK, SlotIsLive, HeldIsInSlot, TransferErr
<1>4. OpenedHasHash'
  BY DEF Inv, TypeOK, OpenedHasHash, Opened, TransferErr, Goto
<1> QED
  BY <1>1, <1>2, <1>3, <1>4 DEF Inv

\* cancel_receive uses the sender it takes out of the slot.
LEMMA CancelReceiveInv ==
  ASSUME Inv, CancelReceive
  PROVE  Inv'
<1>1. TypeOK'
  BY DEF Inv, TypeOK, CancelReceive, CancelStates
<1>2. SlotIsLive' /\ HeldIsInSlot' /\ OpenedHasHash'
  BY DEF Inv, TypeOK, SlotIsLive, HeldIsInSlot, OpenedHasHash, Opened, CancelReceive
<1> QED
  BY <1>1, <1>2 DEF Inv

\* Every step of every call and of the blocking task keeps the invariant.
LEMMA NextInv == Inv /\ [Next]_vars => Inv'
<1> SUFFICES ASSUME Inv, [Next]_vars
             PROVE  Inv'
  OBVIOUS
<1>1. ASSUME NEW r \in Calls, CallStep(r) \/ TransferOk(r) \/ TransferErr(r)
      PROVE  Inv'
  BY <1>1, ResolveRelayInv, TakeStaleInv, DeleteStaleInv, ClaimInv, OpenStoreInv, OpenFailsInv,
     CancelSeenInv, ShutdownInv, EpilogueInv, TransferOkInv, TransferErrInv
  DEF CallStep
<1>2. ASSUME NEW r \in Calls, NEW h \in Hashes \cup {None}, Receive(r, h)
      PROVE  Inv'
  BY <1>2, ReceiveInv
<1>3. CASE CancelReceive
  BY <1>3, CancelReceiveInv
<1>4. ASSUME NEW h \in Hashes, RemoveDir(h)
      PROVE  Inv'
  BY <1>4 DEF Inv, TypeOK, SlotIsLive, HeldIsInSlot, OpenedHasHash, Opened, RemoveDir
<1>5. CASE UNCHANGED vars
  BY <1>5 DEF Inv, TypeOK, SlotIsLive, HeldIsInSlot, OpenedHasHash, Opened, vars
<1> QED
  BY <1>1, <1>2, <1>3, <1>4, <1>5 DEF Next

\* The invariant holds in every reachable state.
LEMMA Inductive == Spec => []Inv
  BY InitInv, NextInv, PTL DEF Spec

\* Every variable of the receive commands keeps its type, and the store that a
\* call deletes as stale is never the one it is about to resume.
THEOREM TypeCorrect == Spec => []TypeOK
  BY Inductive, PTL DEF Inv

\* current_receive_cancel never keeps the sender of a call that has returned, so
\* that "Already receiving a file" ends with the download, for any number of calls.
THEOREM SlotBelongsToDownload == Spec => []SlotIsLive
  BY Inductive, PTL DEF Inv

\* At most one of any number of overlapping receive_file calls can still be
\* cancelled by cancel_receive.
THEOREM AtMostOneCancellable == Spec => []OneCancellable
<1>1. Inv => OneCancellable
  BY DEF Inv, HeldIsInSlot, OneCancellable
<1> QED
  BY <1>1, Inductive, PTL

===============================================================================
