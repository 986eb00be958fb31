------------------------ MODULE ProvideProgress_proofs ------------------------
(***************************************************************************)
(* Proofs about ProvideProgress for any set of requests and any collection.*)
(***************************************************************************)
EXTENDS ProvideProgress, FiniteSetTheorems, WellFoundedInduction, TLAPS

\* The inductive invariant.  That the counters stand for sets of requests is
\* what makes comparing them say something about every single request.
IInv == TypeOK /\ CountersMatch

\* The sets behind the counters are finite, and who is counted as completed is
\* counted as active.
LEMMA SetsAreFinite ==
  ASSUME TypeOK
  PROVE  /\ InActive \subseteq Requests /\ IsFiniteSet(InActive)
         /\ InCompleted \subseteq InActive /\ IsFiniteSet(InCompleted)
<1>1. InActive \subseteq Requests /\ InCompleted \subseteq InActive
  BY DEF InActive, InCompleted, Counted
<1>2. IsFiniteSet(InActive)
  BY <1>1, RequestsAssumption, FS_Subset
<1> QED BY <1>1, <1>2, FS_Subset

\* A set that contains another one of at least its size is that other set.
LEMMA SameSize ==
  ASSUME NEW S, NEW T, IsFiniteSet(T), S \subseteq T,
         Cardinality(S) >= Cardinality(T)
  PROVE  S = T
BY FS_Subset, FS_CardinalityType

\* Before any request has arrived both counters are zero.
LEMMA InitIInv == Init => IInv
<1> SUFFICES ASSUME Init PROVE IInv
  OBVIOUS
<1>1. TypeOK
  <2>1. /\ pc \in [Requests -> Pcs] /\ started \in [Requests -> BOOLEAN]
        /\ transfers \subseteq Requests /\ accounted \in [Requests -> Nat]
        /\ blobSize \in [Requests -> Nat] /\ endOffset \in [Requests -> Nat]
        /\ ignoring \in [Requests -> BOOLEAN] /\ active \in Nat /\ completed \in Nat
    BY DEF Init, Pcs
  <2>2. /\ before \in [Requests -> Int] /\ fresh \in [Requests -> BOOLEAN]
        /\ announced \in {"none", "completed", "failed"}
        /\ reported \in [Requests -> Nat]
    BY DEF Init
  <2>3. emitted \in BOOLEAN /\ closed \in BOOLEAN
    BY Zenon DEF Init
  <2>4. sent \in [Requests -> SUBSET DOMAIN Sizes]
    BY {} \in SUBSET DOMAIN Sizes DEF Init
  <2> QED BY <2>1, <2>2, <2>3, <2>4 DEF TypeOK
<1>2. InActive = {} /\ InCompleted = {}
  BY DEF Init, InActive, InCompleted, Counted
<1> QED BY <1>1, <1>2, FS_EmptySet DEF IInv, CountersMatch, Init

\* What a step does to the two sets decides what it does to the counters.
LEMMA CountersStep ==
  ASSUME IInv, [Next]_vars
  PROVE  CountersMatch'
<1> USE DEF IInv, CountersMatch, TypeOK
<1>0. /\ IsFiniteSet(InActive) /\ IsFiniteSet(InCompleted)
      /\ active = Cardinality(InActive) /\ completed = Cardinality(InCompleted)
  BY SetsAreFinite
<1>1. ASSUME pc' = pc, active' = active, completed' = completed
      PROVE  CountersMatch'
  BY <1>1 DEF InActive, InCompleted
<1>2. ASSUME NEW r \in Requests, Receive(r)
      PROVE  CountersMatch'
  <2>1. /\ InActive' = InActive \cup {r} /\ r \notin InActive
        /\ InCompleted' = InCompleted
    BY <1>2 DEF Receive, InActive, InCompleted, Counted
  <2>2. Cardinality(InActive \cup {r}) = active + 1
    BY <1>0, <2>1, FS_AddElement
  <2> QED BY <1>2, <2>1, <2>2 DEF Receive
<1>3. ASSUME NEW r \in Requests, pc[r] = "open", GiveUp(r)
      PROVE  CountersMatch'
  <2>1. /\ InActive' = InActive \ {r} /\ r \in InActive
        /\ InCompleted' = InCompleted
    BY <1>3 DEF GiveUp, InActive, InCompleted, Counted
  <2>2. Cardinality(InActive') = active - 1
    BY <1>0, <2>1, FS_RemoveElement
  <2> QED BY <1>3, <2>1, <2>2 DEF GiveUp
<1>4. ASSUME NEW r \in Requests, pc[r] = "open", completed' = completed + 1,
             active' = active, NEW x \in Counted, pc' = [pc EXCEPT ![r] = x]
      PROVE  CountersMatch'
  <2>1. /\ InActive' = InActive
        /\ InCompleted' = InCompleted \cup {r} /\ r \notin InCompleted
    BY <1>4 DEF InActive, InCompleted, Counted
  <2>2. Cardinality(InCompleted') = completed + 1
    BY <1>0, <2>1, FS_AddElement, ZenonT(30)
  <2> QED BY <1>4, <2>1, <2>2
<1>5. ASSUME NEW r \in Requests, pc[r] = "open", Count(r)
      PROVE  CountersMatch'
  BY <1>4, <1>5 DEF Count, Counted
<1>6. ASSUME NEW r \in Requests, Completed(r)
      PROVE  CountersMatch'
  BY <1>3, <1>5, <1>6 DEF Completed
<1>7. ASSUME NEW r \in Requests, Aborted(r)
      PROVE  CountersMatch'
  BY <1>4, <1>7 DEF Aborted, Counted
<1>8. ASSUME NEW r \in Requests, StreamEnd(r)
      PROVE  CountersMatch'
  <2>1. CASE started[r]
    BY <1>3, <1>5, <1>8, <2>1 DEF StreamEnd
  <2>2. CASE ~started[r]
    <3>1. InActive' = InActive /\ InCompleted' = InCompleted
      BY <1>8, <2>2 DEF StreamEnd, InActive, InCompleted, Counted
    <3> QED BY <1>8, <2>2, <3>1 DEF StreamEnd
  <2> QED BY <2>1, <2>2
<1>9. ASSUME NEW r \in Requests, Settle(r)
      PROVE  CountersMatch'
  <2>1. InActive' = InActive /\ InCompleted' = InCompleted
    BY <1>9 DEF Settle, InActive, InCompleted, Counted
  <2> QED BY <1>9, <2>1 DEF Settle
<1>10. ASSUME NEW r \in Requests, NEW i \in DOMAIN Sizes, Started(r, i)
       PROVE  CountersMatch'
  BY <1>1, <1>10 DEF Started
<1>11. ASSUME NEW r \in Requests, NEW offset \in Offsets, Progress(r, offset)
       PROVE  CountersMatch'
  BY <1>1, <1>11 DEF Progress
<1>12. CASE Close \/ Finish \/ UNCHANGED vars
  BY <1>1, <1>12 DEF Close, Finish, vars
<1> QED BY <1>2, <1>6, <1>7, <1>8, <1>9, <1>10, <1>11, <1>12 DEF Next, Provider

\* Every step keeps the types; that active_requests does not go below zero
\* follows from what it counts.
LEMMA TypeStep ==
  ASSUME IInv, [Next]_vars
  PROVE  TypeOK'
<1> USE DEF IInv, TypeOK, Pcs, stateVars, waitVars, events
<1>1. ASSUME NEW r \in Requests, Receive(r)
      PROVE  TypeOK'
  BY <1>1 DEF Receive
<1>2. ASSUME NEW r \in Requests, NEW i \in DOMAIN Sizes, Started(r, i)
      PROVE  TypeOK'
  <2>1. \A m \in BOOLEAN : NextAccounted(r, m) \in Nat
    BY SizesAssumption DEF NextAccounted, Accounted, Capped
  <2>2. Sizes[i] \in Nat /\ (MetaFirst /\ i = 1) \in BOOLEAN
    BY <1>2, SizesAssumption
  <2>3. accounted' \in [Requests -> Nat] /\ ignoring' \in [Requests -> BOOLEAN]
    BY <1>2, <2>1, <2>2 DEF Started
  <2>4. sent' \in [Requests -> SUBSET DOMAIN Sizes]
    BY <1>2 DEF Started
  <2>5. /\ blobSize' \in [Requests -> Nat] /\ endOffset' \in [Requests -> Nat]
        /\ started' \in [Requests -> BOOLEAN] /\ transfers' \subseteq Requests
    BY <1>2, <2>2 DEF Started
  <2> QED BY <1>2, <2>3, <2>4, <2>5 DEF Started
<1>3. ASSUME NEW r \in Requests, NEW offset \in Offsets, Progress(r, offset)
      PROVE  TypeOK'
  <2>1. offset \in Nat
    BY <1>3, SizesAssumption DEF Offsets
  <2>2. endOffset' \in [Requests -> Nat] /\ reported' \in [Requests -> Nat]
    BY <1>3, <2>1, SizesAssumption DEF Progress, Capped
  <2>3. /\ ignoring' \in [Requests -> BOOLEAN] /\ started' \in [Requests -> BOOLEAN]
        /\ transfers' \subseteq Requests
    BY <1>3 DEF Progress
  <2> QED BY <1>3, <2>2, <2>3 DEF Progress
<1>4. ASSUME NEW r \in Requests, pc[r] = "open"
      PROVE  active - 1 \in Nat
  <2>1. r \in InActive /\ IsFiniteSet(InActive) /\ active = Cardinality(InActive)
    BY <1>4, SetsAreFinite DEF InActive, CountersMatch
  <2>2. Cardinality(InActive) # 0
    BY <2>1, FS_EmptySet
  <2> QED BY <2>1, <2>2
<1>5. ASSUME NEW r \in Requests, Completed(r)
      PROVE  TypeOK'
  <2>1. Accounted(r) \in Nat
    BY <1>5, SizesAssumption DEF Accounted, Capped
  <2>2. CASE Count(r)
    BY <1>5, <2>1, <2>2 DEF Completed, Count
  <2>3. CASE GiveUp(r)
    <3>1. active - 1 \in Nat
      BY <1>4, <1>5 DEF Completed
    <3> QED BY <1>5, <2>1, <2>3, <3>1 DEF Completed, GiveUp
  <2> QED BY <1>5, <2>2, <2>3 DEF Completed
<1>6. ASSUME NEW r \in Requests, Aborted(r)
      PROVE  TypeOK'
  BY <1>6 DEF Aborted
<1>7. ASSUME NEW r \in Requests, StreamEnd(r)
      PROVE  TypeOK'
  <2>1. CASE ~started[r]
    BY <1>7, <2>1 DEF StreamEnd
  <2>2. CASE started[r] /\ Count(r)
    BY <1>7, <2>2 DEF StreamEnd, Count
  <2>3. CASE started[r] /\ GiveUp(r)
    <3>1. active - 1 \in Nat
      BY <1>4, <1>7 DEF StreamEnd
    <3> QED BY <1>7, <2>3, <3>1 DEF StreamEnd, GiveUp
  <2> QED BY <1>7, <2>1, <2>2, <2>3 DEF StreamEnd
<1>8. ASSUME NEW r \in Requests, Settle(r)
      PROVE  TypeOK'
  BY <1>8 DEF Settle, EmitCompleted
<1>9. CASE Close \/ Finish \/ UNCHANGED vars
  BY <1>9 DEF Close, Finish, EmitCompleted, vars
<1> QED BY <1>1, <1>2, <1>3, <1>5, <1>6, <1>7, <1>8, <1>9 DEF Next, Provider

\* The strengthened invariant holds in every reachable state.
THEOREM Invariance == Spec => []IInv
<1>1. IInv /\ [Next]_vars => IInv'
  BY TypeStep, CountersStep DEF IInv
<1> QED BY InitIInv, <1>1, PTL DEF Spec

\* Type correctness, with an unsigned active_requests.
THEOREM TypeCorrect == Spec => []TypeOK
<1>1. IInv => TypeOK
  BY DEF IInv
<1> QED BY <1>1, Invariance, PTL

\* A step that announces the end leaves no request open.
LEMMA AnnounceStep ==
  ASSUME IInv, [Next]_vars, announced' # announced
  PROVE  \A r \in Requests : pc[r] # "open" \/ pc'[r] # "open"
<1> USE DEF IInv, TypeOK, CountersMatch
<1>0. /\ IsFiniteSet(InActive) /\ InCompleted \subseteq InActive
      /\ IsFiniteSet(InCompleted)
  BY SetsAreFinite
<1>1. ASSUME NEW q \in Requests, Settle(q)
      PROVE  \A r \in Requests : pc[r] # "open"
  <2>1. completed >= active
    BY <1>1 DEF Settle, Quiet, events
  <2>2. InCompleted = InActive
    BY <1>0, <2>1, SameSize
  <2> QED BY <2>2 DEF InCompleted, InActive, Counted
<1>2. ASSUME NEW q \in Requests, Aborted(q)
      PROVE  \A r \in Requests : pc[r] # "open" \/ r = q
  <2>1. completed + 1 >= active
    BY <1>2 DEF Aborted
  <2>2. /\ q \notin InCompleted
        /\ InCompleted \cup {q} \subseteq InActive
    BY <1>0, <1>2 DEF Aborted, InCompleted, InActive, Counted
  <2>3. Cardinality(InCompleted \cup {q}) = completed + 1
    BY <1>0, <2>2, FS_AddElement
  <2>4. InCompleted \cup {q} = InActive
    BY <1>0, <2>1, <2>2, <2>3, SameSize
  <2> QED BY <2>4 DEF InCompleted, InActive, Counted
<1>3. ASSUME NEW q \in Requests, Aborted(q)
      PROVE  pc'[q] # "open"
  BY <1>3 DEF Aborted
<1>4. CASE Finish
  BY <1>4 DEF Finish, UnderWay
<1>5. ASSUME NEW q \in Requests, Provider(q), ~Aborted(q)
      PROVE  FALSE
  BY <1>5 DEF Provider, Receive, Started, Progress, Completed, StreamEnd, events
<1>6. CASE Close \/ UNCHANGED vars
  BY <1>6 DEF Close, vars, events
<1> QED BY <1>1, <1>2, <1>3, <1>4, <1>5, <1>6 DEF Next

\* However requests overlap, give up, abort or fall silent, transfer-completed
\* and transfer-failed are sent only when no payload request is left open.
THEOREM QuietWhenAnnounced == Spec => AnnouncedWhenQuiet
<1>1. IInv /\ [Next]_vars
        => [announced' # announced =>
             \A r \in Requests : pc[r] # "open" \/ pc'[r] # "open"]_vars
  BY AnnounceStep
<1> QED BY <1>1, Invariance, PTL DEF Spec, AnnouncedWhenQuiet

-------------------------------------------------------------------------------
(* Progress                                                                  *)

\* What the state of a transfer is to the bytes it has told: nothing is told of
\* the metadata blob, and what is told never runs ahead of what is accounted and
\* of the end of the current blob.
Ahead(r) ==
  /\ ~started[r] => sent[r] = {}
  /\ sent[r] = {} => accounted[r] = 0 /\ blobSize[r] = 0
  /\ endOffset[r] <= blobSize[r]
  /\ ignoring[r] => accounted[r] = 0 /\ reported[r] = 0
  /\ ~ignoring[r] => reported[r] <= Capped(accounted[r] + endOffset[r])

NeverAhead == \A r \in Requests : Ahead(r)

\* A blob that begins: what it ends has been accounted, or was not told.
LEMMA StartedAhead ==
  ASSUME TypeOK, NeverAhead, NEW q \in Requests, NEW i \in DOMAIN Sizes, Started(q, i)
  PROVE  Ahead(q)' /\ reported' = reported
<1> DEFINE metadata == MetaFirst /\ i = 1
<1>1. /\ Ahead(q)
      /\ accounted[q] \in Nat /\ blobSize[q] \in Nat /\ endOffset[q] \in Nat
      /\ reported[q] \in Nat /\ ignoring[q] \in BOOLEAN
  BY DEF NeverAhead, TypeOK
<1>2. /\ accounted'[q] = NextAccounted(q, metadata)
      /\ ignoring'[q] = metadata
      /\ blobSize'[q] = Sizes[i] /\ endOffset'[q] = 0
      /\ started'[q] /\ sent'[q] # {}
      /\ reported' = reported
  BY DEF Started, TypeOK
<1>3. Sizes[i] \in Nat
  BY SizesAssumption
<1>4. metadata => sent[q] = {}
  BY SizesAssumption DEF Started, TypeOK
<1>5. metadata => accounted'[q] = 0 /\ reported[q] = 0
  <2> SUFFICES ASSUME metadata
               PROVE  accounted'[q] = 0 /\ reported[q] = 0
    OBVIOUS
  <2>1. accounted[q] = 0 /\ blobSize[q] = 0 /\ endOffset[q] = 0
    BY <1>1, <1>4 DEF Ahead
  <2>2. reported[q] = 0
    BY <1>1, <2>1, SizesAssumption DEF Ahead, Capped
  <2>3. accounted'[q] = 0
    BY <1>1, <1>2, <2>1, SizesAssumption DEF NextAccounted, Accounted, Capped
  <2> QED BY <2>2, <2>3
<1>6. ~metadata => accounted'[q] \in Nat /\ reported[q] <= Capped(accounted'[q] + 0)
  <2>1. CASE ignoring[q] /\ ~metadata
    <3>1. accounted'[q] = 0 /\ reported[q] = 0
      BY <1>1, <1>2, <2>1 DEF NextAccounted, Ahead
    <3> QED BY <3>1, SizesAssumption DEF Capped
  <2>2. CASE ~ignoring[q] /\ ~metadata
    <3>1. accounted'[q] = Capped(accounted[q] + blobSize[q])
      BY <1>2, <2>2 DEF NextAccounted, Accounted
    <3>2. reported[q] <= Capped(accounted[q] + endOffset[q])
      BY <1>1, <2>2 DEF Ahead
    <3>3. endOffset[q] <= blobSize[q]
      BY <1>1 DEF Ahead
    <3> QED BY <1>1, <3>1, <3>2, <3>3, SizesAssumption, SMTT(30) DEF Capped
  <2> QED BY <1>1, <2>1, <2>2
<1>7. /\ ~started'[q] => sent'[q] = {}
      /\ sent'[q] = {} => accounted'[q] = 0 /\ blobSize'[q] = 0
      /\ endOffset'[q] <= blobSize'[q]
  BY <1>2, <1>3
<1>8. ignoring'[q] => accounted'[q] = 0 /\ reported'[q] = 0
  BY <1>2, <1>5
<1>9. ~ignoring'[q] => reported'[q] <= Capped(accounted'[q] + endOffset'[q])
  BY <1>2, <1>6
<1> QED
  BY <1>2, <1>7, <1>8, <1>9 DEF Ahead, Capped

\* Progress within a blob: the end only grows, and stays within the blob.
LEMMA ProgressAhead ==
  ASSUME TypeOK, NeverAhead, NEW q \in Requests, NEW offset \in Nat, Progress(q, offset)
  PROVE  Ahead(q)' /\ reported[q] <= reported'[q] /\ reported'[q] <= Total
<1> DEFINE ignore == ignoring[q] \/ ~started[q]
           capped == IF offset < blobSize[q] THEN offset ELSE blobSize[q]
           end == IF capped > endOffset[q] THEN capped ELSE endOffset[q]
<1>1. /\ Ahead(q)
      /\ accounted[q] \in Nat /\ blobSize[q] \in Nat /\ endOffset[q] \in Nat
      /\ reported[q] \in Nat /\ ignoring[q] \in BOOLEAN /\ started[q] \in BOOLEAN
  BY DEF NeverAhead, TypeOK
<1>2. /\ accounted'[q] = accounted[q] /\ blobSize'[q] = blobSize[q] /\ sent'[q] = sent[q]
      /\ ignoring'[q] = ignore /\ started'[q]
      /\ endOffset'[q] = IF ignore THEN endOffset[q] ELSE end
      /\ reported'[q] = IF ignore THEN accounted[q] ELSE Capped(accounted[q] + end)
  BY DEF Progress, TypeOK
<1>3. end \in Nat /\ endOffset[q] <= end /\ end <= blobSize[q]
  BY <1>1 DEF Ahead
<1>4. ignore => accounted[q] = 0 /\ reported[q] = 0
  <2>1. CASE ignoring[q]
    BY <1>1, <2>1 DEF Ahead
  <2>2. CASE ~ignoring[q] /\ ~started[q]
    <3>1. accounted[q] = 0 /\ blobSize[q] = 0 /\ endOffset[q] = 0
      BY <1>1, <2>2 DEF Ahead
    <3> QED BY <1>1, <2>2, <3>1, SizesAssumption DEF Ahead, Capped
  <2> QED BY <2>1, <2>2
<1>5. ~ignore => reported[q] <= Capped(accounted[q] + endOffset[q])
  BY <1>1 DEF Ahead
<1> HIDE DEF end, ignore
<1>6. /\ sent'[q] = {} => accounted'[q] = 0 /\ blobSize'[q] = 0
      /\ endOffset'[q] <= blobSize'[q]
  BY <1>1, <1>2, <1>3 DEF Ahead
<1>7. CASE ignore
  <2>1. reported'[q] = 0 /\ reported[q] = 0 /\ accounted'[q] = 0 /\ ignoring'[q]
    BY <1>2, <1>4, <1>7
  <2> QED BY <1>2, <1>6, <2>1, SizesAssumption DEF Ahead, Capped
<1>8. CASE ~ignore
  <2>1. reported'[q] = Capped(accounted'[q] + endOffset'[q]) /\ endOffset'[q] = end /\ ~ignoring'[q]
    BY <1>2, <1>8
  <2>2. reported[q] <= reported'[q] /\ reported'[q] <= Total
    BY <1>1, <1>2, <1>3, <1>5, <1>8, <2>1, SizesAssumption, SMTT(30) DEF Capped
  <2>3. reported'[q] \in Nat
    BY <1>1, <1>2, <1>3, <2>1, SizesAssumption DEF Capped
  <2> QED BY <1>2, <1>6, <2>1, <2>2, <2>3 DEF Ahead, Capped
<1> QED
  BY <1>7, <1>8

\* A request that ends accounts its last blob; nothing new is told.
LEMMA CompletedAhead ==
  ASSUME TypeOK, NeverAhead, NEW q \in Requests, Completed(q)
  PROVE  Ahead(q)' /\ reported' = reported
<1>1. /\ Ahead(q)
      /\ accounted[q] \in Nat /\ blobSize[q] \in Nat /\ endOffset[q] \in Nat
      /\ reported[q] \in Nat /\ ignoring[q] \in BOOLEAN
  BY DEF NeverAhead, TypeOK
<1>2. /\ accounted'[q] = Accounted(q)
      /\ UNCHANGED <<started, blobSize, endOffset, ignoring, reported, sent>>
  BY DEF Completed, TypeOK
<1>3. CASE ignoring[q]
  BY <1>1, <1>2, <1>3 DEF Ahead, Accounted, Capped
<1>4. CASE ~ignoring[q]
  <2>1. accounted'[q] = Capped(accounted[q] + blobSize[q])
    BY <1>2, <1>4 DEF Accounted
  <2>2. reported[q] <= Capped(accounted'[q] + endOffset[q])
    BY <1>1, <1>4, <2>1, SizesAssumption DEF Ahead, Capped
  <2>3. sent[q] = {} => accounted'[q] = 0
    BY <1>1, <2>1, SizesAssumption DEF Ahead, Capped
  <2> QED
    BY <1>1, <1>2, <1>4, <2>2, <2>3 DEF Ahead, Capped
<1> QED
  BY <1>1, <1>3, <1>4

\* Every step keeps NeverAhead, and no progress told goes back or over the total.
LEMMA AheadStep ==
  ASSUME TypeOK, NeverAhead, [Next]_vars
  PROVE  /\ NeverAhead'
         /\ \A r \in Requests : reported[r] <= reported'[r]
                               /\ (reported'[r] <= Total \/ reported'[r] = reported[r])
<1>1. ASSUME NEW q \in Requests, NEW i \in DOMAIN Sizes, Started(q, i)
      PROVE  NeverAhead' /\ reported' = reported
  <2>1. \A r \in Requests \ {q} : Ahead(r)'
    BY <1>1 DEF Started, TypeOK, NeverAhead, Ahead, Capped
  <2> QED BY <1>1, <2>1, StartedAhead DEF NeverAhead
<1>2. ASSUME NEW q \in Requests, NEW offset \in Offsets, Progress(q, offset)
      PROVE  /\ NeverAhead'
             /\ \A r \in Requests : reported[r] <= reported'[r]
                                   /\ (reported'[r] <= Total \/ reported'[r] = reported[r])
  <2>1. offset \in Nat
    BY DEF Offsets
  <2>2. \A r \in Requests \ {q} : Ahead(r)' /\ reported'[r] = reported[r]
    BY <1>2 DEF Progress, TypeOK, NeverAhead, Ahead, Capped
  <2>3. Ahead(q)' /\ reported[q] <= reported'[q] /\ reported'[q] <= Total
    BY <1>2, <2>1, ProgressAhead
  <2> QED BY <2>2, <2>3 DEF NeverAhead, TypeOK
<1>3. ASSUME NEW q \in Requests, Completed(q)
      PROVE  NeverAhead' /\ reported' = reported
  <2>1. \A r \in Requests \ {q} : Ahead(r)'
    BY <1>3 DEF Completed, TypeOK, NeverAhead, Ahead, Capped
  <2> QED BY <1>3, <2>1, CompletedAhead DEF NeverAhead
<1>4. ASSUME UNCHANGED <<started, stateVars, reported, sent>>
      PROVE  NeverAhead' /\ reported' = reported
  BY <1>4 DEF stateVars, NeverAhead, Ahead, Capped
<1>5. ASSUME NEW q \in Requests, Receive(q) \/ StreamEnd(q) \/ Settle(q)
      PROVE  NeverAhead' /\ reported' = reported
  BY <1>4, <1>5 DEF Receive, StreamEnd, Settle
<1>6. ASSUME NEW q \in Requests, Aborted(q)
      PROVE  NeverAhead' /\ reported' = reported
  BY <1>6 DEF Aborted, NeverAhead, Ahead, Capped
<1>7. CASE Close \/ Finish \/ UNCHANGED vars
  <2>1. UNCHANGED <<started, stateVars, reported, sent>>
    BY <1>7 DEF Close, Finish, vars
  <2> QED BY <1>4, <2>1 DEF TypeOK
<1>8. ASSUME NeverAhead' /\ reported' = reported
      PROVE  /\ NeverAhead'
             /\ \A r \in Requests : reported[r] <= reported'[r]
                                   /\ (reported'[r] <= Total \/ reported'[r] = reported[r])
  BY <1>8 DEF TypeOK
<1> QED
  BY <1>1, <1>2, <1>3, <1>5, <1>6, <1>7, <1>8 DEF Next, Provider

\* Nothing is told when nothing has arrived.
LEMMA InitAhead == Init => NeverAhead /\ \A r \in Requests : reported[r] <= Total
  BY SizesAssumption DEF Init, NeverAhead, Ahead, Capped

\* IInv with what is needed of the progress.
PInv == IInv /\ NeverAhead /\ \A r \in Requests : reported[r] <= Total

\* The invariant of the progress holds in every reachable state.
THEOREM ProgressInvariance == Spec => []PInv
<1>1. Init => PInv
  BY InitIInv, InitAhead DEF PInv
<1>2. PInv /\ [Next]_vars => PInv'
  <2> SUFFICES ASSUME PInv, [Next]_vars
               PROVE  PInv'
    OBVIOUS
  <2>1. IInv'
    BY TypeStep, CountersStep DEF PInv, IInv
  <2>2. NeverAhead' /\ \A r \in Requests : reported'[r] <= Total
    BY AheadStep DEF PInv, IInv
  <2> QED BY <2>1, <2>2 DEF PInv
<1> QED BY <1>1, <1>2, PTL DEF Spec

\* transfer-progress never goes back and never exceeds the total, for any blobs
\* of any sizes, with or without the metadata blob, and offsets in any order.
THEOREM ProgressGrows == Spec => ProgressIsMonotone
<1>1. PInv /\ [Next]_vars
        => [\A r \in Requests : reported[r] <= reported'[r] /\ reported'[r] <= Total]_vars
  <2> SUFFICES ASSUME PInv, [Next]_vars
               PROVE  \A r \in Requests : reported[r] <= reported'[r] /\ reported'[r] <= Total
    OBVIOUS
  <2> QED BY AheadStep DEF PInv, IInv
<1> QED BY <1>1, ProgressInvariance, PTL DEF Spec, ProgressIsMonotone

-------------------------------------------------------------------------------
(* Sums                                                                      *)
(*                                                                           *)
(* MapThenSumSet is a recursive function on the subsets of a set, and chooses *)
(* an element in every step.  That it is well defined, and that the choice    *)
(* does not matter, is by induction; the induction principle is stated with   *)
(* sets, as the existence of a minimal counterexample.                        *)

SumOver(f, S) == LET v(i) == f[i] IN MapThenSumSet(v, S)

Pick(s) == CHOOSE x \in s : TRUE

\* One step of the recursion, with g for the sum of what is left.
Unfolded(f, g, s) == IF s = {} THEN 0 ELSE f[Pick(s)] + g[s \ {Pick(s)}]

Minimal(m, C) == \A c \in C : c \subseteq m => c = m

\* A set of finite sets has a member that contains no other.
LEMMA MinimalSet ==
  ASSUME NEW S, IsFiniteSet(S), NEW C, C \subseteq SUBSET S, C # {}
  PROVE  \E m \in C : Minimal(m, C)
<1>1. IsWellFoundedOn(StrictSubsetOrdering(S), FiniteSubsetsOf(S))
  BY FS_StrictSubsetOrderingWellFounded
<1>2. C \subseteq FiniteSubsetsOf(S)
  BY FS_Subset DEF FiniteSubsetsOf
<1>3. PICK m \in C : \A c \in C : ~ (<<c, m>> \in StrictSubsetOrdering(S))
  BY <1>1, <1>2, WFMin
<1> QED BY <1>2, <1>3 DEF Minimal, StrictSubsetOrdering, FiniteSubsetsOf

\* Induction over the naturals, for a set G of good ones.
LEMMA Counting ==
  ASSUME NEW G, 0 \in G, \A n \in Nat : n \in G => n + 1 \in G
  PROVE  \A n \in Nat : n \in G
<1> SUFFICES ASSUME NEW k \in Nat, k \notin G
             PROVE  FALSE
  OBVIOUS
<1> DEFINE C == {0..j : j \in (0..k) \ G}
<1>1. IsFiniteSet(0..k)
  BY FS_Interval
<1>2. C \subseteq SUBSET (0..k) /\ C # {}
  OBVIOUS
<1>3. PICK m \in C : Minimal(m, C)
  <2> HIDE DEF C
  <2> QED BY <1>1, <1>2, MinimalSet
<1>4. PICK j \in (0..k) \ G : m = 0..j
  OBVIOUS
<1>5. j # 0 /\ j - 1 \in (0..k) \ G
  <2>1. j # 0 /\ j - 1 \in 0..k /\ j - 1 \in Nat /\ (j - 1) + 1 = j
    BY <1>4
  <2>2. (j - 1) \notin G
    BY <1>4, <2>1
  <2> QED BY <2>1, <2>2
<1>6. 0..(j-1) \in C /\ 0..(j-1) \subseteq m /\ j \notin 0..(j-1) /\ j \in m
  BY <1>4, <1>5
<1> QED BY <1>3, <1>6 DEF Minimal

\* g is a sum on every set of D.
Solves(f, g, D) == \A s \in SUBSET D : g[s] = Unfolded(f, g, s)

\* CHOOSE finds an element.
LEMMA Picked == ASSUME NEW s, s # {} PROVE Pick(s) \in s
  BY DEF Pick

\* The recursion of a sum has a solution ...
LEMMA SumExists ==
  ASSUME NEW f, NEW D, IsFiniteSet(D)
  PROVE  \E h : h = [s \in SUBSET D |-> Unfolded(f, h, s)]
<1> DEFINE Upto(n) == {t \in SUBSET D : Cardinality(t) <= n}
           G == {n \in Nat : \E g : g = [s \in Upto(n) |-> Unfolded(f, g, s)]}
<1>0. \A t \in SUBSET D : IsFiniteSet(t) /\ Cardinality(t) \in Nat /\ Cardinality(t) <= Cardinality(D)
  BY FS_Subset, FS_CardinalityType
<1>1. 0 \in G
  <2>1. Upto(0) = {{}}
    BY <1>0, FS_EmptySet
  <2> DEFINE g == [s \in Upto(0) |-> 0]
  <2>2. g = [s \in Upto(0) |-> Unfolded(f, g, s)]
    BY <2>1 DEF Unfolded
  <2> QED BY <2>2
<1>2. ASSUME NEW n \in Nat, n \in G
      PROVE  n + 1 \in G
  <2>1. PICK g : g = [s \in Upto(n) |-> Unfolded(f, g, s)]
    BY <1>2
  <2> DEFINE h == [s \in Upto(n + 1) |-> Unfolded(f, g, s)]
  <2>2. \A s \in Upto(n) : s \in Upto(n + 1) /\ h[s] = g[s]
    <3>1. \A s \in Upto(n) : g[s] = Unfolded(f, g, s)
      <4> HIDE DEF Upto
      <4> QED BY <2>1
    <3> QED BY <1>0, <3>1
  <2>3. \A s \in Upto(n + 1) : s # {} => s \ {Pick(s)} \in Upto(n)
    BY <1>0, Picked, FS_RemoveElement
  <2>4. \A s \in Upto(n + 1) : Unfolded(f, g, s) = Unfolded(f, h, s)
    <3> HIDE DEF Upto, h
    <3> QED BY <2>2, <2>3 DEF Unfolded
  <2>5. h = [s \in Upto(n + 1) |-> Unfolded(f, h, s)]
    <3> HIDE DEF Upto
    <3> QED BY <2>4, Zenon
  <2>6. \E x : x = [s \in Upto(n + 1) |-> Unfolded(f, x, s)]
    BY <2>5, Zenon
  <2>7. n + 1 \in Nat
    OBVIOUS
  <2> QED BY <2>6, <2>7, Zenon
<1>3. Cardinality(D) \in G
  <2>1. Cardinality(D) \in Nat
    BY FS_CardinalityType
  <2> HIDE DEF G
  <2> QED BY <1>1, <1>2, <2>1, Counting
<1>4. Upto(Cardinality(D)) = SUBSET D
  BY <1>0
<1> QED BY <1>3, <1>4

\* ... and only one.
LEMMA SumUnique ==
  ASSUME NEW f, NEW D, IsFiniteSet(D),
         NEW g, Solves(f, g, D), NEW h, Solves(f, h, D)
  PROVE  \A s \in SUBSET D : g[s] = h[s]
<1> DEFINE C == {s \in SUBSET D : g[s] # h[s]}
<1> SUFFICES ASSUME C # {} PROVE FALSE
  OBVIOUS
<1>1. PICK m \in C : Minimal(m, C)
  <2>1. C \subseteq SUBSET D
    OBVIOUS
  <2> HIDE DEF C
  <2> QED BY <2>1, MinimalSet
<1>2. g[m] = Unfolded(f, g, m) /\ h[m] = Unfolded(f, h, m)
  BY DEF Solves
<1>3. m # {}
  BY <1>2 DEF Unfolded
<1>4. m \ {Pick(m)} \in SUBSET D /\ m \ {Pick(m)} # m
  BY <1>3, Picked
<1>5. g[m \ {Pick(m)}] = h[m \ {Pick(m)}]
  BY <1>1, <1>4 DEF Minimal
<1> QED BY <1>2, <1>3, <1>5 DEF Unfolded

\* A sum is the value of any solution on a set that contains all of it.
LEMMA SumIsSolution ==
  ASSUME NEW f, NEW D, IsFiniteSet(D), NEW h, Solves(f, h, D), NEW S \in SUBSET D
  PROVE  SumOver(f, S) = h[S]
<1> DEFINE g == CHOOSE g : g = [s \in SUBSET S |-> Unfolded(f, g, s)]
<1>1. SumOver(f, S) = g[S]
  BY Zenon DEF SumOver, MapThenSumSet, MapThenFoldSet, Unfolded, Pick
<1>2. IsFiniteSet(S)
  BY FS_Subset
<1>3. g = [s \in SUBSET S |-> Unfolded(f, g, s)]
  BY <1>2, SumExists
<1> HIDE DEF g
<1>4. Solves(f, g, S)
  BY <1>3 DEF Solves
<1>5. Solves(f, h, S)
  BY DEF Solves
<1>6. \A s \in SUBSET S : g[s] = h[s]
  BY <1>2, <1>4, <1>5, SumUnique
<1> QED BY <1>1, <1>6

\* The sum of a set, with the element that CHOOSE takes first.
LEMMA SumUnfolds ==
  ASSUME NEW f, NEW S, IsFiniteSet(S)
  PROVE  SumOver(f, S) = IF S = {} THEN 0 ELSE f[Pick(S)] + SumOver(f, S \ {Pick(S)})
<1>1. PICK h : h = [s \in SUBSET S |-> Unfolded(f, h, s)]
  BY SumExists
<1>2. Solves(f, h, S)
  BY <1>1 DEF Solves
<1>3. \A s \in SUBSET S : SumOver(f, s) = h[s]
  BY <1>2, SumIsSolution
<1>4. S \in SUBSET S /\ S \ {Pick(S)} \in SUBSET S
  OBVIOUS
<1> QED BY <1>2, <1>3, <1>4 DEF Solves, Unfolded

\* Sums of naturals: any element can be taken out.
LEMMA SumTakesOut ==
  ASSUME NEW f, NEW D, IsFiniteSet(D), \A x \in D : f[x] \in Nat
  PROVE  /\ SumOver(f, D) \in Nat
         /\ \A x \in D : SumOver(f, D) = f[x] + SumOver(f, D \ {x})
<1> DEFINE Good(s) == /\ SumOver(f, s) \in Nat
                      /\ \A x \in s : SumOver(f, s) = f[x] + SumOver(f, s \ {x})
           C == {s \in SUBSET D : ~Good(s)}
<1> SUFFICES ASSUME C # {} PROVE FALSE
  OBVIOUS
<1>1. PICK m \in C : Minimal(m, C)
  <2>1. C \subseteq SUBSET D
    OBVIOUS
  <2> HIDE DEF C
  <2> QED BY <2>1, MinimalSet
<1>2. \A s \in SUBSET D : IsFiniteSet(s)
  BY FS_Subset
<1>3. \A s \in SUBSET D : SumOver(f, s) = IF s = {} THEN 0 ELSE f[Pick(s)] + SumOver(f, s \ {Pick(s)})
  BY <1>2, SumUnfolds
<1>4. \A x \in m : Good(m \ {x})
  BY <1>1 DEF Minimal
<1>5. m # {}
  <2>1. SumOver(f, {}) = 0
    BY <1>3
  <2>2. Good({})
    BY <2>1
  <2> QED BY <1>1, <2>2
<1> DEFINE p == Pick(m)
<1>6. p \in m /\ p \in D /\ f[p] \in Nat /\ SumOver(f, m) = f[p] + SumOver(f, m \ {p})
  BY <1>1, <1>3, <1>5, Picked
<1> HIDE DEF p
<1>7. SumOver(f, m) \in Nat
  BY <1>4, <1>6
<1>8. ASSUME NEW x \in m
      PROVE  SumOver(f, m) = f[x] + SumOver(f, m \ {x})
  <2>1. CASE x = p
    BY <1>6, <2>1
  <2>2. CASE x # p
    <3>1. SumOver(f, m \ {p}) = f[x] + SumOver(f, (m \ {p}) \ {x})
      BY <1>4, <1>6, <2>2
    <3>2. SumOver(f, m \ {x}) = f[p] + SumOver(f, (m \ {x}) \ {p})
      BY <1>4, <1>6, <2>2
    <3>3. (m \ {p}) \ {x} = (m \ {x}) \ {p}
      OBVIOUS
    <3>4. SumOver(f, (m \ {x}) \ {p}) \in Nat
      <4>1. m \ {x} # m /\ (m \ {x}) \ {p} # m /\ (m \ {x}) \ {p} \in SUBSET D
        OBVIOUS
      <4> QED BY <1>1, <4>1 DEF Minimal
    <3>5. f[x] \in Nat
      BY <1>1
    <3> QED BY <1>6, <3>1, <3>2, <3>3, <3>4, <3>5
  <2> QED BY <2>1, <2>2
<1> QED BY <1>1, <1>7, <1>8

\* ... and what is left out makes the sum no larger.
LEMMA SumIsMonotone ==
  ASSUME NEW f, NEW D, IsFiniteSet(D), \A x \in D : f[x] \in Nat, NEW S \in SUBSET D
  PROVE  SumOver(f, S) <= SumOver(f, D)
<1> DEFINE C == {t \in SUBSET D : S \subseteq t /\ ~(SumOver(f, S) <= SumOver(f, t))}
<1> SUFFICES ASSUME C # {} PROVE FALSE
  OBVIOUS
<1>1. PICK m \in C : Minimal(m, C)
  <2>1. C \subseteq SUBSET D
    OBVIOUS
  <2> HIDE DEF C
  <2> QED BY <2>1, MinimalSet
<1>2. \A t \in SUBSET D : /\ SumOver(f, t) \in Nat
                          /\ \A x \in t : SumOver(f, t) = f[x] + SumOver(f, t \ {x})
  BY FS_Subset, SumTakesOut
<1>3. PICK x \in m : x \notin S
  <2>1. m # S
    BY <1>2
  <2> QED BY <2>1
<1>4. SumOver(f, S) <= SumOver(f, m \ {x})
  BY <1>1, <1>3 DEF Minimal
<1>5. /\ f[x] \in Nat /\ SumOver(f, S) \in Nat /\ SumOver(f, m \ {x}) \in Nat
      /\ SumOver(f, m) = f[x] + SumOver(f, m \ {x})
  BY <1>2, <1>3
<1> QED BY <1>4, <1>5

-------------------------------------------------------------------------------
(* What was delivered                                                        *)

\* The bytes the reporter may have counted of what was sent.
CountedSent(r) == PayloadSent(r) + SizeOf(sent[r] \cap Extra)

\* What is accounted, with the current blob while the request is served, was sent,
\* and a request that was counted as completed was sent the payload.
Delivery(r) ==
  /\ accounted[r] <= CountedSent(r)
  /\ pc[r] \in {"new", "open"} /\ ~ignoring[r] => accounted[r] + blobSize[r] <= CountedSent(r)
  /\ pc[r] \in {"settling", "completed"} => 100 * CountedSent(r) >= 95 * Total

EndHasRequest == emitted /\ ~closed => \E r \in Requests : pc[r] = "completed"

DInv == IInv /\ (\A r \in Requests : Delivery(r)) /\ EndHasRequest

\* A blob that is sent adds its size if it is one of those that are summed up.
LEMMA SizeGrows ==
  ASSUME NEW P, NEW s \in SUBSET DOMAIN Sizes, NEW i \in DOMAIN Sizes, i \notin s
  PROVE  /\ SizeOf(s \cap P) \in Nat /\ Sizes[i] \in Nat
         /\ SizeOf((s \cup {i}) \cap P) =
              SizeOf(s \cap P) + (IF i \in P THEN Sizes[i] ELSE 0)
<1> DEFINE t == s \cap P
<1>1. \A b : SizeOf(b) = SumOver(Sizes, b)
  BY DEF SizeOf, SumOver
<1>2. IsFiniteSet(DOMAIN Sizes) /\ \A x \in DOMAIN Sizes : Sizes[x] \in Nat
  BY SizesAssumption, FS_Interval
<1>3. IsFiniteSet(t) /\ IsFiniteSet(t \cup {i})
  BY <1>2, FS_Subset, FS_AddElement
<1>4. SizeOf(t) \in Nat
  <2>1. \A x \in t : Sizes[x] \in Nat
    BY <1>2
  <2> HIDE DEF t
  <2> QED BY <1>1, <1>3, <2>1, SumTakesOut
<1>5. CASE i \in P
  <2>1. /\ (s \cup {i}) \cap P = t \cup {i} /\ (t \cup {i}) \ {i} = t
        /\ \A x \in t \cup {i} : Sizes[x] \in Nat
    BY <1>2, <1>5
  <2>2. SizeOf(t \cup {i}) = Sizes[i] + SizeOf((t \cup {i}) \ {i})
    <3> HIDE DEF t
    <3> QED BY <1>1, <1>3, <2>1, SumTakesOut
  <2>3. Sizes[i] \in Nat
    BY <1>2
  <2>4. SizeOf((s \cup {i}) \cap P) = SizeOf(t) + Sizes[i]
    <3>1. SizeOf((s \cup {i}) \cap P) = Sizes[i] + SizeOf(t)
      BY <2>1, <2>2, Zenon
    <3> HIDE DEF t
    <3> QED BY <1>4, <2>3, <3>1
  <2> QED BY <1>4, <1>5, <2>3, <2>4
<1>6. CASE i \notin P
  <2>1. (s \cup {i}) \cap P = t
    BY <1>6
  <2> QED BY <1>2, <1>4, <1>6, <2>1
<1> QED BY <1>5, <1>6

\* Of a set of blobs no larger part can be sent than the whole.
LEMMA SizeIsMonotone ==
  ASSUME NEW P \in SUBSET DOMAIN Sizes, NEW s
  PROVE  /\ SizeOf(s \cap P) \in Nat /\ SizeOf(P) \in Nat
         /\ SizeOf(s \cap P) <= SizeOf(P)
<1>1. \A b : SizeOf(b) = SumOver(Sizes, b)
  BY DEF SizeOf, SumOver
<1>2. IsFiniteSet(DOMAIN Sizes) /\ \A x \in DOMAIN Sizes : Sizes[x] \in Nat
  BY SizesAssumption, FS_Interval
<1>3. \A b \in SUBSET DOMAIN Sizes : IsFiniteSet(b) /\ \A x \in b : Sizes[x] \in Nat
  BY <1>2, FS_Subset
<1>4. \A b \in SUBSET DOMAIN Sizes : SumOver(Sizes, b) \in Nat
  BY <1>3, SumTakesOut
<1>5. SumOver(Sizes, s \cap P) <= SumOver(Sizes, P)
  <2>1. s \cap P \in SUBSET P /\ IsFiniteSet(P) /\ \A x \in P : Sizes[x] \in Nat
    BY <1>3
  <2> QED BY <2>1, SumIsMonotone
<1> QED BY <1>1, <1>4, <1>5

LEMMA InitDelivery == Init => DInv
<1> SUFFICES ASSUME Init PROVE DInv
  OBVIOUS
<1>1. IInv
  BY InitIInv
<1>2. ~emitted
  BY Zenon DEF Init
<1>3. ASSUME NEW r \in Requests
      PROVE  Delivery(r)
  <2>1. sent[r] = {} /\ accounted[r] = 0 /\ blobSize[r] = 0 /\ pc[r] = "new"
    BY DEF Init
  <2>2. CountedSent(r) = 0
    <3>1. SumOver(Sizes, {}) = 0
      BY FS_EmptySet, SumUnfolds
    <3>2. SizeOf({}) = 0
      BY <3>1 DEF SizeOf, SumOver
    <3>3. sent[r] \cap Payload = {} /\ sent[r] \cap Extra = {}
      BY <2>1
    <3>4. PayloadSent(r) = 0 /\ SizeOf(sent[r] \cap Extra) = 0
      BY <3>2, <3>3, Zenon DEF PayloadSent
    <3> QED BY <3>4 DEF CountedSent
  <2> QED BY <2>1, <2>2 DEF Delivery
<1> QED BY <1>1, <1>2, <1>3 DEF DInv, EndHasRequest

\* What a request was sent is a number.
LEMMA CountedIsNat ==
  ASSUME TypeOK, NEW r \in Requests
  PROVE  /\ PayloadSent(r) \in Nat /\ SizeOf(sent[r] \cap Extra) \in Nat
         /\ CountedSent(r) \in Nat
<1>1. sent[r] \in SUBSET DOMAIN Sizes
  BY DEF TypeOK
<1>2. SizeOf(Payload \cap sent[r]) \in Nat /\ SizeOf(Extra \cap sent[r]) \in Nat
  BY <1>1, SizeIsMonotone
<1>3. Payload \cap sent[r] = sent[r] \cap Payload /\ Extra \cap sent[r] = sent[r] \cap Extra
  OBVIOUS
<1>4. PayloadSent(r) \in Nat /\ SizeOf(sent[r] \cap Extra) \in Nat
  BY <1>2, <1>3, Zenon DEF PayloadSent
<1> QED BY <1>4 DEF CountedSent

\* A blob that begins.
LEMMA StartedDelivers ==
  ASSUME DInv, NEW q \in Requests, NEW i \in DOMAIN Sizes, Started(q, i)
  PROVE  Delivery(q)'
<1> DEFINE metadata == MetaFirst /\ i = 1
<1>1. /\ Delivery(q) /\ pc[q] = "open" /\ sent[q] \in SUBSET DOMAIN Sizes
      /\ accounted[q] \in Nat /\ blobSize[q] \in Nat /\ ignoring[q] \in BOOLEAN
  BY DEF DInv, IInv, TypeOK, Started
<1>2. /\ accounted'[q] = NextAccounted(q, metadata) /\ ignoring'[q] = metadata
      /\ blobSize'[q] = Sizes[i] /\ sent'[q] = sent[q] \cup {i} /\ pc'[q] = "open"
  BY DEF DInv, IInv, TypeOK, Started
<1>3. i \notin sent[q]
  BY SizesAssumption DEF Started, DInv, IInv, TypeOK
<1>4. /\ PayloadSent(q) \in Nat /\ SizeOf(sent[q] \cap Extra) \in Nat /\ Sizes[i] \in Nat
      /\ PayloadSent(q)' = PayloadSent(q) + (IF i \in Payload THEN Sizes[i] ELSE 0)
      /\ SizeOf(sent'[q] \cap Extra) =
           SizeOf(sent[q] \cap Extra) + (IF i \in Extra THEN Sizes[i] ELSE 0)
  <2>1. \A P : /\ SizeOf(sent[q] \cap P) \in Nat /\ Sizes[i] \in Nat
               /\ SizeOf((sent[q] \cup {i}) \cap P) =
                    SizeOf(sent[q] \cap P) + (IF i \in P THEN Sizes[i] ELSE 0)
    BY <1>1, <1>3, SizeGrows
  <2>2. PayloadSent(q)' = SizeOf((sent[q] \cup {i}) \cap Payload)
    BY <1>2 DEF PayloadSent
  <2>3. sent'[q] \cap Extra = (sent[q] \cup {i}) \cap Extra
    BY <1>2
  <2> QED BY <2>1, <2>2, <2>3 DEF PayloadSent
<1>5. CountedSent(q)' = PayloadSent(q)' + SizeOf(sent'[q] \cap Extra)
  BY DEF CountedSent
<1>6. CountedSent(q) \in Nat /\ CountedSent(q)' \in Nat /\ CountedSent(q) <= CountedSent(q)'
  BY <1>4, <1>5 DEF CountedSent
<1>7. Accounted(q) \in Nat /\ Accounted(q) <= CountedSent(q)
  BY <1>1, <1>6, SizesAssumption DEF Delivery, Accounted, Capped
<1>8. accounted'[q] \in Nat /\ accounted'[q] <= CountedSent(q)
  BY <1>2, <1>6, <1>7 DEF NextAccounted
<1>9. CASE metadata
  <2>1. ignoring'[q]
    BY <1>2, <1>9, Zenon
  <2> QED BY <1>2, <1>6, <1>8, <2>1 DEF Delivery
<1>10. CASE ~metadata
  <2>1. (i \in Payload /\ i \notin Extra) \/ (i \notin Payload /\ i \in Extra)
    BY <1>10 DEF Extra
  <2>2. CountedSent(q)' = CountedSent(q) + Sizes[i]
    BY <1>4, <1>5, <2>1 DEF CountedSent
  <2> QED BY <1>2, <1>4, <1>6, <1>8, <2>2 DEF Delivery
<1> QED BY <1>9, <1>10

\* A request that ends is counted only if it was sent the payload.
LEMMA EndDelivers ==
  ASSUME DInv, NEW q \in Requests, Completed(q) \/ StreamEnd(q)
  PROVE  Delivery(q)'
<1>1. /\ Delivery(q) /\ pc[q] = "open" /\ TypeOK
      /\ accounted[q] \in Nat /\ blobSize[q] \in Nat /\ ignoring[q] \in BOOLEAN
  BY DEF DInv, IInv, TypeOK, Completed, StreamEnd
<1>2. CountedSent(q) \in Nat /\ CountedSent(q)' = CountedSent(q)
  BY <1>1, CountedIsNat DEF Completed, StreamEnd, PayloadSent, CountedSent
<1>3. PICK bytes \in {accounted[q], Accounted(q)} :
        /\ accounted'[q] = bytes /\ pc'[q] \notin {"new", "open"}
        /\ pc'[q] \in {"settling", "completed"} => transfer_payload_complete(bytes)
  <2>1. CASE Completed(q)
    <3>1. accounted'[q] = Accounted(q)
      BY <1>1, <2>1 DEF Completed, TypeOK
    <3>2. /\ pc'[q] \notin {"new", "open"}
          /\ pc'[q] \in {"settling", "completed"} => transfer_payload_complete(Accounted(q))
      BY <1>1, <2>1 DEF Completed, Count, GiveUp, TypeOK
    <3> QED BY <3>1, <3>2
  <2>2. CASE StreamEnd(q)
    <3>1. accounted'[q] = accounted[q]
      BY <2>2 DEF StreamEnd, stateVars
    <3>2. /\ pc'[q] \notin {"new", "open"}
          /\ pc'[q] \in {"settling", "completed"} => transfer_payload_complete(accounted[q])
      BY <1>1, <2>2 DEF StreamEnd, Count, GiveUp, TypeOK
    <3> QED BY <3>1, <3>2
  <2> QED BY <2>1, <2>2
<1>4. bytes \in Nat /\ bytes <= CountedSent(q)
  BY <1>1, <1>2, <1>3, SizesAssumption DEF Delivery, Accounted, Capped
<1>5. transfer_payload_complete(bytes) => 100 * CountedSent(q) >= 95 * Total
  BY <1>2, <1>4, SizesAssumption DEF transfer_payload_complete
<1> QED BY <1>2, <1>3, <1>4, <1>5 DEF Delivery

\* What a step does to a request that it neither begins a blob of nor ends.
Carries(r) ==
  /\ accounted'[r] = accounted[r]
  /\ blobSize'[r] = blobSize[r]
  /\ sent'[r] = sent[r]
  /\ ignoring[r] => ignoring'[r]
  /\ \/ pc'[r] = pc[r]
     \/ pc[r] \in {"new", "open"} /\ pc'[r] \in {"open", "aborted"}
     \/ pc[r] = "settling" /\ pc'[r] = "completed"

LEMMA CarriedDelivery ==
  ASSUME NEW r, Delivery(r), Carries(r)
  PROVE  Delivery(r)'
<1>1. CountedSent(r)' = CountedSent(r)
  BY DEF Carries, PayloadSent, CountedSent
<1> QED BY <1>1 DEF Carries, Delivery

\* Every step keeps what was delivered in step with what is accounted.
LEMMA DeliveryStep ==
  ASSUME DInv, [Next]_vars
  PROVE  DInv'
<1>0. TypeOK /\ IInv'
  BY TypeStep, CountersStep DEF DInv, IInv
<1>1. ASSUME NEW r \in Requests, Carries(r)
      PROVE  Delivery(r)'
  BY <1>1, CarriedDelivery DEF DInv
<1>2. ASSUME NEW q \in Requests, Provider(q)
      PROVE  EndHasRequest' /\ \A r \in Requests \ {q} : Delivery(r)'
  <2>1. /\ \A r \in Requests \ {q} :
             /\ accounted'[r] = accounted[r] /\ blobSize'[r] = blobSize[r]
             /\ sent'[r] = sent[r] /\ ignoring'[r] = ignoring[r] /\ pc'[r] = pc[r]
        /\ UNCHANGED <<emitted, closed>>
        /\ pc[q] # "completed"
    BY <1>0, <1>2 DEF TypeOK, Provider, Receive, Started, Progress, Completed, Aborted, StreamEnd,
                     Count, GiveUp, stateVars, events
  <2>2. \A r \in Requests \ {q} : Carries(r)
    BY <2>1 DEF Carries
  <2>3. EndHasRequest'
    BY <2>1 DEF DInv, EndHasRequest
  <2> QED BY <1>1, <2>2, <2>3
<1>3. ASSUME NEW q \in Requests, Provider(q)
      PROVE  Delivery(q)'
  <2>1. CASE \E i \in DOMAIN Sizes : Started(q, i)
    BY <2>1, StartedDelivers
  <2>2. CASE Completed(q) \/ StreamEnd(q)
    BY <2>2, EndDelivers
  <2>3. CASE \E offset \in Offsets : Progress(q, offset)
    <3>1. Carries(q)
      BY <1>0, <2>3 DEF Carries, Progress, TypeOK
    <3> QED BY <1>1, <3>1
  <2>4. CASE Receive(q) \/ Aborted(q)
    <3>1. Carries(q)
      BY <1>0, <2>4 DEF Carries, Receive, Aborted, stateVars, TypeOK
    <3> QED BY <1>1, <3>1
  <2> QED BY <1>3, <2>1, <2>2, <2>3, <2>4 DEF Provider
<1>4. ASSUME NEW q \in Requests, Settle(q)
      PROVE  EndHasRequest' /\ \A r \in Requests : Delivery(r)'
  <2>1. /\ UNCHANGED <<accounted, blobSize, sent, ignoring, closed>>
        /\ pc' = [pc EXCEPT ![q] = "completed"] /\ pc[q] = "settling"
    BY <1>4 DEF Settle, stateVars
  <2>2. \A r \in Requests : Carries(r)
    BY <1>0, <2>1 DEF Carries, TypeOK
  <2>3. EndHasRequest'
    BY <1>0, <2>1 DEF TypeOK, EndHasRequest
  <2> QED BY <1>1, <2>2, <2>3
<1>5. ASSUME UNCHANGED <<pc, accounted, blobSize, sent, ignoring>>,
             closed' \/ UNCHANGED <<emitted, closed>>
      PROVE  EndHasRequest' /\ \A r \in Requests : Delivery(r)'
  <2>1. \A r \in Requests : Carries(r)
    BY <1>5 DEF Carries
  <2>2. EndHasRequest'
    BY <1>5 DEF DInv, EndHasRequest
  <2> QED BY <1>1, <2>1, <2>2
<1>6. CASE Close \/ Finish \/ UNCHANGED vars
  <2>1. /\ UNCHANGED <<pc, accounted, blobSize, sent, ignoring>>
        /\ closed' \/ UNCHANGED <<emitted, closed>>
    BY <1>6 DEF Close, Finish, vars, stateVars, events
  <2> QED BY <1>0, <1>5, <2>1 DEF DInv
<1> QED BY <1>0, <1>2, <1>3, <1>4, <1>6 DEF Next, DInv

\* For any collection, whatever requests overlap, restart, abort or end early: what
\* show_provide_progress announces as completed was sent, up to the size of the blobs
\* that the reporter takes for files.
THEOREM CompletedIsNearlyDelivered == Spec => []NearlyDelivered
<1>1. DInv /\ [Next]_vars => DInv'
  BY DeliveryStep
<1>2. ASSUME DInv, emitted, ~closed
      PROVE  \E r \in Requests : 100 * (PayloadSent(r) + SizeOf(Extra)) >= 95 * Total
  <2>1. PICK r \in Requests : pc[r] = "completed"
    BY <1>2 DEF DInv, EndHasRequest
  <2>2. 100 * CountedSent(r) >= 95 * Total
    BY <1>2, <2>1 DEF DInv, Delivery
  <2>3. PayloadSent(r) \in Nat /\ SizeOf(sent[r] \cap Extra) \in Nat
    BY <1>2, CountedIsNat DEF DInv, IInv
  <2>4. SizeOf(Extra) \in Nat /\ SizeOf(sent[r] \cap Extra) <= SizeOf(Extra)
    <3>1. Extra \in SUBSET DOMAIN Sizes
      BY DEF Extra
    <3> QED BY <3>1, SizeIsMonotone
  <2> QED BY <2>2, <2>3, <2>4, SizesAssumption DEF CountedSent
<1>3. DInv => NearlyDelivered
  BY <1>2 DEF NearlyDelivered
<1> QED BY <1>1, <1>3, InitDelivery, PTL DEF Spec

-------------------------------------------------------------------------------
(* Refinement                                                                *)

Serving == {r \in Requests : pc[r] = "open"}
Ended == {r \in Requests : pc[r] \notin {"new", "open"}}

\* When the counters agree nothing is being served.
LEMMA AgreeingCounters ==
  ASSUME IInv, completed >= active
  PROVE  Serving = {}
<1>1. /\ IsFiniteSet(InActive) /\ InCompleted \subseteq InActive
  BY SetsAreFinite DEF IInv
<1>2. InCompleted = InActive
  BY <1>1, SameSize DEF IInv, CountersMatch
<1> QED
  BY <1>2 DEF Serving, InCompleted, InActive, Counted

\* A request that was counted has ended.
LEMMA CountedHasEnded ==
  ASSUME IInv, completed >= 1
  PROVE  Ended # {}
<1>1. InCompleted # {}
  BY FS_EmptySet DEF IInv, CountersMatch
<1> QED
  BY <1>1 DEF InCompleted, Ended, Counted

\* How a request that is served ends, as the page sees it.
LEMMA EndStep ==
  ASSUME TypeOK, NEW q \in Requests, pc[q] = "open",
         NEW l \in Pcs \ {"new", "open"}, pc' = [pc EXCEPT ![q] = l],
         UNCHANGED <<reported, emitted>>,
         announced' = announced \/ (announced' = "failed" /\ Serving' = {})
  PROVE  Report!End(q)
<1>1. Serving' = Serving \ {q} /\ Ended' = Ended \cup {q} /\ q \in Serving
  BY DEF Serving, Ended, TypeOK
<1> QED
  BY <1>1 DEF Report!End, Serving, Ended

\* Every step of the reporter is one that ShareReport allows, or changes nothing
\* of what the page sees.
LEMMA ReportStep ==
  ASSUME PInv, PInv', [Next]_vars
  PROVE  [Report!Next]_(Report!vars)
<1>0. TypeOK /\ IInv
  BY DEF PInv, IInv
<1>1. ASSUME Serving' = Serving, Ended' = Ended, UNCHANGED <<reported, announced, emitted>>
      PROVE  UNCHANGED Report!vars
  BY <1>1 DEF Report!vars, Serving, Ended
<1>2. ASSUME NEW q \in Requests, Receive(q)
      PROVE  Report!Next
  <2>1. Serving' = Serving \cup {q} /\ Ended' = Ended /\ q \notin Serving \cup Ended
    BY <1>0, <1>2 DEF Receive, Serving, Ended, TypeOK
  <2>2. Report!Begin(q)
    BY <1>2, <2>1 DEF Receive, events, Report!Begin, Serving, Ended
  <2> QED BY <2>2 DEF Report!Next
<1>3. ASSUME NEW q \in Requests, NEW i \in DOMAIN Sizes, Started(q, i)
      PROVE  UNCHANGED Report!vars
  BY <1>1, <1>3 DEF Started, events, Serving, Ended
<1>4. ASSUME NEW q \in Requests, NEW offset \in Offsets, Progress(q, offset)
      PROVE  Report!Next
  <2>1. /\ q \in Serving /\ Serving' = Serving /\ Ended' = Ended
        /\ UNCHANGED <<announced, emitted>>
    BY <1>4 DEF Progress, events, Serving, Ended
  <2>2. reported'[q] \in 0..Total /\ reported'[q] >= reported[q]
    <3>1. reported'[q] \in Nat /\ reported[q] \in Nat /\ reported'[q] <= Total
      BY DEF PInv, IInv, TypeOK
    <3>2. reported[q] <= reported'[q]
      BY AheadStep DEF PInv, IInv
    <3> QED BY <3>1, <3>2, SizesAssumption
  <2>3. reported' = [reported EXCEPT ![q] = reported'[q]]
    BY <1>0, <1>4 DEF Progress, TypeOK
  <2>4. Report!TellProgress(q, reported'[q])
    BY <2>1, <2>2, <2>3 DEF Report!TellProgress, Serving, Ended
  <2> QED BY <2>2, <2>4 DEF Report!Next
<1>5. ASSUME NEW q \in Requests, Completed(q) \/ StreamEnd(q)
      PROVE  Report!Next
  <2>1. PICK l \in Pcs \ {"new", "open"} : pc' = [pc EXCEPT ![q] = l]
    BY <1>5 DEF Completed, StreamEnd, Count, GiveUp, Pcs
  <2>2. pc[q] = "open" /\ UNCHANGED <<reported, emitted, announced>>
    BY <1>5 DEF Completed, StreamEnd, events
  <2>3. Report!End(q)
    BY <1>0, <2>1, <2>2, EndStep
  <2> QED BY <2>3 DEF Report!Next
<1>6. ASSUME NEW q \in Requests, Aborted(q)
      PROVE  Report!Next
  <2>1. /\ pc[q] = "open" /\ pc' = [pc EXCEPT ![q] = "aborted"]
        /\ UNCHANGED <<reported, emitted>>
        /\ announced' \in {announced, "failed"}
    BY <1>6 DEF Aborted
  <2>2. announced' # announced => Serving' = {}
    <3> SUFFICES ASSUME announced' # announced
                 PROVE  Serving' = {}
      OBVIOUS
    <3>1. \A r \in Requests : pc[r] # "open" \/ pc'[r] # "open"
      BY <1>0, AnnounceStep
    <3> QED BY <1>0, <2>1, <3>1 DEF Serving, TypeOK
  <2>3. Report!End(q)
    BY <1>0, <2>1, <2>2, EndStep DEF Pcs
  <2> QED BY <2>3 DEF Report!Next
<1>7. ASSUME EmitCompleted, completed >= active, completed >= 1,
             Serving' = Serving, Ended' = Ended, UNCHANGED reported
      PROVE  Report!Next \/ UNCHANGED Report!vars
  <2>1. Serving = {} /\ Ended # {}
    BY <1>0, <1>7, AgreeingCounters, CountedHasEnded
  <2>2. CASE emitted
    BY <1>0, <1>1, <1>7, <2>2 DEF EmitCompleted, TypeOK
  <2>3. CASE ~emitted
    <3>1. Report!TellGoodEnd
      BY <1>7, <2>1, <2>3 DEF EmitCompleted, Report!TellGoodEnd, Serving, Ended
    <3> QED BY <3>1 DEF Report!Next
  <2> QED BY <2>2, <2>3
<1>8. ASSUME NEW q \in Requests, Settle(q)
      PROVE  Report!Next \/ UNCHANGED Report!vars
  <2>1. Serving' = Serving /\ Ended' = Ended /\ UNCHANGED reported
    BY <1>0, <1>8 DEF Settle, Serving, Ended, TypeOK
  <2>2. (EmitCompleted /\ completed >= active /\ completed >= 1) \/ UNCHANGED events
    BY <1>8 DEF Settle, Quiet
  <2> QED BY <1>1, <1>7, <2>1, <2>2 DEF events
<1>9. CASE Finish
  <2>1. Serving' = Serving /\ Ended' = Ended /\ UNCHANGED reported
    BY <1>9 DEF Finish, Serving, Ended
  <2> QED BY <1>7, <1>9, <2>1 DEF Finish
<1>10. CASE Close \/ UNCHANGED vars
  BY <1>1, <1>10 DEF Close, vars, events, Serving, Ended
<1> QED
  BY <1>2, <1>3, <1>4, <1>5, <1>6, <1>8, <1>9, <1>10 DEF Next, Provider

\* The reporter implements ShareReport for any finite set of requests and any
\* collection: progress that only grows, an end told with nothing being served,
\* a good end at most once (show_provide_progress_with_logging).
THEOREM Refinement == Spec => ImplementsShareReport
<1>1. Init => Report!Init
  BY DEF Init, Report!Init
<1>2. PInv /\ PInv' /\ [Next]_vars => [Report!Next]_(Report!vars)
  BY ReportStep
<1> QED
  BY <1>1, <1>2, ProgressInvariance, PTL DEF Spec, ImplementsShareReport, Report!Spec

===============================================================================
