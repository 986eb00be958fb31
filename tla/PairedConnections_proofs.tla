----------------------- MODULE PairedConnections_proofs -----------------------
(***************************************************************************)
(* Proofs about PairedConnections for any number of devices, connections,  *)
(* loop slots and concurrent operations.                                   *)
(***************************************************************************)
EXTENDS PairedConnections, TLAPS

\* The inductive invariant: OneLoopPerPeer and ShutdownStopsDialing both rest
\* on LoopIsKept, which neither of them implies.
IInv == TypeOK /\ LoopIsKept /\ ShutdownStopsDialing

\* Every step keeps the types of all variables: the maps stay maps over the
\* known devices, loops and connections, and no program counter is unknown.
LEMMA TypeStep == TypeOK /\ [Next]_vars => TypeOK'
<1> SUFFICES ASSUME TypeOK, [Next]_vars
             PROVE  TypeOK'
  OBVIOUS
<1> USE DEF TypeOK, Status, LoopPcs, HandlerPcs, OpPcs, Refreshers, Supervisor,
      LoopAwaits, connVars, loopVars, opVars
<1>1. ASSUME NEW p \in Peers, NEW g \in Gens, LoopStep(p, g)
      PROVE  TypeOK'
  <2>1. CASE LoopCheck(p, g)
    BY <2>1 DEF LoopCheck, LoopGoto, is_active
  <2>2. CASE LoopConnectErr(p, g)
    BY <2>2 DEF LoopConnectErr, LoopGoto, LoopPark
  <2>3. CASE LoopInsert(p, g)
    BY <2>3 DEF LoopInsert, LoopGoto
  <2>4. CASE LoopMark(p, g)
    BY <2>4 DEF LoopMark, LoopGoto
  <2>5. CASE LoopClosed(p, g)
    BY <2>5 DEF LoopClosed, LoopGoto
  <2>6. CASE LoopRemove(p, g)
    BY <2>6 DEF LoopRemove, LoopGoto, LoopPark
  <2>7. CASE LoopUnmark(p, g)
    BY <2>7 DEF LoopUnmark, LoopGoto, LoopPark
  <2>8. CASE LoopWake(p, g)
    BY <2>8 DEF LoopWake, LoopGoto
  <2>9. CASE LoopDrop(p, g)
    BY <2>9 DEF LoopDrop, LoopGoto
  <2>10. ASSUME NEW c \in Conns, LoopConnect(p, g, c)
        PROVE  TypeOK'
    BY <2>10 DEF LoopConnect, LoopGoto
  <2> QED BY <1>1, <2>1, <2>2, <2>3, <2>4, <2>5, <2>6, <2>7, <2>8, <2>9, <2>10 DEF LoopStep
<1>2. ASSUME NEW c \in Conns, HandlerStep(c)
      PROVE  TypeOK'
  <2>1. CASE HandlerInsert(c)
    BY <2>1 DEF HandlerInsert, HandlerGoto
  <2>2. CASE HandlerMark(c)
    BY <2>2 DEF HandlerMark, HandlerGoto
  <2>3. CASE HandlerRecognised(c)
    BY <2>3 DEF HandlerRecognised, HandlerGoto
  <2>4. CASE HandlerForgetAccess(c)
    BY <2>4 DEF HandlerForgetAccess, HandlerGoto
  <2>5. CASE HandlerForgetTask(c)
    BY <2>5 DEF HandlerForgetTask, HandlerGoto, ForgetTask
  <2>6. CASE HandlerForgetSession(c)
    BY <2>6 DEF HandlerForgetSession, HandlerGoto
  <2>7. CASE HandlerForgetClose(c)
    BY <2>7 DEF HandlerForgetClose, HandlerGoto
  <2>8. CASE HandlerClosed(c)
    BY <2>8 DEF HandlerClosed, HandlerGoto
  <2>9. CASE HandlerRemove(c)
    BY <2>9 DEF HandlerRemove, HandlerGoto
  <2>10. CASE HandlerUnmark(c)
    BY <2>10 DEF HandlerUnmark, HandlerGoto
  <2> QED BY <1>2, <2>1, <2>2, <2>3, <2>4, <2>5, <2>6, <2>7, <2>8, <2>9, <2>10 DEF HandlerStep
<1>3. ASSUME NEW a \in Refreshers, OpStep(a)
      PROVE  TypeOK'
  <2>1. CASE Allow(a)
    BY <2>1 DEF Allow, OpGoto
  <2>2. CASE RefreshList(a)
    BY <2>2 DEF RefreshList, OpGoto, is_connectable
  <2>3. CASE RefreshSpawn(a)
    <3> DEFINE gen(p) == CHOOSE g \in Gens : loopPc[p][g] = "free"
               spawn == ToSpawn(snapshot[a])
    <3>1. \A p \in spawn : gen(p) \in Gens
      BY <2>3 DEF RefreshSpawn, ToSpawn, FreeGens
    <3>2. tasks' \in [Peers -> Gens \cup {None}]
      BY <3>1, <2>3 DEF RefreshSpawn, Retained
    <3>3. /\ aborted' \in [Peers -> [Gens -> BOOLEAN]]
          /\ loopPc' \in [Peers -> [Gens -> LoopPcs]]
      BY <2>3 DEF RefreshSpawn
    <3> QED BY <3>2, <3>3, <2>3 DEF RefreshSpawn, OpGoto
  <2>4. CASE ForgetStore(a)
    BY <2>4 DEF ForgetStore, OpGoto
  <2>5. CASE ForgetTaskOp(a)
    BY <2>5 DEF ForgetTaskOp, OpGoto, ForgetTask
  <2>6. CASE ForgetSession(a)
    BY <2>6 DEF ForgetSession, OpGoto
  <2>7. CASE ForgetPresence(a)
    BY <2>7 DEF ForgetPresence, OpGoto
  <2>8. CASE InviteConnect(a)
    BY <2>8 DEF InviteConnect, OpGoto
  <2>9. CASE InviteMark(a)
    BY <2>9 DEF InviteMark, OpGoto
  <2>10. CASE InviteOver(a)
    BY <2>10 DEF InviteOver, OpGoto
  <2> QED BY <1>3, <2>1, <2>2, <2>3, <2>4, <2>5, <2>6, <2>7, <2>8, <2>9, <2>10 DEF OpStep
<1>4. CASE SupervisorTick
  BY <1>4 DEF SupervisorTick, OpGoto
<1>5. CASE Environment
  <2>1. ASSUME NEW c \in Conns, NEW p \in Peers, Accept(c, p)
        PROVE  TypeOK'
    BY <2>1 DEF Accept, HandlerGoto
  <2>2. ASSUME NEW c \in Conns, HandlerRecognition(c)
        PROVE  TypeOK'
    BY <2>2 DEF HandlerRecognition, HandlerGoto
  <2>3. ASSUME NEW c \in Conns, HandlerForget(c)
        PROVE  TypeOK'
    <3>1. store' \in [Peers -> Status]
      BY <2>3 DEF HandlerForget, Status
    <3>2. PICK x \in {"unpair_close", "unpair_access"} : HandlerGoto(c, x)
      BY <2>3, Zenon DEF HandlerForget
    <3>3. handlerPc' \in [Conns -> HandlerPcs]
      BY <3>2 DEF HandlerGoto
    <3> QED BY <2>3, <3>1, <3>3 DEF HandlerForget
  <2>4. ASSUME NEW c \in Conns, ConnLost(c)
        PROVE  TypeOK'
    BY <2>4 DEF ConnLost
  <2>5. ASSUME NEW a \in Agents, NEW p \in Peers, Pair(a, p)
        PROVE  TypeOK'
    BY <2>5 DEF Pair, OpGoto
  <2>6. ASSUME NEW a \in Agents, NEW p \in Peers, Forget(a, p)
        PROVE  TypeOK'
    BY <2>6 DEF Forget, OpGoto
  <2>7. ASSUME NEW a \in Agents, NEW p \in Peers, Invite(a, p)
        PROVE  TypeOK'
    BY <2>7 DEF Invite, OpGoto
  <2>8. ASSUME NEW p \in Peers, PeerUp(p)
        PROVE  TypeOK'
    BY <2>8 DEF PeerUp
  <2>9. ASSUME NEW p \in Peers, PeerDown(p)
        PROVE  TypeOK'
    BY <2>9 DEF PeerDown
  <2>10. ASSUME NEW p \in Peers, NEW g \in Gens, LoopRecognition(p, g)
        PROVE  TypeOK'
    BY <2>10 DEF LoopRecognition
  <2>11. CASE ShutdownFlag
    BY <2>11 DEF ShutdownFlag, OpGoto
  <2>12. CASE ShutdownDrain
    BY <2>12 DEF ShutdownDrain
  <2> QED BY <1>5, <2>1, <2>2, <2>3, <2>4, <2>5, <2>6, <2>7, <2>8, <2>9, <2>10, <2>11, <2>12 DEF Environment
<1>6. CASE UNCHANGED vars
  BY <1>6 DEF vars, loopVars, connVars, opVars
<1> QED BY <1>1, <1>2, <1>3, <1>4, <1>5, <1>6 DEF Next

\* No step loses a running loop: a handle leaves the tasks map only together
\* with an abort, and a new loop is spawned only where no handle is kept.
LEMMA KeptStep == TypeOK /\ LoopIsKept /\ [Next]_vars => LoopIsKept'
<1> SUFFICES ASSUME TypeOK, LoopIsKept, [Next]_vars
             PROVE  LoopIsKept'
  OBVIOUS
<1> USE DEF TypeOK, LoopIsKept, Running, LoopAwaits, connVars, loopVars, opVars
<1>1. ASSUME NEW p \in Peers, NEW g \in Gens, LoopStep(p, g)
      PROVE  LoopIsKept'
  <2>1. CASE LoopCheck(p, g)
    BY <2>1 DEF LoopCheck, LoopGoto, is_active
  <2>2. CASE LoopConnectErr(p, g)
    BY <2>2 DEF LoopConnectErr, LoopGoto, LoopPark
  <2>3. CASE LoopInsert(p, g)
    BY <2>3 DEF LoopInsert, LoopGoto
  <2>4. CASE LoopMark(p, g)
    BY <2>4 DEF LoopMark, LoopGoto
  <2>5. CASE LoopClosed(p, g)
    BY <2>5 DEF LoopClosed, LoopGoto
  <2>6. CASE LoopRemove(p, g)
    BY <2>6 DEF LoopRemove, LoopGoto, LoopPark
  <2>7. CASE LoopUnmark(p, g)
    BY <2>7 DEF LoopUnmark, LoopGoto, LoopPark
  <2>8. CASE LoopWake(p, g)
    BY <2>8 DEF LoopWake, LoopGoto
  <2>9. CASE LoopDrop(p, g)
    BY <2>9 DEF LoopDrop, LoopGoto
  <2>10. ASSUME NEW c \in Conns, LoopConnect(p, g, c)
        PROVE  LoopIsKept'
    BY <2>10 DEF LoopConnect, LoopGoto
  <2> QED BY <1>1, <2>1, <2>2, <2>3, <2>4, <2>5, <2>6, <2>7, <2>8, <2>9, <2>10 DEF LoopStep
<1>2. ASSUME NEW c \in Conns, HandlerStep(c)
      PROVE  LoopIsKept'
  <2>1. CASE HandlerInsert(c)
    BY <2>1 DEF HandlerInsert, HandlerGoto
  <2>2. CASE HandlerMark(c)
    BY <2>2 DEF HandlerMark, HandlerGoto
  <2>3. CASE HandlerRecognised(c)
    BY <2>3 DEF HandlerRecognised, HandlerGoto
  <2>4. CASE HandlerForgetAccess(c)
    BY <2>4 DEF HandlerForgetAccess, HandlerGoto
  <2>5. CASE HandlerForgetTask(c)
    BY <2>5 DEF HandlerForgetTask, HandlerGoto, ForgetTask
  <2>6. CASE HandlerForgetSession(c)
    BY <2>6 DEF HandlerForgetSession, HandlerGoto
  <2>7. CASE HandlerForgetClose(c)
    BY <2>7 DEF HandlerForgetClose, HandlerGoto
  <2>8. CASE HandlerClosed(c)
    BY <2>8 DEF HandlerClosed, HandlerGoto
  <2>9. CASE HandlerRemove(c)
    BY <2>9 DEF HandlerRemove, HandlerGoto
  <2>10. CASE HandlerUnmark(c)
    BY <2>10 DEF HandlerUnmark, HandlerGoto
  <2> QED BY <1>2, <2>1, <2>2, <2>3, <2>4, <2>5, <2>6, <2>7, <2>8, <2>9, <2>10 DEF HandlerStep
<1>3. ASSUME NEW a \in Refreshers, OpStep(a)
      PROVE  LoopIsKept'
  <2>1. CASE Allow(a)
    BY <2>1 DEF Allow, OpGoto
  <2>2. CASE RefreshList(a)
    BY <2>2 DEF RefreshList, OpGoto, is_connectable
  <2>3. CASE RefreshSpawn(a)
    <3> SUFFICES ASSUME NEW p \in Peers, NEW g \in Gens, Running(p, g)'
                 PROVE  tasks'[p] = g
      OBVIOUS
    <3> DEFINE new == CHOOSE h \in Gens : loopPc[p][h] = "free"
    <3>1. CASE p \in ToSpawn(snapshot[a])
      <4>1. tasks[p] = None
        BY <3>1 DEF ToSpawn
      <4>2. ~Running(p, g)
        BY <4>1, NoneAssumption
      <4>3. tasks'[p] = new
        BY <3>1, <2>3 DEF RefreshSpawn
      <4>4. g # new => loopPc'[p][g] = loopPc[p][g] /\ (aborted[p][g] => aborted'[p][g])
        BY <2>3 DEF RefreshSpawn
      <4> QED BY <4>2, <4>3, <4>4
    <3>2. CASE p \notin ToSpawn(snapshot[a])
      <4>1. loopPc'[p][g] = loopPc[p][g]
        BY <3>2, <2>3 DEF RefreshSpawn
      <4>2. aborted'[p][g] = (aborted[p][g] \/ (p \notin snapshot[a] /\ tasks[p] = g))
        BY <2>3 DEF RefreshSpawn
      <4>3. tasks[p] = g
        BY <4>1, <4>2
      <4>4. tasks'[p] = Retained(p, snapshot[a])
        BY <3>2, <2>3 DEF RefreshSpawn
      <4> QED BY <4>2, <4>3, <4>4 DEF Retained
    <3> QED BY <3>1, <3>2
  <2>4. CASE ForgetStore(a)
    BY <2>4 DEF ForgetStore, OpGoto
  <2>5. CASE ForgetTaskOp(a)
    BY <2>5 DEF ForgetTaskOp, OpGoto, ForgetTask
  <2>6. CASE ForgetSession(a)
    BY <2>6 DEF ForgetSession, OpGoto
  <2>7. CASE ForgetPresence(a)
    BY <2>7 DEF ForgetPresence, OpGoto
  <2>8. CASE InviteConnect(a)
    BY <2>8 DEF InviteConnect, OpGoto
  <2>9. CASE InviteMark(a)
    BY <2>9 DEF InviteMark, OpGoto
  <2>10. CASE InviteOver(a)
    BY <2>10 DEF InviteOver, OpGoto
  <2> QED BY <1>3, <2>1, <2>2, <2>3, <2>4, <2>5, <2>6, <2>7, <2>8, <2>9, <2>10 DEF OpStep
<1>4. CASE SupervisorTick
  BY <1>4 DEF SupervisorTick, OpGoto
<1>5. CASE Environment
  <2>1. ASSUME NEW c \in Conns, NEW p \in Peers, Accept(c, p)
        PROVE  LoopIsKept'
    BY <2>1 DEF Accept, HandlerGoto
  <2>2. ASSUME NEW c \in Conns, HandlerRecognition(c)
        PROVE  LoopIsKept'
    BY <2>2 DEF HandlerRecognition, HandlerGoto
  <2>3. ASSUME NEW c \in Conns, HandlerForget(c)
        PROVE  LoopIsKept'
    BY <2>3 DEF HandlerForget, HandlerGoto
  <2>4. ASSUME NEW c \in Conns, ConnLost(c)
        PROVE  LoopIsKept'
    BY <2>4 DEF ConnLost
  <2>5. ASSUME NEW a \in Agents, NEW p \in Peers, Pair(a, p)
        PROVE  LoopIsKept'
    BY <2>5 DEF Pair, OpGoto
  <2>6. ASSUME NEW a \in Agents, NEW p \in Peers, Forget(a, p)
        PROVE  LoopIsKept'
    BY <2>6 DEF Forget, OpGoto
  <2>7. ASSUME NEW a \in Agents, NEW p \in Peers, Invite(a, p)
        PROVE  LoopIsKept'
    BY <2>7 DEF Invite, OpGoto
  <2>8. ASSUME NEW p \in Peers, PeerUp(p)
        PROVE  LoopIsKept'
    BY <2>8 DEF PeerUp
  <2>9. ASSUME NEW p \in Peers, PeerDown(p)
        PROVE  LoopIsKept'
    BY <2>9 DEF PeerDown
  <2>10. ASSUME NEW p \in Peers, NEW g \in Gens, LoopRecognition(p, g)
        PROVE  LoopIsKept'
    BY <2>10 DEF LoopRecognition
  <2>11. CASE ShutdownFlag
    BY <2>11 DEF ShutdownFlag, OpGoto
  <2>12. CASE ShutdownDrain
    BY <2>12 DEF ShutdownDrain
  <2> QED BY <1>5, <2>1, <2>2, <2>3, <2>4, <2>5, <2>6, <2>7, <2>8, <2>9, <2>10, <2>11, <2>12 DEF Environment
<1>6. CASE UNCHANGED vars
  BY <1>6 DEF vars, loopVars, connVars, opVars
<1> QED BY <1>1, <1>2, <1>3, <1>4, <1>5, <1>6 DEF Next

\* After the drain a running loop can only be one that was spawned later and
\* has not looked at the flag yet; looking at it ends the loop.
LEMMA ShutdownStep ==
  TypeOK /\ LoopIsKept /\ ShutdownStopsDialing /\ [Next]_vars
    => ShutdownStopsDialing'
<1> SUFFICES ASSUME TypeOK, LoopIsKept, ShutdownStopsDialing, [Next]_vars
             PROVE  ShutdownStopsDialing'
  OBVIOUS
<1> USE DEF TypeOK, LoopIsKept, ShutdownStopsDialing, Running, LoopAwaits,
      connVars, loopVars, opVars
<1>1. ASSUME NEW p \in Peers, NEW g \in Gens, LoopStep(p, g)
      PROVE  ShutdownStopsDialing'
  <2>1. CASE LoopCheck(p, g)
    BY <2>1 DEF LoopCheck, LoopGoto, is_active
  <2>2. CASE LoopConnectErr(p, g)
    BY <2>2 DEF LoopConnectErr, LoopGoto, LoopPark
  <2>3. CASE LoopInsert(p, g)
    BY <2>3 DEF LoopInsert, LoopGoto
  <2>4. CASE LoopMark(p, g)
    BY <2>4 DEF LoopMark, LoopGoto
  <2>5. CASE LoopClosed(p, g)
    BY <2>5 DEF LoopClosed, LoopGoto
  <2>6. CASE LoopRemove(p, g)
    BY <2>6 DEF LoopRemove, LoopGoto, LoopPark
  <2>7. CASE LoopUnmark(p, g)
    BY <2>7 DEF LoopUnmark, LoopGoto, LoopPark
  <2>8. CASE LoopWake(p, g)
    BY <2>8 DEF LoopWake, LoopGoto
  <2>9. CASE LoopDrop(p, g)
    BY <2>9 DEF LoopDrop, LoopGoto
  <2>10. ASSUME NEW c \in Conns, LoopConnect(p, g, c)
        PROVE  ShutdownStopsDialing'
    BY <2>10 DEF LoopConnect, LoopGoto
  <2> QED BY <1>1, <2>1, <2>2, <2>3, <2>4, <2>5, <2>6, <2>7, <2>8, <2>9, <2>10 DEF LoopStep
<1>2. ASSUME NEW c \in Conns, HandlerStep(c)
      PROVE  ShutdownStopsDialing'
  <2>1. CASE HandlerInsert(c)
    BY <2>1 DEF HandlerInsert, HandlerGoto
  <2>2. CASE HandlerMark(c)
    BY <2>2 DEF HandlerMark, HandlerGoto
  <2>3. CASE HandlerRecognised(c)
    BY <2>3 DEF HandlerRecognised, HandlerGoto
  <2>4. CASE HandlerForgetAccess(c)
    BY <2>4 DEF HandlerForgetAccess, HandlerGoto
  <2>5. CASE HandlerForgetTask(c)
    BY <2>5 DEF HandlerForgetTask, HandlerGoto, ForgetTask
  <2>6. CASE HandlerForgetSession(c)
    BY <2>6 DEF HandlerForgetSession, HandlerGoto
  <2>7. CASE HandlerForgetClose(c)
    BY <2>7 DEF HandlerForgetClose, HandlerGoto
  <2>8. CASE HandlerClosed(c)
    BY <2>8 DEF HandlerClosed, HandlerGoto
  <2>9. CASE HandlerRemove(c)
    BY <2>9 DEF HandlerRemove, HandlerGoto
  <2>10. CASE HandlerUnmark(c)
    BY <2>10 DEF HandlerUnmark, HandlerGoto
  <2> QED BY <1>2, <2>1, <2>2, <2>3, <2>4, <2>5, <2>6, <2>7, <2>8, <2>9, <2>10 DEF HandlerStep
<1>3. ASSUME NEW a \in Refreshers, OpStep(a)
      PROVE  ShutdownStopsDialing'
  <2>1. CASE Allow(a)
    BY <2>1 DEF Allow, OpGoto
  <2>2. CASE RefreshList(a)
    BY <2>2 DEF RefreshList, OpGoto, is_connectable
  <2>3. CASE RefreshSpawn(a)
    <3> SUFFICES ASSUME NEW p \in Peers, NEW g \in Gens, Running(p, g)', shutdown = "done"
                 PROVE  loopPc'[p][g] = "check"
      BY <2>3 DEF RefreshSpawn
    <3>1. /\ loopPc'[p][g] \in {"check", loopPc[p][g]}
          /\ aborted[p][g] => aborted'[p][g]
      BY <2>3 DEF RefreshSpawn
    <3> QED BY <3>1
  <2>4. CASE ForgetStore(a)
    BY <2>4 DEF ForgetStore, OpGoto
  <2>5. CASE ForgetTaskOp(a)
    BY <2>5 DEF ForgetTaskOp, OpGoto, ForgetTask
  <2>6. CASE ForgetSession(a)
    BY <2>6 DEF ForgetSession, OpGoto
  <2>7. CASE ForgetPresence(a)
    BY <2>7 DEF ForgetPresence, OpGoto
  <2>8. CASE InviteConnect(a)
    BY <2>8 DEF InviteConnect, OpGoto
  <2>9. CASE InviteMark(a)
    BY <2>9 DEF InviteMark, OpGoto
  <2>10. CASE InviteOver(a)
    BY <2>10 DEF InviteOver, OpGoto
  <2> QED BY <1>3, <2>1, <2>2, <2>3, <2>4, <2>5, <2>6, <2>7, <2>8, <2>9, <2>10 DEF OpStep
<1>4. CASE SupervisorTick
  BY <1>4 DEF SupervisorTick, OpGoto
<1>5. CASE Environment
  <2>1. ASSUME NEW c \in Conns, NEW p \in Peers, Accept(c, p)
        PROVE  ShutdownStopsDialing'
    BY <2>1 DEF Accept, HandlerGoto
  <2>2. ASSUME NEW c \in Conns, HandlerRecognition(c)
        PROVE  ShutdownStopsDialing'
    BY <2>2 DEF HandlerRecognition, HandlerGoto
  <2>3. ASSUME NEW c \in Conns, HandlerForget(c)
        PROVE  ShutdownStopsDialing'
    BY <2>3 DEF HandlerForget, HandlerGoto
  <2>4. ASSUME NEW c \in Conns, ConnLost(c)
        PROVE  ShutdownStopsDialing'
    BY <2>4 DEF ConnLost
  <2>5. ASSUME NEW a \in Agents, NEW p \in Peers, Pair(a, p)
        PROVE  ShutdownStopsDialing'
    BY <2>5 DEF Pair, OpGoto
  <2>6. ASSUME NEW a \in Agents, NEW p \in Peers, Forget(a, p)
        PROVE  ShutdownStopsDialing'
    BY <2>6 DEF Forget, OpGoto
  <2>7. ASSUME NEW a \in Agents, NEW p \in Peers, Invite(a, p)
        PROVE  ShutdownStopsDialing'
    BY <2>7 DEF Invite, OpGoto
  <2>8. ASSUME NEW p \in Peers, PeerUp(p)
        PROVE  ShutdownStopsDialing'
    BY <2>8 DEF PeerUp
  <2>9. ASSUME NEW p \in Peers, PeerDown(p)
        PROVE  ShutdownStopsDialing'
    BY <2>9 DEF PeerDown
  <2>10. ASSUME NEW p \in Peers, NEW g \in Gens, LoopRecognition(p, g)
        PROVE  ShutdownStopsDialing'
    BY <2>10 DEF LoopRecognition
  <2>11. CASE ShutdownFlag
    BY <2>11 DEF ShutdownFlag, OpGoto
  <2>12. CASE ShutdownDrain
    BY <2>12 DEF ShutdownDrain
  <2> QED BY <1>5, <2>1, <2>2, <2>3, <2>4, <2>5, <2>6, <2>7, <2>8, <2>9, <2>10, <2>11, <2>12 DEF Environment
<1>6. CASE UNCHANGED vars
  BY <1>6 DEF vars, loopVars, connVars, opVars
<1> QED BY <1>1, <1>2, <1>3, <1>4, <1>5, <1>6 DEF Next

\* In the state NodeService::start leaves, no loop runs yet.
LEMMA InitIInv == Init => IInv
BY DEF Init, IInv, TypeOK, LoopIsKept, ShutdownStopsDialing, Running, Status,
       LoopPcs, HandlerPcs, OpPcs, Refreshers, Supervisor, is_connectable

\* The strengthened invariant holds in every reachable state.
THEOREM Invariance == Spec => []IInv
<1>1. IInv /\ [Next]_vars => IInv'
  BY TypeStep, KeptStep, ShutdownStep DEF IInv
<1> QED BY InitIInv, <1>1, PTL DEF Spec

\* Type correctness of the connection manager, for all constants.
THEOREM TypeCorrect == Spec => []TypeOK
<1>1. IInv => TypeOK
  BY DEF IInv
<1> QED BY <1>1, Invariance, PTL

\* However many refreshes, pairings and forgets overlap, a device is never
\* served by two unaborted connect loops.
THEOREM NoDuplicateLoops == Spec => []OneLoopPerPeer
<1>1. IInv => OneLoopPerPeer
  BY DEF IInv, LoopIsKept, OneLoopPerPeer
<1> QED BY <1>1, Invariance, PTL

\* After NodeService::shutdown has drained the tasks no unaborted loop dials.
THEOREM ShutdownIsFinal == Spec => []ShutdownStopsDialing
<1>1. IInv => ShutdownStopsDialing
  BY DEF IInv
<1> QED BY <1>1, Invariance, PTL
===============================================================================
