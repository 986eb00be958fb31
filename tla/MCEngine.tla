------------------------------ MODULE MCEngine -------------------------------
(***************************************************************************)
(* The liveness of the native side, checked side by side: a behaviour is    *)
(* one of overlapping receives (ReceiveCommand, extended here) or of the    *)
(* paired connections of one device. The two share no state.                *)
(***************************************************************************)
EXTENDS ReceiveCommand

VARIABLES
  part, cnStore, cnAllowed, cnPresence, cnSessions, cnTasks, cnLoopPc,
  cnLoopConn, cnAborted, cnHandlerPc, cnConnPeer, cnConnUp, cnOnline, cnOpPc, cnOpPeer,
  cnSnapshot, cnShutdown

PC == INSTANCE PairedConnections WITH
        Peers <- {"p1"}, Conns <- {"c1"},
        Gens <- {"g1"}, Agents <- {"a1"}, None <- "none", MayShutdown <- FALSE,
        store <- cnStore, allowed <- cnAllowed, presence <- cnPresence,
        sessions <- cnSessions, tasks <- cnTasks, loopPc <- cnLoopPc,
        loopConn <- cnLoopConn, aborted <- cnAborted, handlerPc <- cnHandlerPc,
        connPeer <- cnConnPeer, connUp <- cnConnUp, online <- cnOnline, opPc <- cnOpPc,
        opPeer <- cnOpPeer, snapshot <- cnSnapshot, shutdown <- cnShutdown

cnVars == <<cnStore, cnAllowed, cnPresence, cnSessions, cnTasks, cnLoopPc, cnLoopConn,
          cnAborted, cnHandlerPc, cnConnPeer, cnConnUp, cnOnline, cnOpPc, cnOpPeer,
          cnSnapshot, cnShutdown>>

Parts == {"receive", "connections"}

\* The components that do not take part stay in one initial state.
SumInit ==
  /\ part \in Parts
  /\ Init
  /\ IF part = "connections" THEN TRUE ELSE cnStore = [p \in {"p1"} |-> "none"] /\ cnOnline = [p \in {"p1"} |-> FALSE]
  /\ PC!Init

sumVars == <<part, vars, cnVars>>

\* The component p moves, the others stay where they are.
Only(p) ==
  /\ part = p
  /\ UNCHANGED part
  /\ IF p = "receive" THEN TRUE ELSE UNCHANGED vars
  /\ IF p = "connections" THEN TRUE ELSE UNCHANGED cnVars

SumNext ==
  \/ Only("receive") /\ Next
  \/ Only("connections") /\ PC!Next

\* The fairness of the component that takes part.
SumSpec ==
  /\ SumInit /\ [][SumNext]_sumVars
  /\ WF_vars(part = "receive" /\ CallStep("r1"))
  /\ WF_vars(part = "receive" /\ CallStep("r2"))
  /\ WF_vars(part = "receive" /\ RemoveDir("h1"))
  /\ WF_vars(part = "receive" /\ RemoveDir("h2"))
  /\ WF_cnVars(part = "connections" /\ PC!LoopStep("p1", "g1"))
  /\ WF_cnVars(part = "connections" /\ PC!HandlerStep("c1"))
  /\ WF_cnVars(part = "connections" /\ PC!OpStep("a1"))
  /\ WF_cnVars(part = "connections" /\ PC!OpStep("supervisor"))
  /\ WF_cnVars(part = "connections" /\ PC!SupervisorTick)

------------------------------------------------------------------------------
\* A device that stays forgotten loses its loop and its key in the tasks map
\* (PairedConnectionManager::forget and refresh).
ForgottenGoesQuiet == PC!ForgottenGoesQuiet

\* A device that stays out of reach while its loop runs is shown offline
\* (PairedConnectionManager::connect_loop).
OfflineIsShown == PC!OfflineIsShown
==============================================================================
