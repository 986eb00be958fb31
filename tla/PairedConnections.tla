-------------------------- MODULE PairedConnections --------------------------
(***************************************************************************)
(* The control connections one node keeps to its paired devices: the       *)
(* PairedConnectionManager (engine/native/src/paired_connections.rs) with  *)
(* the inbound handlers, the pairing and forget operations and the         *)
(* allowlist of engine/native/src/node.rs that call it.                    *)
(*                                                                         *)
(* The node runs on a multi-threaded tokio runtime.  A step of the model   *)
(* is what one task does between two points where another thread can see   *)
(* its effect: the release of a lock, a write of the paired-device file, a *)
(* set_presence.  Aborting a task stops it at an await point only, so a    *)
(* task that is running when it is aborted goes on until the next one.     *)
(*                                                                         *)
(* A connection lives as long as somebody holds a handle to it (the loop   *)
(* or handler that owns it, or the sessions map) and the network keeps it  *)
(* up.                                                                     *)
(***************************************************************************)
EXTENDS Naturals, FiniteSets

CONSTANTS
  Peers,        \* endpoint ids of the other devices
  Conns,        \* identities for control connections, reused once unheld
  Gens,         \* slots for the connect loops of one peer, reused once free
  Agents,       \* concurrent pairing, join and forget operations
  None,         \* no connection, no task, no peer
  MayShutdown   \* does a run include NodeService::shutdown

ASSUME NoneAssumption == None \notin Peers \cup Conns \cup Gens

VARIABLES
  store,        \* pairing_status of each device in paired-devices.json
  allowed,      \* AccessState.allowed
  presence,     \* the shared presence map: is the device shown online
  sessions,     \* PairedConnectionManager.sessions
  tasks,        \* PairedConnectionManager.tasks: the loop whose handle is kept
  loopPc,       \* where each connect_loop task is
  loopConn,     \* the connection the loop holds
  aborted,      \* JoinHandle::abort was called on the loop
  handlerPc,    \* where the inbound handler of each connection is
  connPeer,     \* remote end of each connection
  connUp,       \* the network still carries the connection
  online,       \* the peer's node can be reached at all
  opPc,         \* where each pairing, forget or refresh operation is
  opPeer,       \* the device it is about
  snapshot,     \* the connectable devices refresh has read from the store
  shutdown      \* "no", "flag" once the flag is set, "done" once drained

connVars  == <<connPeer, connUp>>
loopVars  == <<loopPc, loopConn, aborted>>
opVars    == <<opPc, opPeer, snapshot>>
vars == <<store, allowed, presence, sessions, tasks, loopVars, handlerPc,
          connVars, online, opVars, shutdown>>

Status == {"none", "Active", "StaleLocalIdentity", "UnpairedRemotely"}

is_active(s) == s = "Active"
is_connectable(s) == s \in {"Active", "StaleLocalIdentity"}

Supervisor == "supervisor"
Refreshers == Agents \cup {Supervisor}

LoopPcs == {"free", "check", "connecting", "inserting", "marking",
            "up", "removing", "unmarking", "sleep", "finished"}
HandlerPcs == {"free", "inserting", "marking", "serving", "recognised",
               "unpair_access", "unpair_task", "unpair_session",
               "unpair_unmark", "unpair_close", "removing", "unmarking"}
OpPcs == {"idle", "allow", "list", "spawn", "forget_store", "forget_task",
          "forget_session", "forget_presence", "invite", "invite_mark"}

\* A task stopped at one of these points can be dropped by abort: it is parked
\* on I/O or a timer, or may have to wait for the sessions lock.
LoopAwaits == {"check", "connecting", "up", "sleep", "inserting", "removing"}

Held(c) ==
  \/ \E p \in Peers : sessions[p] = c
  \/ \E p \in Peers, g \in Gens : loopConn[p][g] = c
  \/ handlerPc[c] # "free"

Live(c) == connUp[c] /\ Held(c)

------------------------------------------------------------------------------
(* NodeService::start: the allowlist is read from the store, the sessions,  *)
(* tasks and presence maps are empty, and the supervisor will refresh.      *)

Init ==
  /\ store \in [Peers -> Status]
  /\ allowed = {p \in Peers : is_connectable(store[p])}
  /\ presence = [p \in Peers |-> FALSE]
  /\ sessions = [p \in Peers |-> None]
  /\ tasks = [p \in Peers |-> None]
  /\ loopPc = [p \in Peers |-> [g \in Gens |-> "free"]]
  /\ loopConn = [p \in Peers |-> [g \in Gens |-> None]]
  /\ aborted = [p \in Peers |-> [g \in Gens |-> FALSE]]
  /\ handlerPc = [c \in Conns |-> "free"]
  /\ connPeer = [c \in Conns |-> None]
  /\ connUp = [c \in Conns |-> FALSE]
  /\ online \in [Peers -> BOOLEAN]
  /\ opPc = [a \in Refreshers |-> IF a = Supervisor THEN "list" ELSE "idle"]
  /\ opPeer = [a \in Refreshers |-> None]
  /\ snapshot = [a \in Refreshers |-> {}]
  /\ shutdown = "no"

------------------------------------------------------------------------------
(* connect_loop: one task per connectable device                            *)

LoopGoto(p, g, pc) == loopPc' = [loopPc EXCEPT ![p][g] = pc]

\* Mutant of LoopCheck: the shutdown flag is not looked at.
LoopCheck_NoFlag(p, g) ==
  /\ loopPc[p][g] = "check"
  /\ ~aborted[p][g]
  /\ LoopGoto(p, g, IF is_active(store[p]) THEN "connecting" ELSE "finished")
  /\ UNCHANGED <<store, allowed, presence, sessions, tasks, loopConn, aborted,
                 handlerPc, connVars, online, opVars, shutdown>>

\* Top of the while loop: the shutdown flag and device_still_active.
LoopCheck(p, g) ==
  /\ loopPc[p][g] = "check"
  /\ ~aborted[p][g]
  /\ LoopGoto(p, g, IF shutdown = "no" /\ is_active(store[p])
                    THEN "connecting" ELSE "finished")
  /\ UNCHANGED <<store, allowed, presence, sessions, tasks, loopConn, aborted,
                 handlerPc, connVars, online, opVars, shutdown>>

\* connect_and_recognize returns Ok: a new connection on which the
\* Recognition message has been written.
LoopConnect(p, g, c) ==
  /\ loopPc[p][g] = "connecting"
  /\ ~aborted[p][g]
  /\ online[p]
  /\ shutdown # "done"
  /\ ~Held(c)
  /\ LoopGoto(p, g, "inserting")
  /\ loopConn' = [loopConn EXCEPT ![p][g] = c]
  /\ connPeer' = [connPeer EXCEPT ![c] = p]
  /\ connUp' = [connUp EXCEPT ![c] = TRUE]
  /\ UNCHANGED <<store, allowed, presence, sessions, tasks, aborted, handlerPc,
                 online, opVars, shutdown>>

\* What a loop does after an attempt or a connection: sleep, or leave.
LoopPark == IF shutdown = "no" THEN "sleep" ELSE "finished"

\* Mutant of LoopConnectErr: presence is left as it was.
LoopConnectErr_Silent(p, g) ==
  /\ loopPc[p][g] = "connecting"
  /\ LoopGoto(p, g, LoopPark)
  /\ UNCHANGED <<store, allowed, presence, sessions, tasks, loopConn, aborted,
                 handlerPc, connVars, online, opVars, shutdown>>

\* connect_and_recognize returns Err (a refusal, a lost attempt, the timeout) and
\* the device is shown offline.  Also the last thing an aborted loop may do, if
\* it was running when it was aborted.
LoopConnectErr(p, g) ==
  /\ loopPc[p][g] = "connecting"
  /\ presence' = [presence EXCEPT ![p] = FALSE]
  /\ LoopGoto(p, g, LoopPark)
  /\ UNCHANGED <<store, allowed, sessions, tasks, loopConn, aborted, handlerPc,
                 connVars, online, opVars, shutdown>>

\* set_session: the map entry first, then presence (and touch, and the waiters).
LoopInsert(p, g) ==
  /\ loopPc[p][g] = "inserting"
  /\ sessions' = [sessions EXCEPT ![p] = loopConn[p][g]]
  /\ LoopGoto(p, g, "marking")
  /\ UNCHANGED <<store, allowed, presence, tasks, loopConn, aborted, handlerPc,
                 connVars, online, opVars, shutdown>>

LoopMark(p, g) ==
  /\ loopPc[p][g] = "marking"
  /\ presence' = [presence EXCEPT ![p] = TRUE]
  /\ LoopGoto(p, g, "up")
  /\ UNCHANGED <<store, allowed, sessions, tasks, loopConn, aborted, handlerPc,
                 connVars, online, opVars, shutdown>>

\* A verified Recognition read on the outbound connection.
LoopRecognition(p, g) ==
  /\ loopPc[p][g] = "up"
  /\ connUp[loopConn[p][g]]
  /\ presence' = [presence EXCEPT ![p] = TRUE]
  /\ UNCHANGED <<store, allowed, sessions, tasks, loopVars, handlerPc, connVars,
                 online, opVars, shutdown>>

\* The select over conn.closed() and read_outbound_control_loop ends.
LoopClosed(p, g) ==
  /\ loopPc[p][g] = "up"
  /\ ~aborted[p][g]
  /\ ~connUp[loopConn[p][g]]
  /\ LoopGoto(p, g, "removing")
  /\ UNCHANGED <<store, allowed, presence, sessions, tasks, loopConn, aborted,
                 handlerPc, connVars, online, opVars, shutdown>>

\* remove_session takes whatever entry the key has, its own or not.
LoopRemove(p, g) ==
  /\ loopPc[p][g] = "removing"
  /\ sessions' = [sessions EXCEPT ![p] = None]
  /\ LoopGoto(p, g, IF sessions[p] # None THEN "unmarking" ELSE LoopPark)
  /\ loopConn' = [loopConn EXCEPT ![p][g] = None]
  /\ UNCHANGED <<store, allowed, presence, tasks, aborted, handlerPc, connVars,
                 online, opVars, shutdown>>

LoopUnmark(p, g) ==
  /\ loopPc[p][g] = "unmarking"
  /\ presence' = [presence EXCEPT ![p] = FALSE]
  /\ LoopGoto(p, g, LoopPark)
  /\ UNCHANGED <<store, allowed, sessions, tasks, loopConn, aborted, handlerPc,
                 connVars, online, opVars, shutdown>>

\* The backoff timer fires.
LoopWake(p, g) ==
  /\ loopPc[p][g] = "sleep"
  /\ ~aborted[p][g]
  /\ LoopGoto(p, g, "check")
  /\ UNCHANGED <<store, allowed, presence, sessions, tasks, loopConn, aborted,
                 handlerPc, connVars, online, opVars, shutdown>>

\* An aborted task is dropped at an await point, with the handle it holds.
LoopDrop(p, g) ==
  /\ loopPc[p][g] \in LoopAwaits \cup {"finished"}
  /\ aborted[p][g]
  /\ LoopGoto(p, g, "free")
  /\ loopConn' = [loopConn EXCEPT ![p][g] = None]
  /\ aborted' = [aborted EXCEPT ![p][g] = FALSE]
  /\ UNCHANGED <<store, allowed, presence, sessions, tasks, handlerPc, connVars,
                 online, opVars, shutdown>>

------------------------------------------------------------------------------
(* Inbound control connections: handle_paired_peer_connection               *)

HandlerGoto(c, pc) == handlerPc' = [handlerPc EXCEPT ![c] = pc]

\* The hook admits the peer and handle_connection finds it on the allowlist.
Accept(c, p) ==
  /\ p \in allowed
  /\ online[p]
  /\ shutdown # "done"
  /\ ~Held(c)
  /\ HandlerGoto(c, "inserting")
  /\ connPeer' = [connPeer EXCEPT ![c] = p]
  /\ connUp' = [connUp EXCEPT ![c] = TRUE]
  /\ UNCHANGED <<store, allowed, presence, sessions, tasks, loopVars, online,
                 opVars, shutdown>>

\* register_inbound
HandlerInsert(c) ==
  /\ handlerPc[c] = "inserting"
  /\ sessions' = [sessions EXCEPT ![connPeer[c]] = c]
  /\ HandlerGoto(c, "marking")
  /\ UNCHANGED <<store, allowed, presence, tasks, loopVars, connVars, online,
                 opVars, shutdown>>

HandlerMark(c) ==
  /\ handlerPc[c] = "marking"
  /\ presence' = [presence EXCEPT ![connPeer[c]] = TRUE]
  /\ HandlerGoto(c, "serving")
  /\ UNCHANGED <<store, allowed, sessions, tasks, loopVars, connVars, online,
                 opVars, shutdown>>

\* A Recognition is read; once verified: touch and presence.
HandlerRecognition(c) ==
  /\ handlerPc[c] = "serving"
  /\ connUp[c]
  /\ HandlerGoto(c, "recognised")
  /\ UNCHANGED <<store, allowed, presence, sessions, tasks, loopVars, connVars,
                 online, opVars, shutdown>>

HandlerRecognised(c) ==
  /\ handlerPc[c] = "recognised"
  /\ presence' = [presence EXCEPT ![connPeer[c]] = TRUE]
  /\ HandlerGoto(c, "serving")
  /\ UNCHANGED <<store, allowed, sessions, tasks, loopVars, connVars, online,
                 opVars, shutdown>>

\* A verified Forget: mark_unpaired_remotely; an unknown device changes nothing
\* and the connection is closed all the same.
HandlerForget(c) ==
  /\ handlerPc[c] = "serving"
  /\ connUp[c]
  /\ LET p == connPeer[c] IN
       IF store[p] = "none"
       THEN /\ HandlerGoto(c, "unpair_close")
            /\ UNCHANGED store
       ELSE /\ HandlerGoto(c, "unpair_access")
            /\ store' = [store EXCEPT ![p] = "UnpairedRemotely"]
  /\ UNCHANGED <<allowed, presence, sessions, tasks, loopVars, connVars, online,
                 opVars, shutdown>>

HandlerForgetAccess(c) ==
  /\ handlerPc[c] = "unpair_access"
  /\ allowed' = allowed \ {connPeer[c]}
  /\ presence' = [presence EXCEPT ![connPeer[c]] = FALSE]
  /\ HandlerGoto(c, "unpair_task")
  /\ UNCHANGED <<store, sessions, tasks, loopVars, connVars, online, opVars,
                 shutdown>>

\* Mutant of ForgetTask: the handle is dropped, which detaches the loop.
ForgetTask_Detached(p) ==
  /\ tasks' = [tasks EXCEPT ![p] = None]
  /\ UNCHANGED aborted

\* PairedConnectionManager::forget: drop the handle from the map and abort it.
\* A finished task is gone with its handle.
ForgetTask(p) ==
  /\ tasks' = [tasks EXCEPT ![p] = None]
  /\ aborted' = [aborted EXCEPT ![p] =
                   [g \in Gens |-> @[g] \/ g = tasks[p]]]

HandlerForgetTask(c) ==
  /\ handlerPc[c] = "unpair_task"
  /\ ForgetTask(connPeer[c])
  /\ HandlerGoto(c, "unpair_session")
  /\ UNCHANGED <<store, allowed, presence, sessions, loopPc, loopConn, connVars,
                 online, opVars, shutdown>>

HandlerForgetSession(c) ==
  /\ handlerPc[c] = "unpair_session"
  /\ sessions' = [sessions EXCEPT ![connPeer[c]] = None]
  /\ HandlerGoto(c, IF sessions[connPeer[c]] # None
                    THEN "unpair_unmark" ELSE "unpair_close")
  /\ UNCHANGED <<store, allowed, presence, tasks, loopVars, connVars, online,
                 opVars, shutdown>>

\* Presence if there was an entry, device-unpaired, then conn.close.
HandlerForgetClose(c) ==
  /\ handlerPc[c] \in {"unpair_unmark", "unpair_close"}
  /\ presence' = [presence EXCEPT ![connPeer[c]] =
                    @ /\ handlerPc[c] # "unpair_unmark"]
  /\ connUp' = [connUp EXCEPT ![c] = FALSE]
  /\ HandlerGoto(c, "removing")
  /\ UNCHANGED <<store, allowed, sessions, tasks, loopVars, connPeer, online,
                 opVars, shutdown>>

\* accept_bi fails on a closed connection; unregister_inbound follows.
HandlerClosed(c) ==
  /\ handlerPc[c] = "serving"
  /\ ~connUp[c]
  /\ HandlerGoto(c, "removing")
  /\ UNCHANGED <<store, allowed, presence, sessions, tasks, loopVars, connVars,
                 online, opVars, shutdown>>

HandlerRemove(c) ==
  /\ handlerPc[c] = "removing"
  /\ sessions' = [sessions EXCEPT ![connPeer[c]] = None]
  /\ HandlerGoto(c, IF sessions[connPeer[c]] # None THEN "unmarking" ELSE "free")
  /\ UNCHANGED <<store, allowed, presence, tasks, loopVars, connVars, online,
                 opVars, shutdown>>

HandlerUnmark(c) ==
  /\ handlerPc[c] = "unmarking"
  /\ presence' = [presence EXCEPT ![connPeer[c]] = FALSE]
  /\ HandlerGoto(c, "free")
  /\ UNCHANGED <<store, allowed, sessions, tasks, loopVars, connVars, online,
                 opVars, shutdown>>

------------------------------------------------------------------------------
(* Operations of the node: pairing, refresh, forget, invite, shutdown       *)

OpGoto(a, pc) == opPc' = [opPc EXCEPT ![a] = pc]

\* A completed pairing, as host or as joiner: remember(Active) ...
Pair(a, p) ==
  /\ opPc[a] = "idle"
  /\ online[p]
  /\ shutdown = "no"
  /\ store' = [store EXCEPT ![p] = "Active"]
  /\ opPeer' = [opPeer EXCEPT ![a] = p]
  /\ OpGoto(a, "allow")
  /\ UNCHANGED <<allowed, presence, sessions, tasks, loopVars, handlerPc,
                 connVars, online, snapshot, shutdown>>

\* ... then allow_peer, then refresh.
Allow(a) ==
  /\ opPc[a] = "allow"
  /\ allowed' = allowed \cup {opPeer[a]}
  /\ OpGoto(a, "list")
  /\ UNCHANGED <<store, presence, sessions, tasks, loopVars, handlerPc, connVars,
                 online, opPeer, snapshot, shutdown>>

\* run_supervisor: every 30 seconds, until shutdown aborts it.
SupervisorTick ==
  /\ opPc[Supervisor] = "idle"
  /\ shutdown = "no"
  /\ OpGoto(Supervisor, "list")
  /\ UNCHANGED <<store, allowed, presence, sessions, tasks, loopVars, handlerPc,
                 connVars, online, opPeer, snapshot, shutdown>>

\* refresh reads the store before it waits for the tasks lock.
RefreshList(a) ==
  /\ opPc[a] = "list"
  /\ snapshot' = [snapshot EXCEPT ![a] = {p \in Peers : is_connectable(store[p])}]
  /\ OpGoto(a, "spawn")
  /\ UNCHANGED <<store, allowed, presence, sessions, tasks, loopVars, handlerPc,
                 connVars, online, opPeer, shutdown>>

FreeGens(p) == {g \in Gens : loopPc[p][g] = "free"}

\* Mutant of Retained: keys of devices that are gone are kept.
Retained_All(p, active) == tasks[p]

\* refresh under the tasks lock: keys that are not connectable are aborted and
\* removed, and a connectable device without a key gets a new loop.  A key
\* counts whether or not its task is still running.
Retained(p, active) == IF p \in active THEN tasks[p] ELSE None

ToSpawn(active) == {p \in active : tasks[p] = None}

RefreshSpawn(a) ==
  /\ opPc[a] = "spawn"
  /\ \A p \in ToSpawn(snapshot[a]) : FreeGens(p) # {}
  /\ LET active == snapshot[a]
         gen(p) == CHOOSE g \in Gens : loopPc[p][g] = "free"
         spawn == ToSpawn(active)
     IN /\ tasks' = [p \in Peers |-> IF p \in spawn THEN gen(p)
                                     ELSE Retained(p, active)]
        /\ aborted' = [p \in Peers |-> [g \in Gens |->
                         aborted[p][g] \/ (p \notin active /\ tasks[p] = g)]]
        /\ loopPc' = [p \in Peers |-> [g \in Gens |->
                        IF p \in spawn /\ g = gen(p) THEN "check"
                        ELSE loopPc[p][g]]]
  /\ snapshot' = [snapshot EXCEPT ![a] = {}]
  /\ opPeer' = [opPeer EXCEPT ![a] = None]
  /\ OpGoto(a, "idle")
  /\ UNCHANGED <<store, allowed, presence, sessions, loopConn, handlerPc,
                 connVars, online, shutdown>>

\* forget_paired, called from the device list: the allowlist first ...
Forget(a, p) ==
  /\ opPc[a] = "idle"
  /\ store[p] # "none"
  /\ shutdown = "no"
  /\ allowed' = allowed \ {p}
  /\ opPeer' = [opPeer EXCEPT ![a] = p]
  /\ OpGoto(a, "forget_store")
  /\ UNCHANGED <<store, presence, sessions, tasks, loopVars, handlerPc, connVars,
                 online, snapshot, shutdown>>

\* ... the file ...
ForgetStore(a) ==
  /\ opPc[a] = "forget_store"
  /\ store' = [store EXCEPT ![opPeer[a]] = "none"]
  /\ OpGoto(a, "forget_task")
  /\ UNCHANGED <<allowed, presence, sessions, tasks, loopVars, handlerPc,
                 connVars, online, opPeer, snapshot, shutdown>>

\* ... the loop ...
ForgetTaskOp(a) ==
  /\ opPc[a] = "forget_task"
  /\ ForgetTask(opPeer[a])
  /\ OpGoto(a, "forget_session")
  /\ UNCHANGED <<store, allowed, presence, sessions, loopPc, loopConn, handlerPc,
                 connVars, online, opPeer, snapshot, shutdown>>

\* ... the session entry ...
ForgetSession(a) ==
  /\ opPc[a] = "forget_session"
  /\ sessions' = [sessions EXCEPT ![opPeer[a]] = None]
  /\ OpGoto(a, "forget_presence")
  /\ UNCHANGED <<store, allowed, presence, tasks, loopVars, handlerPc, connVars,
                 online, opPeer, snapshot, shutdown>>

\* ... and presence, once in remove_session if there was an entry and once more
\* right after it whatever there was: nobody reads it in between.
ForgetPresence(a) ==
  /\ opPc[a] = "forget_presence"
  /\ presence' = [presence EXCEPT ![opPeer[a]] = FALSE]
  /\ opPeer' = [opPeer EXCEPT ![a] = None]
  /\ OpGoto(a, "idle")
  /\ UNCHANGED <<store, allowed, sessions, tasks, loopVars, handlerPc, connVars,
                 online, snapshot, shutdown>>

\* invite_paired_device for a device without a session; with one, the invite
\* is written to it and nothing else happens.
Invite(a, p) ==
  /\ opPc[a] = "idle"
  /\ p \in allowed
  /\ sessions[p] = None
  /\ shutdown = "no"
  /\ opPeer' = [opPeer EXCEPT ![a] = p]
  /\ OpGoto(a, "invite")
  /\ UNCHANGED <<store, allowed, presence, sessions, tasks, loopVars, handlerPc,
                 connVars, online, snapshot, shutdown>>

\* No session came in time and the device is dialled: an answer ...
InviteConnect(a) ==
  /\ opPc[a] = "invite"
  /\ online[opPeer[a]]
  /\ shutdown # "done"
  /\ OpGoto(a, "invite_mark")
  /\ UNCHANGED <<store, allowed, presence, sessions, tasks, loopVars, handlerPc,
                 connVars, online, opPeer, snapshot, shutdown>>

\* ... marks it online ...
InviteMark(a) ==
  /\ opPc[a] = "invite_mark"
  /\ presence' = [presence EXCEPT ![opPeer[a]] = TRUE]
  /\ opPeer' = [opPeer EXCEPT ![a] = None]
  /\ OpGoto(a, "idle")
  /\ UNCHANGED <<store, allowed, sessions, tasks, loopVars, handlerPc, connVars,
                 online, snapshot, shutdown>>

\* ... and a session that came after all, or no answer, changes nothing.
InviteOver(a) ==
  /\ opPc[a] = "invite"
  /\ opPeer' = [opPeer EXCEPT ![a] = None]
  /\ OpGoto(a, "idle")
  /\ UNCHANGED <<store, allowed, presence, sessions, tasks, loopVars, handlerPc,
                 connVars, online, snapshot, shutdown>>

\* NodeService::shutdown: the supervisor is aborted, which stops its refresh if
\* it waits and not if it runs, and the flag is set ...
ShutdownFlag ==
  /\ MayShutdown
  /\ shutdown = "no"
  /\ shutdown' = "flag"
  /\ \/ /\ OpGoto(Supervisor, "idle")
        /\ snapshot' = [snapshot EXCEPT ![Supervisor] = {}]
     \/ UNCHANGED <<opPc, snapshot>>
  /\ UNCHANGED <<store, allowed, presence, sessions, tasks, loopVars, handlerPc,
                 connVars, online, opPeer>>

\* ... then every task is aborted, the sessions cleared, the endpoint closed.
ShutdownDrain ==
  /\ shutdown = "flag"
  /\ shutdown' = "done"
  /\ tasks' = [p \in Peers |-> None]
  /\ aborted' = [p \in Peers |-> [g \in Gens |->
                   aborted[p][g] \/ tasks[p] = g]]
  /\ sessions' = [p \in Peers |-> None]
  /\ connUp' = [c \in Conns |-> FALSE]
  /\ UNCHANGED <<store, allowed, presence, loopPc, loopConn, handlerPc, connPeer,
                 online, opVars>>

------------------------------------------------------------------------------
(* The network and the other devices                                        *)

\* A connection ends: lost, closed or refused by the other side.
ConnLost(c) ==
  /\ Live(c)
  /\ connUp' = [connUp EXCEPT ![c] = FALSE]
  /\ UNCHANGED <<store, allowed, presence, sessions, tasks, loopVars, handlerPc,
                 connPeer, online, opVars, shutdown>>

\* A peer's node starts, or goes away with all its connections.
PeerUp(p) ==
  /\ ~online[p]
  /\ online' = [online EXCEPT ![p] = TRUE]
  /\ UNCHANGED <<store, allowed, presence, sessions, tasks, loopVars, handlerPc,
                 connVars, opVars, shutdown>>

PeerDown(p) ==
  /\ online[p]
  /\ online' = [online EXCEPT ![p] = FALSE]
  /\ connUp' = [c \in Conns |-> connUp[c] /\ connPeer[c] # p]
  /\ UNCHANGED <<store, allowed, presence, sessions, tasks, loopVars, handlerPc,
                 connPeer, opVars, shutdown>>

------------------------------------------------------------------------------
LoopStep(p, g) ==
  \/ LoopCheck(p, g)
  \/ \E c \in Conns : LoopConnect(p, g, c)
  \/ LoopConnectErr(p, g)
  \/ LoopInsert(p, g)
  \/ LoopMark(p, g)
  \/ LoopClosed(p, g)
  \/ LoopRemove(p, g)
  \/ LoopUnmark(p, g)
  \/ LoopWake(p, g)
  \/ LoopDrop(p, g)

\* What a handler does by itself once its peer has done its part.
HandlerStep(c) ==
  \/ HandlerInsert(c)
  \/ HandlerMark(c)
  \/ HandlerRecognised(c)
  \/ HandlerForgetAccess(c)
  \/ HandlerForgetTask(c)
  \/ HandlerForgetSession(c)
  \/ HandlerForgetClose(c)
  \/ HandlerClosed(c)
  \/ HandlerRemove(c)
  \/ HandlerUnmark(c)

\* An operation that has begun runs to its end.
OpStep(a) ==
  \/ Allow(a)
  \/ RefreshList(a)
  \/ RefreshSpawn(a)
  \/ ForgetStore(a)
  \/ ForgetTaskOp(a)
  \/ ForgetSession(a)
  \/ ForgetPresence(a)
  \/ InviteConnect(a)
  \/ InviteMark(a)
  \/ InviteOver(a)

\* What users, other devices and the network may do, and need not.
Environment ==
  \/ \E c \in Conns, p \in Peers : Accept(c, p)
  \/ \E c \in Conns : HandlerRecognition(c) \/ HandlerForget(c) \/ ConnLost(c)
  \/ \E p \in Peers, g \in Gens : LoopRecognition(p, g)
  \/ \E a \in Agents, p \in Peers : Pair(a, p) \/ Forget(a, p) \/ Invite(a, p)
  \/ \E p \in Peers : PeerUp(p) \/ PeerDown(p)
  \/ ShutdownFlag
  \/ ShutdownDrain

Next ==
  \/ \E p \in Peers, g \in Gens : LoopStep(p, g)
  \/ \E c \in Conns : HandlerStep(c)
  \/ \E a \in Refreshers : OpStep(a)
  \/ SupervisorTick
  \/ Environment

Spec == Init /\ [][Next]_vars

\* Tasks the runtime has been given are polled, started operations finish, the
\* supervisor's timer keeps firing.  Nothing is assumed of users or peers.
Fairness ==
  /\ \A p \in Peers, g \in Gens : WF_vars(LoopStep(p, g))
  /\ \A c \in Conns : WF_vars(HandlerStep(c))
  /\ \A a \in Refreshers : WF_vars(OpStep(a))
  /\ WF_vars(SupervisorTick)

FairSpec == Spec /\ Fairness

------------------------------------------------------------------------------
(* Properties                                                               *)

\* The variables have their types, and an operation that is past its first step
\* knows the device it is about.
TypeOK ==
  /\ store \in [Peers -> Status]
  /\ allowed \subseteq Peers
  /\ presence \in [Peers -> BOOLEAN]
  /\ sessions \in [Peers -> Conns \cup {None}]
  /\ tasks \in [Peers -> Gens \cup {None}]
  /\ loopPc \in [Peers -> [Gens -> LoopPcs]]
  /\ loopConn \in [Peers -> [Gens -> Conns \cup {None}]]
  /\ aborted \in [Peers -> [Gens -> BOOLEAN]]
  /\ handlerPc \in [Conns -> HandlerPcs]
  /\ connPeer \in [Conns -> Peers \cup {None}]
  /\ connUp \in [Conns -> BOOLEAN]
  /\ online \in [Peers -> BOOLEAN]
  /\ opPc \in [Refreshers -> OpPcs]
  /\ opPeer \in [Refreshers -> Peers \cup {None}]
  /\ \A a \in Refreshers : opPc[a] \notin {"idle", "list", "spawn"} => opPeer[a] \in Peers
  /\ snapshot \in [Refreshers -> SUBSET Peers]
  /\ shutdown \in {"no", "flag", "done"}

Running(p, g) == loopPc[p][g] \notin {"free", "finished"} /\ ~aborted[p][g]

LoopAlive(p) == \E g \in Gens : Running(p, g)

\* Every loop that still owes work and was not aborted is the one whose handle
\* the tasks map keeps, so that forget, refresh and shutdown can abort it.
LoopIsKept ==
  \A p \in Peers, g \in Gens : Running(p, g) => tasks[p] = g

\* Two connect loops never serve the same device: whatever refreshes, pairings
\* and forgets overlap, every loop that has not been aborted is the one whose
\* handle the tasks map holds.
OneLoopPerPeer ==
  \A p \in Peers : \A g, h \in Gens :
    Running(p, g) /\ Running(p, h) => g = h

\* Once shutdown has drained the tasks, no loop that is left unaborted dials a
\* device or registers a session, not even one that a late refresh spawned.
ShutdownStopsDialing ==
  shutdown = "done" =>
    \A p \in Peers, g \in Gens :
      Running(p, g) => loopPc[p][g] = "check"

\* A device that stays forgotten ends up with no loop and no entry in the tasks
\* map, also when a refresh that read the store before the forget spawned one
\* after it: device_still_active stops the loop, the supervisor drops the key.
ForgottenGoesQuiet ==
  \A p \in Peers :
    <>[](store[p] = "none")
      => <>[](tasks[p] = None /\ \A g \in Gens : loopPc[p][g] = "free")

\* A device that stays unreachable is in the end shown offline, whatever left
\* it marked online (a direct invite, a Recognition handled after the session
\* entry was gone), as long as its connect loop runs.
OfflineIsShown ==
  \A p \in Peers :
    <>[](~online[p] /\ LoopAlive(p)) => <>[](~presence[p])

\* "Maintains persistent outbound control connections to paired devices": a
\* device that stays paired has a connect loop again and again.
PairedDeviceIsDialled ==
  \A p \in Peers : <>[](is_active(store[p])) => []<>LoopAlive(p)
==============================================================================
