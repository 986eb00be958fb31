----------------------------- MODULE PairingHost -----------------------------
(***************************************************************************)
(* The pairing window of a node (engine/native/src/node.rs): the commands  *)
(* start_pairing_host and stop_pairing_host, the task that ends a timed    *)
(* window, and the host side of pairing sessions (handle_connection).      *)
(*                                                                         *)
(* access.pairing_host_open is what admits strangers; the AtomicBool of    *)
(* the same name is written with it and never read, and is left out.       *)
(*                                                                         *)
(* As in PairedConnections a step ends where another thread can see its    *)
(* effect, and abort stops a task at an await only.                        *)
(***************************************************************************)
EXTENDS Naturals, FiniteSets

CONSTANTS
  Peers,      \* endpoint ids of devices that may join
  Commands,   \* window commands that may run at the same time
  Timers,     \* slots for expire tasks, reused once done
  None        \* no timer

ASSUME TimersAssumption == None \notin Timers

VARIABLES
  open,        \* AccessState.pairing_host_open
  persistent,  \* pairing_host_persistent
  expire,      \* pairing_expire_task: the timer whose handle is kept, or None
  timerPc,     \* where each expire task is
  timerAbort,  \* abort was called on the task
  cmdPc,       \* where each command is
  cmdTtl,      \* does the start_pairing_host under way have a ttl
  cmdTimer,    \* the expire task it has spawned and not yet kept the handle of
  session,     \* where the host side of each peer's session is
  paired,      \* AccessState.allowed
  asked,       \* history: with and without ttl, the starts so far
  opened,      \* history: was the window last opened with a ttl
  joined       \* history: peers that paired since the window last opened

history == <<asked, opened, joined>>
vars == <<open, persistent, expire, timerPc, timerAbort, cmdPc, cmdTtl, cmdTimer,
          session, paired, history>>
windowVars == <<open, persistent>>
timerVars  == <<expire, timerPc, timerAbort>>
cmdVars    == <<cmdPc, cmdTtl, cmdTimer>>
cmdLocals  == <<cmdTtl, cmdTimer>>

CmdPcs == {"idle", "stop_take", "stop_clear", "stop_close",
           "start_take", "start_clear", "start_close",
           "start_persistent", "start_open", "start_spawn", "start_keep"}
TimerPcs == {"free", "sleep", "fired", "closing", "emit"}
SessionPcs == {"none", "admitted", "talking", "completed", "closing", "hold"}

Init ==
  /\ open = FALSE
  /\ persistent = FALSE
  /\ expire = None
  /\ timerPc = [t \in Timers |-> "free"]
  /\ timerAbort = [t \in Timers |-> FALSE]
  /\ cmdPc = [k \in Commands |-> "idle"]
  /\ cmdTtl = [k \in Commands |-> FALSE]
  /\ cmdTimer = [k \in Commands |-> None]
  /\ session = [p \in Peers |-> "none"]
  /\ paired = {}
  /\ asked = {}
  /\ opened = FALSE
  /\ joined = {}

------------------------------------------------------------------------------
(* Commands                                                                 *)

CmdGoto(k, pc) == cmdPc' = [cmdPc EXCEPT ![k] = pc]

\* stop_pairing_host, also called by reconfigure_relay, shutdown, stop_sharing.
Stop(k) ==
  /\ cmdPc[k] = "idle"
  /\ CmdGoto(k, "stop_take")
  /\ UNCHANGED <<windowVars, timerVars, cmdLocals, session, paired, history>>

\* start_pairing_host begins with a stop_pairing_host of its own.
Start(k, ttl) ==
  /\ cmdPc[k] = "idle"
  /\ CmdGoto(k, "start_take")
  /\ cmdTtl' = [cmdTtl EXCEPT ![k] = ttl]
  /\ asked' = asked \cup {ttl}
  /\ UNCHANGED <<windowVars, timerVars, cmdTimer, session, paired, opened, joined>>

\* The kept handle is taken and its task aborted, which does nothing to one that is done.
StopTake(k) ==
  /\ cmdPc[k] \in {"stop_take", "start_take"}
  /\ expire' = None
  /\ timerAbort' = [t \in Timers |-> timerAbort[t] \/ (t = expire /\ timerPc[t] # "free")]
  /\ CmdGoto(k, IF cmdPc[k] = "stop_take" THEN "stop_clear" ELSE "start_clear")
  /\ UNCHANGED <<windowVars, timerPc, cmdLocals, session, paired, history>>

StopClear(k) ==
  /\ cmdPc[k] \in {"stop_clear", "start_clear"}
  /\ persistent' = FALSE
  /\ CmdGoto(k, IF cmdPc[k] = "stop_clear" THEN "stop_close" ELSE "start_close")
  /\ UNCHANGED <<open, timerVars, cmdLocals, session, paired, history>>

\* Mutant of StopClose: the window is left as it is.
StopClose_LeftOpen(k) ==
  /\ cmdPc[k] \in {"stop_close", "start_close"}
  /\ CmdGoto(k, IF cmdPc[k] = "stop_close" THEN "idle" ELSE "start_persistent")
  /\ UNCHANGED <<windowVars, timerVars, cmdLocals, session, paired, history>>

StopClose(k) ==
  /\ cmdPc[k] \in {"stop_close", "start_close"}
  /\ open' = FALSE
  /\ CmdGoto(k, IF cmdPc[k] = "stop_close" THEN "idle" ELSE "start_persistent")
  /\ UNCHANGED <<persistent, timerVars, cmdLocals, session, paired, history>>

\* pairing_host_is_persistent(ttl)
StartPersistent(k) ==
  /\ cmdPc[k] = "start_persistent"
  /\ persistent' = ~cmdTtl[k]
  /\ CmdGoto(k, "start_open")
  /\ UNCHANGED <<open, timerVars, cmdLocals, session, paired, history>>

StartOpen(k) ==
  /\ cmdPc[k] = "start_open"
  /\ open' = TRUE
  /\ joined' = {}
  /\ opened' = cmdTtl[k]
  /\ CmdGoto(k, IF cmdTtl[k] THEN "start_spawn" ELSE "idle")
  /\ UNCHANGED <<persistent, timerVars, cmdLocals, session, paired, asked>>

\* The expire task of a timed window is spawned ...
StartSpawn(k, t) ==
  /\ cmdPc[k] = "start_spawn"
  /\ timerPc[t] = "free" /\ t # expire
  /\ \A c \in Commands : cmdPc[c] = "start_keep" => cmdTimer[c] # t
  /\ timerPc' = [timerPc EXCEPT ![t] = "sleep"]
  /\ cmdTimer' = [cmdTimer EXCEPT ![k] = t]
  /\ CmdGoto(k, "start_keep")
  /\ UNCHANGED <<windowVars, expire, timerAbort, cmdTtl, session, paired, history>>

\* ... and, once the lock is had, its handle replaces whatever is kept.
StartKeep(k) ==
  /\ cmdPc[k] = "start_keep"
  /\ expire' = cmdTimer[k]
  /\ cmdTimer' = [cmdTimer EXCEPT ![k] = None]
  /\ cmdTtl' = [cmdTtl EXCEPT ![k] = FALSE]
  /\ CmdGoto(k, "idle")
  /\ UNCHANGED <<windowVars, timerPc, timerAbort, session, paired, history>>

------------------------------------------------------------------------------
(* The expire task: sleep(ttl), persistent = false, open = false, the event *)

TimerGoto(t, pc) == timerPc' = [timerPc EXCEPT ![t] = pc]

TimerFires(t) ==
  /\ timerPc[t] = "sleep"
  /\ ~timerAbort[t]
  /\ TimerGoto(t, "fired")
  /\ UNCHANGED <<windowVars, expire, timerAbort, cmdVars, session, paired, history>>

TimerClear(t) ==
  /\ timerPc[t] = "fired"
  /\ persistent' = FALSE
  /\ TimerGoto(t, "closing")
  /\ UNCHANGED <<open, expire, timerAbort, cmdVars, session, paired, history>>

\* Mutant of TimerClose: only the persistent flag is cleared.
TimerClose_LeftOpen(t) ==
  /\ timerPc[t] = "closing"
  /\ TimerGoto(t, "emit")
  /\ UNCHANGED <<windowVars, expire, timerAbort, cmdVars, session, paired, history>>

\* access.write().await: an abort may take effect here, or come too late.
TimerClose(t) ==
  /\ timerPc[t] = "closing"
  /\ open' = FALSE
  /\ TimerGoto(t, "emit")
  /\ UNCHANGED <<persistent, expire, timerAbort, cmdVars, session, paired, history>>

\* pairing-host-expired; the handle in the slot is not cleared.
TimerEmit(t) ==
  /\ timerPc[t] = "emit"
  /\ TimerGoto(t, "free")
  /\ timerAbort' = [timerAbort EXCEPT ![t] = FALSE]
  /\ UNCHANGED <<windowVars, expire, cmdVars, session, paired, history>>

TimerDrop(t) ==
  /\ timerPc[t] \in {"sleep", "closing"}
  /\ timerAbort[t]
  /\ TimerGoto(t, "free")
  /\ timerAbort' = [timerAbort EXCEPT ![t] = FALSE]
  /\ UNCHANGED <<windowVars, expire, cmdVars, session, paired, history>>

------------------------------------------------------------------------------
(* handle_connection for a peer that is not on the allowlist                *)

SessionGoto(p, pc) == session' = [session EXCEPT ![p] = pc]

\* PairedOnlyHook::after_handshake
Admit(p) ==
  /\ session[p] = "none"
  /\ p \notin paired
  /\ open
  /\ SessionGoto(p, "admitted")
  /\ UNCHANGED <<windowVars, timerVars, cmdVars, paired, history>>

\* handle_connection looks at the window and the allowlist again.
Dispatch(p) ==
  /\ session[p] = "admitted"
  /\ SessionGoto(p, IF open /\ p \notin paired THEN "talking" ELSE "none")
  /\ UNCHANGED <<windowVars, timerVars, cmdVars, paired, history>>

\* The verified PairingInfo and the Remember vote have both been read:
\* remember, allow_peer, refresh, device-paired, and our vote is written.
Complete(p) ==
  /\ session[p] = "talking"
  /\ paired' = paired \cup {p}
  /\ joined' = joined \cup {p}
  /\ SessionGoto(p, "completed")
  /\ UNCHANGED <<windowVars, timerVars, cmdVars, asked, opened>>

\* The stream fails first.
Abandon(p) ==
  /\ session[p] = "talking"
  /\ SessionGoto(p, "none")
  /\ UNCHANGED <<windowVars, timerVars, cmdVars, paired, history>>

\* Mutant of LoadPersistent: the window survives every pairing.
LoadPersistent_Always(p) ==
  /\ session[p] = "completed"
  /\ SessionGoto(p, "hold")
  /\ UNCHANGED <<windowVars, timerVars, cmdVars, paired, history>>

\* A completed session loads pairing_host_persistent ...
LoadPersistent(p) ==
  /\ session[p] = "completed"
  /\ SessionGoto(p, IF persistent THEN "hold" ELSE "closing")
  /\ UNCHANGED <<windowVars, timerVars, cmdVars, paired, history>>

\* ... and closes the window if it was not persistent.
CloseWindow(p) ==
  /\ session[p] = "closing"
  /\ open' = FALSE
  /\ SessionGoto(p, "hold")
  /\ UNCHANGED <<persistent, timerVars, cmdVars, paired, history>>

\* The joiner disconnects, or 30 seconds pass.
EndSession(p) ==
  /\ session[p] = "hold"
  /\ SessionGoto(p, "none")
  /\ UNCHANGED <<windowVars, timerVars, cmdVars, paired, history>>

\* forget_paired takes a device off the allowlist.
Forget(p) ==
  /\ p \in paired
  /\ paired' = paired \ {p}
  /\ UNCHANGED <<windowVars, timerVars, cmdVars, session, history>>

------------------------------------------------------------------------------
CmdStep(k) ==
  \/ StopTake(k)
  \/ StopClear(k)
  \/ StopClose(k)
  \/ StartPersistent(k)
  \/ StartOpen(k)
  \/ \E t \in Timers : StartSpawn(k, t)
  \/ StartKeep(k)

TimerStep(t) ==
  \/ TimerFires(t)
  \/ TimerClear(t)
  \/ TimerClose(t)
  \/ TimerEmit(t)
  \/ TimerDrop(t)

SessionStep(p) ==
  \/ Dispatch(p)
  \/ LoadPersistent(p)
  \/ CloseWindow(p)
  \/ EndSession(p)

Environment ==
  \/ \E k \in Commands : Stop(k) \/ \E ttl \in BOOLEAN : Start(k, ttl)
  \/ \E p \in Peers : Admit(p) \/ Complete(p) \/ Abandon(p) \/ Forget(p)

Next ==
  \/ \E k \in Commands : CmdStep(k)
  \/ \E t \in Timers : TimerStep(t)
  \/ \E p \in Peers : SessionStep(p)
  \/ Environment

Spec == Init /\ [][Next]_vars

\* A command that has begun, a timer and a session that is not waiting for its
\* peer are driven by the runtime.
Fairness ==
  /\ \A k \in Commands : WF_vars(CmdStep(k))
  /\ \A t \in Timers : WF_vars(TimerStep(t))
  /\ \A p \in Peers : WF_vars(SessionStep(p))

FairSpec == Spec /\ Fairness

------------------------------------------------------------------------------
(* Properties                                                               *)

\* The variables have their types, and only a start with a ttl is ever about to
\* spawn an expire task.
TypeOK ==
  /\ open \in BOOLEAN
  /\ persistent \in BOOLEAN
  /\ expire \in Timers \cup {None}
  /\ timerPc \in [Timers -> TimerPcs]
  /\ timerAbort \in [Timers -> BOOLEAN]
  /\ cmdPc \in [Commands -> CmdPcs]
  /\ cmdTtl \in [Commands -> BOOLEAN]
  /\ cmdTimer \in [Commands -> Timers \cup {None}]
  /\ \A k \in Commands : cmdPc[k] = "start_spawn" => cmdTtl[k]
  /\ session \in [Peers -> SessionPcs]
  /\ paired \subseteq Peers
  /\ asked \subseteq BOOLEAN
  /\ opened \in BOOLEAN
  /\ joined \subseteq Peers

\* An expire task that has not been aborted and has still to close the window.
Live(t) == timerPc[t] \in {"sleep", "fired", "closing"} /\ ~timerAbort[t]

\* A command that aborted an expire task and has still to close the window itself, or
\* has just opened it and is about to spawn the task.
Attends(k) ==
  cmdPc[k] \in {"stop_clear", "stop_close", "start_clear", "start_close", "start_spawn"}

\* A window that is open with a ttl always has somebody who will close it, however
\* starts and stops overlap, take each other's handles or overwrite them.
TimedWindowIsWatched ==
  open /\ opened => (\E t \in Timers : Live(t)) \/ \E k \in Commands : Attends(k)

\* A window that was opened with a ttl comes to an end, unless one without is
\* opened over it, however starts and stops overlap: a timer whose handle is
\* overwritten still fires, and whoever aborts one closes the window himself.
TimedWindowCloses ==
  open /\ opened ~> ~open \/ ~opened

\* As long as all windows have a ttl (the page opens no others), a session that paired
\* has closed the window it paired in when it goes on to wait for the joiner, whatever
\* commands, timers and other sessions did meanwhile.  Sessions that were admitted
\* before may still pair after that.
PairingClosesWindow ==
  asked \subseteq {TRUE} => \A p \in joined : session[p] = "hold" => ~open
==============================================================================
