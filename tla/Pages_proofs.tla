----------------------------- MODULE Pages_proofs ------------------------------
(***************************************************************************)
(* The components of MCPages, for any values of their constants.           *)
(*                                                                         *)
(* The pairing window, for any number of commands, expire tasks and        *)
(* sessions at once.  Then the Explorer menu, the theme and the language,  *)
(* the selection of files, the progress of a transfer, the list of devices,*)
(* what a browser saves and the notes of a release, each with an invariant *)
(* of its own.                                                             *)
(***************************************************************************)
EXTENDS MCPages, SequenceTheorems, FiniteSetTheorems, WellFoundedInduction, TLAPS

------------------------------------------------------------------------------
(* The pairing window (PairingHost)                                         *)

\* An expire task that is done has no abort pending.
FreeIsUnaborted == \A t \in Timers : timerPc[t] = "free" => ~timerAbort[t]

\* A start under way is one of those asked for, and the persistent flag was set by one.
FlagWasAsked ==
  /\ persistent => FALSE \in asked
  /\ \A k \in Commands :
       cmdPc[k] \in {"start_take", "start_clear", "start_close", "start_persistent", "start_open"}
         => cmdTtl[k] \in asked

WindowInv ==
  /\ TypeOK /\ FreeIsUnaborted /\ FlagWasAsked
  /\ TimedWindowIsWatched /\ PairingClosesWindow

\* The node starts with a closed window.
LEMMA WindowInit == Init => WindowInv
<1> SUFFICES ASSUME Init PROVE WindowInv
  OBVIOUS
<1>1. TypeOK
  BY DEF Init, TypeOK, CmdPcs, TimerPcs, SessionPcs
<1>2. FreeIsUnaborted /\ FlagWasAsked
  BY DEF Init, FreeIsUnaborted, FlagWasAsked
<1>3. TimedWindowIsWatched /\ PairingClosesWindow
  BY DEF Init, TimedWindowIsWatched, PairingClosesWindow
<1> QED BY <1>1, <1>2, <1>3 DEF WindowInv

\* Types are kept by every step, however many commands overlap.
LEMMA TypeNext ==
  ASSUME TypeOK, [Next]_vars
  PROVE  TypeOK'
<1> USE TimersAssumption DEF windowVars, timerVars, cmdVars, cmdLocals, history
<1>1. ASSUME NEW k \in Commands, Stop(k)
      PROVE  TypeOK'
  BY <1>1 DEF TypeOK, CmdGoto, CmdPcs, TimerPcs, Stop
<1>2. ASSUME NEW k \in Commands, StopTake(k)
      PROVE  TypeOK'
  BY <1>2 DEF TypeOK, CmdGoto, CmdPcs, TimerPcs, StopTake
<1>3. ASSUME NEW k \in Commands, StopClear(k)
      PROVE  TypeOK'
  BY <1>3 DEF TypeOK, CmdGoto, CmdPcs, TimerPcs, StopClear
<1>4. ASSUME NEW k \in Commands, StopClose(k)
      PROVE  TypeOK'
  BY <1>4 DEF TypeOK, CmdGoto, CmdPcs, TimerPcs, StopClose
<1>5. ASSUME NEW k \in Commands, StartPersistent(k)
      PROVE  TypeOK'
  BY <1>5 DEF TypeOK, CmdGoto, CmdPcs, TimerPcs, StartPersistent
<1>6. ASSUME NEW k \in Commands, StartOpen(k)
      PROVE  TypeOK'
  BY <1>6 DEF TypeOK, CmdGoto, CmdPcs, TimerPcs, StartOpen
<1>7. ASSUME NEW k \in Commands, NEW ttl \in BOOLEAN, Start(k, ttl)
      PROVE  TypeOK'
  BY <1>7 DEF TypeOK, CmdGoto, CmdPcs, TimerPcs, Start
<1>8. ASSUME NEW k \in Commands, NEW t \in Timers, StartSpawn(k, t)
      PROVE  TypeOK'
  BY <1>8 DEF TypeOK, CmdGoto, CmdPcs, TimerPcs, StartSpawn
<1>9. ASSUME NEW k \in Commands, StartKeep(k)
      PROVE  TypeOK'
  BY <1>9 DEF TypeOK, CmdGoto, CmdPcs, TimerPcs, StartKeep
<1>10. ASSUME NEW t \in Timers, TimerFires(t)
      PROVE  TypeOK'
  BY <1>10 DEF TypeOK, TimerGoto, TimerPcs, TimerFires
<1>11. ASSUME NEW t \in Timers, TimerClear(t)
      PROVE  TypeOK'
  BY <1>11 DEF TypeOK, TimerGoto, TimerPcs, TimerClear
<1>12. ASSUME NEW t \in Timers, TimerClose(t)
      PROVE  TypeOK'
  BY <1>12 DEF TypeOK, TimerGoto, TimerPcs, TimerClose
<1>13. ASSUME NEW t \in Timers, TimerEmit(t)
      PROVE  TypeOK'
  BY <1>13 DEF TypeOK, TimerGoto, TimerPcs, TimerEmit
<1>14. ASSUME NEW t \in Timers, TimerDrop(t)
      PROVE  TypeOK'
  BY <1>14 DEF TypeOK, TimerGoto, TimerPcs, TimerDrop
<1>15. ASSUME NEW p \in Peers, Dispatch(p)
      PROVE  TypeOK'
  BY <1>15 DEF TypeOK, SessionGoto, SessionPcs, Dispatch
<1>16. ASSUME NEW p \in Peers, LoadPersistent(p)
      PROVE  TypeOK'
  BY <1>16 DEF TypeOK, SessionGoto, SessionPcs, LoadPersistent
<1>17. ASSUME NEW p \in Peers, CloseWindow(p)
      PROVE  TypeOK'
  BY <1>17 DEF TypeOK, SessionGoto, SessionPcs, CloseWindow
<1>18. ASSUME NEW p \in Peers, EndSession(p)
      PROVE  TypeOK'
  BY <1>18 DEF TypeOK, SessionGoto, SessionPcs, EndSession
<1>19. ASSUME NEW p \in Peers, Admit(p)
      PROVE  TypeOK'
  BY <1>19 DEF TypeOK, SessionGoto, SessionPcs, Admit
<1>20. ASSUME NEW p \in Peers, Complete(p)
      PROVE  TypeOK'
  BY <1>20 DEF TypeOK, SessionGoto, SessionPcs, Complete
<1>21. ASSUME NEW p \in Peers, Abandon(p)
      PROVE  TypeOK'
  BY <1>21 DEF TypeOK, SessionGoto, SessionPcs, Abandon
<1>22. ASSUME NEW p \in Peers, Forget(p)
      PROVE  TypeOK'
  BY <1>22 DEF TypeOK, SessionGoto, SessionPcs, Forget
<1>23. CASE UNCHANGED vars
  BY <1>23 DEF TypeOK, vars
<1> QED
  BY <1>1, <1>2, <1>3, <1>4, <1>5, <1>6, <1>7, <1>8, <1>9, <1>10, <1>11, <1>12,
     <1>13, <1>14, <1>15, <1>16, <1>17, <1>18, <1>19, <1>20, <1>21, <1>22, <1>23
  DEF Next, Environment, CmdStep, TimerStep, SessionStep

\* A task is aborted only while it runs, and what ends it takes the mark away.
LEMMA FreeNext ==
  ASSUME TypeOK, FreeIsUnaborted, [Next]_vars
  PROVE  FreeIsUnaborted'
<1> USE TimersAssumption DEF windowVars, timerVars, cmdVars, cmdLocals, history
<1>1. ASSUME NEW k \in Commands, Stop(k)
      PROVE  FreeIsUnaborted'
  BY <1>1 DEF TypeOK, FreeIsUnaborted, CmdGoto, Stop
<1>2. ASSUME NEW k \in Commands, StopTake(k)
      PROVE  FreeIsUnaborted'
  BY <1>2 DEF TypeOK, FreeIsUnaborted, CmdGoto, StopTake
<1>3. ASSUME NEW k \in Commands, StopClear(k)
      PROVE  FreeIsUnaborted'
  BY <1>3 DEF TypeOK, FreeIsUnaborted, CmdGoto, StopClear
<1>4. ASSUME NEW k \in Commands, StopClose(k)
      PROVE  FreeIsUnaborted'
  BY <1>4 DEF TypeOK, FreeIsUnaborted, CmdGoto, StopClose
<1>5. ASSUME NEW k \in Commands, StartPersistent(k)
      PROVE  FreeIsUnaborted'
  BY <1>5 DEF TypeOK, FreeIsUnaborted, CmdGoto, StartPersistent
<1>6. ASSUME NEW k \in Commands, StartOpen(k)
      PROVE  FreeIsUnaborted'
  BY <1>6 DEF TypeOK, FreeIsUnaborted, CmdGoto, StartOpen
<1>7. ASSUME NEW k \in Commands, NEW ttl \in BOOLEAN, Start(k, ttl)
      PROVE  FreeIsUnaborted'
  BY <1>7 DEF TypeOK, FreeIsUnaborted, CmdGoto, Start
<1>8. ASSUME NEW k \in Commands, NEW t \in Timers, StartSpawn(k, t)
      PROVE  FreeIsUnaborted'
  BY <1>8 DEF TypeOK, FreeIsUnaborted, CmdGoto, StartSpawn
<1>9. ASSUME NEW k \in Commands, StartKeep(k)
      PROVE  FreeIsUnaborted'
  BY <1>9 DEF TypeOK, FreeIsUnaborted, CmdGoto, StartKeep
<1>10. ASSUME NEW t \in Timers, TimerFires(t)
      PROVE  FreeIsUnaborted'
  BY <1>10 DEF TypeOK, FreeIsUnaborted, TimerGoto, TimerFires
<1>11. ASSUME NEW t \in Timers, TimerClear(t)
      PROVE  FreeIsUnaborted'
  BY <1>11 DEF TypeOK, FreeIsUnaborted, TimerGoto, TimerClear
<1>12. ASSUME NEW t \in Timers, TimerClose(t)
      PROVE  FreeIsUnaborted'
  BY <1>12 DEF TypeOK, FreeIsUnaborted, TimerGoto, TimerClose
<1>13. ASSUME NEW t \in Timers, TimerEmit(t)
      PROVE  FreeIsUnaborted'
  BY <1>13 DEF TypeOK, FreeIsUnaborted, TimerGoto, TimerEmit
<1>14. ASSUME NEW t \in Timers, TimerDrop(t)
      PROVE  FreeIsUnaborted'
  BY <1>14 DEF TypeOK, FreeIsUnaborted, TimerGoto, TimerDrop
<1>15. ASSUME NEW p \in Peers, Dispatch(p)
      PROVE  FreeIsUnaborted'
  BY <1>15 DEF TypeOK, FreeIsUnaborted, SessionGoto, Dispatch
<1>16. ASSUME NEW p \in Peers, LoadPersistent(p)
      PROVE  FreeIsUnaborted'
  BY <1>16 DEF TypeOK, FreeIsUnaborted, SessionGoto, LoadPersistent
<1>17. ASSUME NEW p \in Peers, CloseWindow(p)
      PROVE  FreeIsUnaborted'
  BY <1>17 DEF TypeOK, FreeIsUnaborted, SessionGoto, CloseWindow
<1>18. ASSUME NEW p \in Peers, EndSession(p)
      PROVE  FreeIsUnaborted'
  BY <1>18 DEF TypeOK, FreeIsUnaborted, SessionGoto, EndSession
<1>19. ASSUME NEW p \in Peers, Admit(p)
      PROVE  FreeIsUnaborted'
  BY <1>19 DEF TypeOK, FreeIsUnaborted, SessionGoto, Admit
<1>20. ASSUME NEW p \in Peers, Complete(p)
      PROVE  FreeIsUnaborted'
  BY <1>20 DEF TypeOK, FreeIsUnaborted, SessionGoto, Complete
<1>21. ASSUME NEW p \in Peers, Abandon(p)
      PROVE  FreeIsUnaborted'
  BY <1>21 DEF TypeOK, FreeIsUnaborted, SessionGoto, Abandon
<1>22. ASSUME NEW p \in Peers, Forget(p)
      PROVE  FreeIsUnaborted'
  BY <1>22 DEF TypeOK, FreeIsUnaborted, SessionGoto, Forget
<1>23. CASE UNCHANGED vars
  BY <1>23 DEF FreeIsUnaborted, vars
<1> QED
  BY <1>1, <1>2, <1>3, <1>4, <1>5, <1>6, <1>7, <1>8, <1>9, <1>10, <1>11, <1>12,
     <1>13, <1>14, <1>15, <1>16, <1>17, <1>18, <1>19, <1>20, <1>21, <1>22, <1>23
  DEF Next, Environment, CmdStep, TimerStep, SessionStep

\* Only a start without ttl sets the persistent flag.
LEMMA AskedNext ==
  ASSUME TypeOK, FlagWasAsked, [Next]_vars
  PROVE  FlagWasAsked'
<1> USE TimersAssumption DEF windowVars, timerVars, cmdVars, cmdLocals, history
<1>1. ASSUME NEW k \in Commands, Stop(k)
      PROVE  FlagWasAsked'
  BY <1>1 DEF TypeOK, FlagWasAsked, CmdGoto, Stop
<1>2. ASSUME NEW k \in Commands, StopTake(k)
      PROVE  FlagWasAsked'
  BY <1>2 DEF TypeOK, FlagWasAsked, CmdGoto, StopTake
<1>3. ASSUME NEW k \in Commands, StopClear(k)
      PROVE  FlagWasAsked'
  BY <1>3 DEF TypeOK, FlagWasAsked, CmdGoto, StopClear
<1>4. ASSUME NEW k \in Commands, StopClose(k)
      PROVE  FlagWasAsked'
  BY <1>4 DEF TypeOK, FlagWasAsked, CmdGoto, StopClose
<1>5. ASSUME NEW k \in Commands, StartPersistent(k)
      PROVE  FlagWasAsked'
  BY <1>5 DEF TypeOK, FlagWasAsked, CmdGoto, StartPersistent
<1>6. ASSUME NEW k \in Commands, StartOpen(k)
      PROVE  FlagWasAsked'
  BY <1>6 DEF TypeOK, FlagWasAsked, CmdGoto, StartOpen
<1>7. ASSUME NEW k \in Commands, NEW ttl \in BOOLEAN, Start(k, ttl)
      PROVE  FlagWasAsked'
  BY <1>7 DEF TypeOK, FlagWasAsked, CmdGoto, Start
<1>8. ASSUME NEW k \in Commands, NEW t \in Timers, StartSpawn(k, t)
      PROVE  FlagWasAsked'
  BY <1>8 DEF TypeOK, FlagWasAsked, CmdGoto, StartSpawn
<1>9. ASSUME NEW k \in Commands, StartKeep(k)
      PROVE  FlagWasAsked'
  BY <1>9 DEF TypeOK, FlagWasAsked, CmdGoto, StartKeep
<1>10. ASSUME NEW t \in Timers, TimerFires(t)
      PROVE  FlagWasAsked'
  BY <1>10 DEF TypeOK, FlagWasAsked, TimerGoto, TimerFires
<1>11. ASSUME NEW t \in Timers, TimerClear(t)
      PROVE  FlagWasAsked'
  BY <1>11 DEF TypeOK, FlagWasAsked, TimerGoto, TimerClear
<1>12. ASSUME NEW t \in Timers, TimerClose(t)
      PROVE  FlagWasAsked'
  BY <1>12 DEF TypeOK, FlagWasAsked, TimerGoto, TimerClose
<1>13. ASSUME NEW t \in Timers, TimerEmit(t)
      PROVE  FlagWasAsked'
  BY <1>13 DEF TypeOK, FlagWasAsked, TimerGoto, TimerEmit
<1>14. ASSUME NEW t \in Timers, TimerDrop(t)
      PROVE  FlagWasAsked'
  BY <1>14 DEF TypeOK, FlagWasAsked, TimerGoto, TimerDrop
<1>15. ASSUME NEW p \in Peers, Dispatch(p)
      PROVE  FlagWasAsked'
  BY <1>15 DEF TypeOK, FlagWasAsked, SessionGoto, Dispatch
<1>16. ASSUME NEW p \in Peers, LoadPersistent(p)
      PROVE  FlagWasAsked'
  BY <1>16 DEF TypeOK, FlagWasAsked, SessionGoto, LoadPersistent
<1>17. ASSUME NEW p \in Peers, CloseWindow(p)
      PROVE  FlagWasAsked'
  BY <1>17 DEF TypeOK, FlagWasAsked, SessionGoto, CloseWindow
<1>18. ASSUME NEW p \in Peers, EndSession(p)
      PROVE  FlagWasAsked'
  BY <1>18 DEF TypeOK, FlagWasAsked, SessionGoto, EndSession
<1>19. ASSUME NEW p \in Peers, Admit(p)
      PROVE  FlagWasAsked'
  BY <1>19 DEF TypeOK, FlagWasAsked, SessionGoto, Admit
<1>20. ASSUME NEW p \in Peers, Complete(p)
      PROVE  FlagWasAsked'
  BY <1>20 DEF TypeOK, FlagWasAsked, SessionGoto, Complete
<1>21. ASSUME NEW p \in Peers, Abandon(p)
      PROVE  FlagWasAsked'
  BY <1>21 DEF TypeOK, FlagWasAsked, SessionGoto, Abandon
<1>22. ASSUME NEW p \in Peers, Forget(p)
      PROVE  FlagWasAsked'
  BY <1>22 DEF TypeOK, FlagWasAsked, SessionGoto, Forget
<1>23. CASE UNCHANGED vars
  BY <1>23 DEF FlagWasAsked, vars
<1> QED
  BY <1>1, <1>2, <1>3, <1>4, <1>5, <1>6, <1>7, <1>8, <1>9, <1>10, <1>11, <1>12,
     <1>13, <1>14, <1>15, <1>16, <1>17, <1>18, <1>19, <1>20, <1>21, <1>22, <1>23
  DEF Next, Environment, CmdStep, TimerStep, SessionStep

\* Whoever aborts the task of an open window goes on to close the window, and whoever
\* opens one with a ttl goes on to spawn a task.
LEMMA WatchedNext ==
  ASSUME TypeOK, FreeIsUnaborted, TimedWindowIsWatched, [Next]_vars
  PROVE  TimedWindowIsWatched'
<1> USE TimersAssumption DEF windowVars, timerVars, cmdVars, cmdLocals, history
<1>1. ASSUME NEW k \in Commands, Stop(k)
      PROVE  TimedWindowIsWatched'
  BY <1>1 DEF TypeOK, FreeIsUnaborted, TimedWindowIsWatched, Live, Attends, CmdGoto, Stop
<1>2. ASSUME NEW k \in Commands, StopTake(k)
      PROVE  TimedWindowIsWatched'
  BY <1>2 DEF TypeOK, FreeIsUnaborted, TimedWindowIsWatched, Live, Attends, CmdGoto, StopTake
<1>3. ASSUME NEW k \in Commands, StopClear(k)
      PROVE  TimedWindowIsWatched'
  BY <1>3 DEF TypeOK, FreeIsUnaborted, TimedWindowIsWatched, Live, Attends, CmdGoto, StopClear
<1>4. ASSUME NEW k \in Commands, StopClose(k)
      PROVE  TimedWindowIsWatched'
  BY <1>4 DEF TypeOK, FreeIsUnaborted, TimedWindowIsWatched, Live, Attends, CmdGoto, StopClose
<1>5. ASSUME NEW k \in Commands, StartPersistent(k)
      PROVE  TimedWindowIsWatched'
  BY <1>5 DEF TypeOK, FreeIsUnaborted, TimedWindowIsWatched, Live, Attends, CmdGoto, StartPersistent
<1>6. ASSUME NEW k \in Commands, StartOpen(k)
      PROVE  TimedWindowIsWatched'
  BY <1>6 DEF TypeOK, FreeIsUnaborted, TimedWindowIsWatched, Live, Attends, CmdGoto, StartOpen
<1>7. ASSUME NEW k \in Commands, NEW ttl \in BOOLEAN, Start(k, ttl)
      PROVE  TimedWindowIsWatched'
  BY <1>7 DEF TypeOK, FreeIsUnaborted, TimedWindowIsWatched, Live, Attends, CmdGoto, Start
<1>8. ASSUME NEW k \in Commands, NEW t \in Timers, StartSpawn(k, t)
      PROVE  TimedWindowIsWatched'
  BY <1>8 DEF TypeOK, FreeIsUnaborted, TimedWindowIsWatched, Live, Attends, CmdGoto, StartSpawn
<1>9. ASSUME NEW k \in Commands, StartKeep(k)
      PROVE  TimedWindowIsWatched'
  BY <1>9 DEF TypeOK, FreeIsUnaborted, TimedWindowIsWatched, Live, Attends, CmdGoto, StartKeep
<1>10. ASSUME NEW t \in Timers, TimerFires(t)
      PROVE  TimedWindowIsWatched'
  BY <1>10 DEF TypeOK, FreeIsUnaborted, TimedWindowIsWatched, Live, Attends, TimerGoto, TimerFires
<1>11. ASSUME NEW t \in Timers, TimerClear(t)
      PROVE  TimedWindowIsWatched'
  BY <1>11 DEF TypeOK, FreeIsUnaborted, TimedWindowIsWatched, Live, Attends, TimerGoto, TimerClear
<1>12. ASSUME NEW t \in Timers, TimerClose(t)
      PROVE  TimedWindowIsWatched'
  BY <1>12 DEF TypeOK, FreeIsUnaborted, TimedWindowIsWatched, Live, Attends, TimerGoto, TimerClose
<1>13. ASSUME NEW t \in Timers, TimerEmit(t)
      PROVE  TimedWindowIsWatched'
  BY <1>13 DEF TypeOK, FreeIsUnaborted, TimedWindowIsWatched, Live, Attends, TimerGoto, TimerEmit
<1>14. ASSUME NEW t \in Timers, TimerDrop(t)
      PROVE  TimedWindowIsWatched'
  BY <1>14 DEF TypeOK, FreeIsUnaborted, TimedWindowIsWatched, Live, Attends, TimerGoto, TimerDrop
<1>15. ASSUME NEW p \in Peers, Dispatch(p)
      PROVE  TimedWindowIsWatched'
  BY <1>15 DEF TypeOK, FreeIsUnaborted, TimedWindowIsWatched, Live, Attends, SessionGoto, Dispatch
<1>16. ASSUME NEW p \in Peers, LoadPersistent(p)
      PROVE  TimedWindowIsWatched'
  BY <1>16 DEF TypeOK, FreeIsUnaborted, TimedWindowIsWatched, Live, Attends, SessionGoto, LoadPersistent
<1>17. ASSUME NEW p \in Peers, CloseWindow(p)
      PROVE  TimedWindowIsWatched'
  BY <1>17 DEF TypeOK, FreeIsUnaborted, TimedWindowIsWatched, Live, Attends, SessionGoto, CloseWindow
<1>18. ASSUME NEW p \in Peers, EndSession(p)
      PROVE  TimedWindowIsWatched'
  BY <1>18 DEF TypeOK, FreeIsUnaborted, TimedWindowIsWatched, Live, Attends, SessionGoto, EndSession
<1>19. ASSUME NEW p \in Peers, Admit(p)
      PROVE  TimedWindowIsWatched'
  BY <1>19 DEF TypeOK, FreeIsUnaborted, TimedWindowIsWatched, Live, Attends, SessionGoto, Admit
<1>20. ASSUME NEW p \in Peers, Complete(p)
      PROVE  TimedWindowIsWatched'
  BY <1>20 DEF TypeOK, FreeIsUnaborted, TimedWindowIsWatched, Live, Attends, SessionGoto, Complete
<1>21. ASSUME NEW p \in Peers, Abandon(p)
      PROVE  TimedWindowIsWatched'
  BY <1>21 DEF TypeOK, FreeIsUnaborted, TimedWindowIsWatched, Live, Attends, SessionGoto, Abandon
<1>22. ASSUME NEW p \in Peers, Forget(p)
      PROVE  TimedWindowIsWatched'
  BY <1>22 DEF TypeOK, FreeIsUnaborted, TimedWindowIsWatched, Live, Attends, SessionGoto, Forget
<1>23. CASE UNCHANGED vars
  BY <1>23 DEF TimedWindowIsWatched, Live, Attends, vars
<1> QED
  BY <1>1, <1>2, <1>3, <1>4, <1>5, <1>6, <1>7, <1>8, <1>9, <1>10, <1>11, <1>12,
     <1>13, <1>14, <1>15, <1>16, <1>17, <1>18, <1>19, <1>20, <1>21, <1>22, <1>23
  DEF Next, Environment, CmdStep, TimerStep, SessionStep

\* Without a persistent window a session that paired goes through the close.
LEMMA ClosesNext ==
  ASSUME TypeOK, FlagWasAsked, PairingClosesWindow, [Next]_vars
  PROVE  PairingClosesWindow'
<1> USE TimersAssumption DEF windowVars, timerVars, cmdVars, cmdLocals, history
<1>1. ASSUME NEW k \in Commands, Stop(k)
      PROVE  PairingClosesWindow'
  BY <1>1 DEF TypeOK, FlagWasAsked, PairingClosesWindow, CmdGoto, Stop
<1>2. ASSUME NEW k \in Commands, StopTake(k)
      PROVE  PairingClosesWindow'
  BY <1>2 DEF TypeOK, FlagWasAsked, PairingClosesWindow, CmdGoto, StopTake
<1>3. ASSUME NEW k \in Commands, StopClear(k)
      PROVE  PairingClosesWindow'
  BY <1>3 DEF TypeOK, FlagWasAsked, PairingClosesWindow, CmdGoto, StopClear
<1>4. ASSUME NEW k \in Commands, StopClose(k)
      PROVE  PairingClosesWindow'
  BY <1>4 DEF TypeOK, FlagWasAsked, PairingClosesWindow, CmdGoto, StopClose
<1>5. ASSUME NEW k \in Commands, StartPersistent(k)
      PROVE  PairingClosesWindow'
  BY <1>5 DEF TypeOK, FlagWasAsked, PairingClosesWindow, CmdGoto, StartPersistent
<1>6. ASSUME NEW k \in Commands, StartOpen(k)
      PROVE  PairingClosesWindow'
  BY <1>6 DEF TypeOK, FlagWasAsked, PairingClosesWindow, CmdGoto, StartOpen
<1>7. ASSUME NEW k \in Commands, NEW ttl \in BOOLEAN, Start(k, ttl)
      PROVE  PairingClosesWindow'
  BY <1>7 DEF TypeOK, FlagWasAsked, PairingClosesWindow, CmdGoto, Start
<1>8. ASSUME NEW k \in Commands, NEW t \in Timers, StartSpawn(k, t)
      PROVE  PairingClosesWindow'
  BY <1>8 DEF TypeOK, FlagWasAsked, PairingClosesWindow, CmdGoto, StartSpawn
<1>9. ASSUME NEW k \in Commands, StartKeep(k)
      PROVE  PairingClosesWindow'
  BY <1>9 DEF TypeOK, FlagWasAsked, PairingClosesWindow, CmdGoto, StartKeep
<1>10. ASSUME NEW t \in Timers, TimerFires(t)
      PROVE  PairingClosesWindow'
  BY <1>10 DEF TypeOK, FlagWasAsked, PairingClosesWindow, TimerGoto, TimerFires
<1>11. ASSUME NEW t \in Timers, TimerClear(t)
      PROVE  PairingClosesWindow'
  BY <1>11 DEF TypeOK, FlagWasAsked, PairingClosesWindow, TimerGoto, TimerClear
<1>12. ASSUME NEW t \in Timers, TimerClose(t)
      PROVE  PairingClosesWindow'
  BY <1>12 DEF TypeOK, FlagWasAsked, PairingClosesWindow, TimerGoto, TimerClose
<1>13. ASSUME NEW t \in Timers, TimerEmit(t)
      PROVE  PairingClosesWindow'
  BY <1>13 DEF TypeOK, FlagWasAsked, PairingClosesWindow, TimerGoto, TimerEmit
<1>14. ASSUME NEW t \in Timers, TimerDrop(t)
      PROVE  PairingClosesWindow'
  BY <1>14 DEF TypeOK, FlagWasAsked, PairingClosesWindow, TimerGoto, TimerDrop
<1>15. ASSUME NEW p \in Peers, Dispatch(p)
      PROVE  PairingClosesWindow'
  BY <1>15 DEF TypeOK, FlagWasAsked, PairingClosesWindow, SessionGoto, Dispatch
<1>16. ASSUME NEW p \in Peers, LoadPersistent(p)
      PROVE  PairingClosesWindow'
  BY <1>16 DEF TypeOK, FlagWasAsked, PairingClosesWindow, SessionGoto, LoadPersistent
<1>17. ASSUME NEW p \in Peers, CloseWindow(p)
      PROVE  PairingClosesWindow'
  BY <1>17 DEF TypeOK, FlagWasAsked, PairingClosesWindow, SessionGoto, CloseWindow
<1>18. ASSUME NEW p \in Peers, EndSession(p)
      PROVE  PairingClosesWindow'
  BY <1>18 DEF TypeOK, FlagWasAsked, PairingClosesWindow, SessionGoto, EndSession
<1>19. ASSUME NEW p \in Peers, Admit(p)
      PROVE  PairingClosesWindow'
  BY <1>19 DEF TypeOK, FlagWasAsked, PairingClosesWindow, SessionGoto, Admit
<1>20. ASSUME NEW p \in Peers, Complete(p)
      PROVE  PairingClosesWindow'
  <2>1. /\ open' = open /\ asked' = asked /\ joined' = joined \cup {p}
        /\ session' = [session EXCEPT ![p] = "completed"]
    BY <1>20 DEF Complete, SessionGoto
  <2>2. \A q \in joined' : session'[q] = "hold" => q \in joined /\ session[q] = "hold"
    BY <2>1 DEF TypeOK
  <2> QED BY <2>1, <2>2 DEF PairingClosesWindow
<1>21. ASSUME NEW p \in Peers, Abandon(p)
      PROVE  PairingClosesWindow'
  BY <1>21 DEF TypeOK, FlagWasAsked, PairingClosesWindow, SessionGoto, Abandon
<1>22. ASSUME NEW p \in Peers, Forget(p)
      PROVE  PairingClosesWindow'
  BY <1>22 DEF TypeOK, FlagWasAsked, PairingClosesWindow, SessionGoto, Forget
<1>23. CASE UNCHANGED vars
  BY <1>23 DEF PairingClosesWindow, vars
<1> QED
  BY <1>1, <1>2, <1>3, <1>4, <1>5, <1>6, <1>7, <1>8, <1>9, <1>10, <1>11, <1>12,
     <1>13, <1>14, <1>15, <1>16, <1>17, <1>18, <1>19, <1>20, <1>21, <1>22, <1>23
  DEF Next, Environment, CmdStep, TimerStep, SessionStep

LEMMA WindowNext == WindowInv /\ [Next]_vars => WindowInv'
  BY TypeNext, FreeNext, AskedNext, WatchedNext, ClosesNext DEF WindowInv

\* The variables of the pairing window keep their types, and only a start with a
\* ttl ever spawns an expire task, however many commands overlap.
THEOREM TypeCorrect == Spec => []TypeOK
<1>1. WindowInv => TypeOK
  BY DEF WindowInv
<1> QED
  BY <1>1, WindowInit, WindowNext, PTL DEF Spec

\* For any commands, expire tasks and sessions at once (start_pairing_host and
\* stop_pairing_host take their locks one by one): a window that is open with a ttl has
\* a task that will close it, or a command that will close it or spawn one.
THEOREM SomebodyCloses == Spec => []TimedWindowIsWatched
<1>1. WindowInv => TimedWindowIsWatched
  BY DEF WindowInv
<1> QED
  BY <1>1, WindowInit, WindowNext, PTL DEF Spec

\* For any commands, expire tasks and sessions at once: as long as every window was
\* asked for with a ttl, a session that paired has closed the window (handle_connection).
THEOREM PairedSessionCloses == Spec => []PairingClosesWindow
<1>1. WindowInv => PairingClosesWindow
  BY DEF WindowInv
<1> QED
  BY <1>1, WindowInit, WindowNext, PTL DEF Spec

------------------------------------------------------------------------------
(* The Explorer menu (ContextMenu)                                          *)

MenuCalls == [by : {"none", "switch", "sync"}, value : BOOLEAN,
              state : {"none", "sent", "ok", "failed"}, mounted : BOOLEAN]

MenuType ==
  /\ cmSaved \in BOOLEAN /\ cmSetting \in BOOLEAN /\ cmMenu \in BOOLEAN
  /\ cmHydrated \in BOOLEAN /\ cmClean \in BOOLEAN
  /\ cmCalls \in [Slots -> MenuCalls]
  /\ cmPage \in [open : BOOLEAN, pending : BOOLEAN, error : BOOLEAN]
  /\ \A c \in Slots : cmCalls[c].by = "none" <=> cmCalls[c].state = "none"

\* Until the settings are read there is no page and no call.
QuietAtLaunch ==
  ~cmHydrated => ~cmPage.open /\ \A c \in Slots : cmCalls[c].by = "none"

\* What the only call under way is for: it carries the setting's new value, which
\* the menu has once the call succeeded and, after a switch, has not before.
CallCarriesSetting ==
  cmHydrated /\ cmClean =>
    \A c \in Slots :
      cmCalls[c].by # "none" =>
        /\ \A d \in Slots : cmCalls[d].by # "none" => d = c
        /\ cmCalls[c].value = cmSetting
        /\ cmCalls[c].state = "ok" => cmMenu = cmSetting
        /\ cmCalls[c].state # "ok" /\ cmCalls[c].by = "switch" => cmMenu = ~cmSetting

MenuAgrees ==
  /\ cmHydrated => cmSaved = cmSetting
  /\ cmHydrated /\ cmClean /\ (\A c \in Slots : cmCalls[c].by = "none") => cmMenu = cmSetting

MenuInv == MenuType /\ QuietAtLaunch /\ CallCarriesSetting /\ MenuAgrees

LEMMA NoCallFacts ==
  /\ CM!NoCall \in MenuCalls
  /\ CM!NoCall.by = "none" /\ CM!NoCall.state = "none"
  BY DEF MenuCalls, CM!NoCall

LEMMA MenuInit ==
  ASSUME CM!Init
  PROVE  MenuInv
<1>1. \A c \in Slots : cmCalls[c] = CM!NoCall
  BY DEF CM!Init
<1>2. MenuType
  BY <1>1, NoCallFacts DEF CM!Init, MenuType, CM!Closed
<1>3. QuietAtLaunch /\ CallCarriesSetting /\ MenuAgrees
  BY <1>1, NoCallFacts DEF CM!Init, QuietAtLaunch, CallCarriesSetting, MenuAgrees, CM!Closed
<1> QED BY <1>2, <1>3 DEF MenuInv

\* A call begins: it is the only one if history stays clean.
LEMMA ApplyFacts ==
  ASSUME MenuInv, NEW by \in {"switch", "sync"}, NEW value \in BOOLEAN, CM!Apply(by, value)
  PROVE  /\ cmCalls' \in [Slots -> MenuCalls] /\ cmClean' \in BOOLEAN
         /\ \A c \in Slots : cmCalls'[c].by = "none" <=> cmCalls'[c].state = "none"
         /\ \E c \in Slots :
              /\ cmCalls'[c].by = by /\ cmCalls'[c].value = value /\ cmCalls'[c].state = "sent"
              /\ cmClean' => cmClean /\ \A d \in Slots : /\ cmCalls[d].by = "none"
                                                         /\ d # c => cmCalls'[d].by = "none"
<1> DEFINE new == [by |-> by, value |-> value, state |-> "sent", mounted |-> TRUE]
<1>1. PICK c \in Slots : cmCalls[c].by = "none" /\ cmCalls' = [cmCalls EXCEPT ![c] = new]
  BY DEF CM!Apply
<1>2. new \in MenuCalls /\ new.by = by /\ new.value = value /\ new.state = "sent"
  BY DEF MenuCalls
<1> HIDE DEF new
<1>3. cmCalls \in [Slots -> MenuCalls]
  BY DEF MenuInv, MenuType
<1>4. cmCalls' \in [Slots -> MenuCalls] /\ cmCalls'[c] = new /\ \A d \in Slots : d # c => cmCalls'[d] = cmCalls[d]
  BY <1>1, <1>2, <1>3
<1>5. cmClean' \in BOOLEAN /\ (cmClean' => cmClean /\ \A d \in Slots : cmCalls[d].by = "none")
  BY DEF CM!Apply, CM!Busy
<1>6. \A d \in Slots : cmCalls'[d].by = "none" <=> cmCalls'[d].state = "none"
  BY <1>2, <1>4 DEF MenuInv, MenuType
<1> QED BY <1>2, <1>4, <1>5, <1>6

\* The sync at launch sends the persisted value.
LEMMA MenuHydration ==
  ASSUME MenuInv, CM!FinishHydration
  PROVE  MenuInv'
<1>0. /\ MenuType /\ CM!Apply("sync", cmSaved) /\ cmHydrated' = TRUE /\ cmSetting' = cmSaved
      /\ UNCHANGED <<cmSaved, cmMenu, cmPage>>
  BY DEF MenuInv, CM!FinishHydration
<1>1. /\ cmCalls' \in [Slots -> MenuCalls] /\ cmClean' \in BOOLEAN
      /\ \A c \in Slots : cmCalls'[c].by = "none" <=> cmCalls'[c].state = "none"
  BY <1>0, ApplyFacts DEF MenuType
<1>2. PICK c \in Slots :
        /\ cmCalls'[c].by = "sync" /\ cmCalls'[c].value = cmSaved /\ cmCalls'[c].state = "sent"
        /\ cmClean' => cmClean /\ \A d \in Slots : cmCalls[d].by = "none" /\ (d # c => cmCalls'[d].by = "none")
  BY <1>0, ApplyFacts DEF MenuType
<1>3. MenuType'
  BY <1>0, <1>1 DEF MenuType
<1>4. QuietAtLaunch' /\ CallCarriesSetting' /\ MenuAgrees'
  BY <1>0, <1>2 DEF QuietAtLaunch, CallCarriesSetting, MenuAgrees
<1> QED BY <1>3, <1>4 DEF MenuInv

\* The switch sets the setting before it asks for the menu, which it agreed with.
LEMMA MenuSwitch ==
  ASSUME MenuInv, CM!HandleChange
  PROVE  MenuInv'
<1>0. /\ MenuType /\ CM!Apply("switch", ~cmSetting)
      /\ cmSetting' = ~cmSetting /\ cmSaved' = ~cmSetting /\ cmPage.open
      /\ cmPage' = [cmPage EXCEPT !.pending = TRUE, !.error = FALSE]
      /\ UNCHANGED <<cmHydrated, cmMenu>>
  BY DEF MenuInv, CM!HandleChange, CM!SetEnabled
<1>1. cmHydrated
  BY <1>0 DEF MenuInv, QuietAtLaunch, MenuType
<1>2. (~cmSetting) \in BOOLEAN
  BY <1>0 DEF MenuType
<1>3. /\ cmCalls' \in [Slots -> MenuCalls] /\ cmClean' \in BOOLEAN
      /\ \A c \in Slots : cmCalls'[c].by = "none" <=> cmCalls'[c].state = "none"
  BY <1>0, <1>2, ApplyFacts
<1>4. PICK c \in Slots :
        /\ cmCalls'[c].by = "switch" /\ cmCalls'[c].value = ~cmSetting /\ cmCalls'[c].state = "sent"
        /\ cmClean' => cmClean /\ \A d \in Slots : cmCalls[d].by = "none" /\ (d # c => cmCalls'[d].by = "none")
  BY <1>0, <1>2, ApplyFacts
<1>5. MenuType'
  BY <1>0, <1>2, <1>3 DEF MenuType
<1>6. cmClean' => cmMenu = cmSetting
  BY <1>1, <1>4 DEF MenuInv, MenuAgrees
<1>7. CallCarriesSetting'
  BY <1>0, <1>4, <1>6 DEF CallCarriesSetting, MenuType
<1>8. QuietAtLaunch' /\ MenuAgrees'
  BY <1>0, <1>1, <1>4 DEF QuietAtLaunch, MenuAgrees
<1> QED BY <1>5, <1>7, <1>8 DEF MenuInv

\* The page comes and goes: a call loses its page, nothing else.
LEMMA MenuPage ==
  ASSUME MenuInv, CM!OpenSettings \/ CM!LeaveSettings
  PROVE  MenuInv'
<1>0. MenuType /\ cmCalls \in [Slots -> MenuCalls]
  BY DEF MenuInv, MenuType
<1>1. /\ UNCHANGED <<cmSaved, cmSetting, cmHydrated, cmMenu, cmClean>>
      /\ cmPage' \in [open : BOOLEAN, pending : BOOLEAN, error : BOOLEAN]
      /\ ~cmHydrated => ~cmPage'.open
  <2>1. CASE CM!OpenSettings
    BY <1>0, <2>1 DEF CM!OpenSettings, MenuType
  <2>2. CASE CM!LeaveSettings
    BY <2>2 DEF CM!LeaveSettings, CM!Closed
  <2> QED BY <2>1, <2>2
<1>2. /\ cmCalls' \in [Slots -> MenuCalls]
      /\ \A c \in Slots : /\ cmCalls'[c].by = cmCalls[c].by /\ cmCalls'[c].value = cmCalls[c].value
                          /\ cmCalls'[c].state = cmCalls[c].state
  <2>1. CASE CM!OpenSettings
    BY <1>0, <2>1 DEF CM!OpenSettings
  <2>2. CASE CM!LeaveSettings
    BY <1>0, <2>2 DEF CM!LeaveSettings, MenuCalls
  <2> QED BY <2>1, <2>2
<1>3. MenuType'
  BY <1>0, <1>1, <1>2 DEF MenuType
<1>4. QuietAtLaunch' /\ CallCarriesSetting' /\ MenuAgrees'
  BY <1>1, <1>2 DEF MenuInv, QuietAtLaunch, CallCarriesSetting, MenuAgrees
<1> QED BY <1>3, <1>4 DEF MenuInv

\* The registry is written, or not.
LEMMA MenuToggle ==
  ASSUME MenuInv, NEW c \in Slots, CM!ToggleContextMenu(c)
  PROVE  MenuInv'
<1>0. MenuType /\ cmCalls \in [Slots -> MenuCalls] /\ cmCalls[c].state = "sent"
  BY DEF MenuInv, MenuType, CM!ToggleContextMenu
<1>1. UNCHANGED <<cmSaved, cmSetting, cmHydrated, cmPage, cmClean>>
  BY DEF CM!ToggleContextMenu
<1>2. PICK st \in {"ok", "failed"} : /\ cmCalls' = [cmCalls EXCEPT ![c].state = st]
                                     /\ cmMenu' = IF st = "ok" THEN cmCalls[c].value ELSE cmMenu
  BY DEF CM!ToggleContextMenu
<1>3. /\ cmCalls' \in [Slots -> MenuCalls] /\ cmCalls'[c].state = st
      /\ \A d \in Slots : /\ cmCalls'[d].by = cmCalls[d].by /\ cmCalls'[d].value = cmCalls[d].value
                          /\ d # c => cmCalls'[d].state = cmCalls[d].state
  BY <1>0, <1>2 DEF MenuCalls
<1>4. cmCalls[c].by # "none" /\ cmCalls[c].value \in BOOLEAN
  BY <1>0 DEF MenuType, MenuCalls
<1>5. MenuType'
  BY <1>0, <1>1, <1>2, <1>3, <1>4 DEF MenuType
<1>6. QuietAtLaunch' /\ MenuAgrees'
  BY <1>1, <1>3, <1>4 DEF MenuInv, QuietAtLaunch, MenuAgrees
<1>7. CallCarriesSetting'
  BY <1>0, <1>1, <1>2, <1>3, <1>4 DEF MenuInv, CallCarriesSetting
<1> QED BY <1>5, <1>6, <1>7 DEF MenuInv

\* The answer: a refused change is taken back, a refused sync is only logged.
LEMMA MenuAnswer ==
  ASSUME MenuInv, NEW c \in Slots, CM!ToggleAnswer(c) \/ CM!SyncAnswer(c)
  PROVE  MenuInv'
<1>0. /\ MenuType /\ cmCalls \in [Slots -> MenuCalls] /\ cmCalls[c].state \in {"ok", "failed"}
      /\ cmCalls' = [cmCalls EXCEPT ![c] = CM!NoCall]
      /\ UNCHANGED <<cmHydrated, cmMenu>>
  BY DEF MenuInv, MenuType, CM!ToggleAnswer, CM!SyncAnswer
<1>1. /\ cmCalls' \in [Slots -> MenuCalls] /\ cmCalls'[c] = CM!NoCall
      /\ \A d \in Slots : d # c => cmCalls'[d] = cmCalls[d]
  BY <1>0, NoCallFacts
<1>2. cmCalls[c].by # "none" /\ cmCalls[c].value \in BOOLEAN /\ cmHydrated
  BY <1>0 DEF MenuInv, MenuType, MenuCalls, QuietAtLaunch
<1>3. CASE CM!ToggleAnswer(c)
  <2>1. /\ cmCalls[c].by = "switch" /\ UNCHANGED cmClean
        /\ IF cmCalls[c].state = "failed" THEN cmSetting' = ~cmCalls[c].value /\ cmSaved' = ~cmCalls[c].value
                                          ELSE UNCHANGED <<cmSetting, cmSaved>>
    BY <1>3 DEF CM!ToggleAnswer, CM!SetEnabled
  <2>2. cmPage' \in [open : BOOLEAN, pending : BOOLEAN, error : BOOLEAN]
    BY <1>0, <1>3 DEF CM!ToggleAnswer, MenuType
  <2>3. cmSetting' \in BOOLEAN /\ cmSaved' \in BOOLEAN /\ cmSaved' = cmSetting'
    BY <1>0, <1>2, <2>1 DEF MenuInv, MenuType, MenuAgrees
  <2>4. MenuType'
    BY <1>0, <1>1, <2>1, <2>2, <2>3, NoCallFacts DEF MenuType
  <2>5. QuietAtLaunch'
    BY <1>0, <1>2 DEF QuietAtLaunch
  <2>6. cmClean => cmMenu = cmSetting' /\ \A d \in Slots : cmCalls'[d].by = "none"
    BY <1>0, <1>1, <1>2, <2>1, NoCallFacts DEF MenuInv, MenuType, CallCarriesSetting
  <2>7. CallCarriesSetting' /\ MenuAgrees'
    BY <1>0, <2>1, <2>3, <2>6 DEF CallCarriesSetting, MenuAgrees
  <2> QED BY <2>4, <2>5, <2>7 DEF MenuInv
<1>4. CASE CM!SyncAnswer(c)
  <2>1. /\ cmClean' = (cmClean /\ cmCalls[c].state = "ok") /\ UNCHANGED <<cmSaved, cmSetting, cmPage>>
    BY <1>4 DEF CM!SyncAnswer
  <2>2. MenuType'
    BY <1>0, <1>1, <2>1, NoCallFacts DEF MenuType
  <2>3. QuietAtLaunch'
    BY <1>0, <1>2 DEF QuietAtLaunch
  <2>4. cmClean' => cmMenu = cmSetting /\ \A d \in Slots : cmCalls'[d].by = "none"
    BY <1>0, <1>1, <1>2, <2>1, NoCallFacts DEF MenuInv, CallCarriesSetting
  <2>5. CallCarriesSetting' /\ MenuAgrees'
    BY <1>0, <1>2, <2>1, <2>4 DEF MenuInv, CallCarriesSetting, MenuAgrees
  <2> QED BY <2>2, <2>3, <2>5 DEF MenuInv
<1> QED BY <1>3, <1>4

\* A restart forgets everything but the file and the registry.
LEMMA MenuRestart ==
  ASSUME MenuInv, CM!Restart
  PROVE  MenuInv'
<1>1. /\ cmCalls' = [c \in Slots |-> CM!NoCall] /\ cmSetting' = TRUE /\ cmHydrated' = FALSE
      /\ cmPage' = CM!Closed /\ cmClean' = TRUE /\ UNCHANGED <<cmSaved, cmMenu>>
  BY DEF CM!Restart
<1>2. \A c \in Slots : cmCalls'[c] = CM!NoCall
  BY <1>1
<1>3. MenuType'
  BY <1>1, <1>2, NoCallFacts DEF MenuInv, MenuType, CM!Closed
<1>4. QuietAtLaunch' /\ CallCarriesSetting' /\ MenuAgrees'
  BY <1>1, <1>2, NoCallFacts DEF QuietAtLaunch, CallCarriesSetting, MenuAgrees, CM!Closed
<1> QED BY <1>3, <1>4 DEF MenuInv

\* Every step of the menu, the switch and the launch.
LEMMA MenuNext ==
  ASSUME MenuInv, CM!Next \/ UNCHANGED cmVars
  PROVE  MenuInv'
<1>1. CASE CM!Next
  BY <1>1, MenuHydration, MenuSwitch, MenuPage, MenuToggle, MenuAnswer, MenuRestart DEF CM!Next
<1>2. CASE UNCHANGED cmVars
  BY <1>2 DEF cmVars, MenuInv, MenuType, QuietAtLaunch, CallCarriesSetting, MenuAgrees
<1> QED BY <1>1, <1>2

------------------------------------------------------------------------------
(* Theme and language (Preferences)                                         *)

\* Once its effect has run, a theme is listening if it is automatic, and only a
\* change event on its way can keep an automatic one from being right.
ThemeInv ==
  /\ pfTheme \in PF!Themes
  /\ pfIsDark = pfRoot.dark
  /\ ~pfEffect =>
       /\ pfListening <=> pfTheme = "auto"
       /\ pfRoot.named = IF pfTheme \in PF!NamedThemes THEN pfTheme ELSE "none"
       /\ ~pfChanged \/ pfTheme # "auto" => pfRoot.dark = PF!ResolveColorMode(pfTheme)

\* The pages follow the i18n object at every step; the storage can only be ahead,
\* with a language there are resources of, and an event says so.
LanguageInv ==
  /\ pfRendered = pfLanguage
  /\ pfStored # pfLanguage => pfStorage /\ pfStored \in Languages

LEMMA PreferencesInit ==
  ASSUME PF!Init
  PROVE  ThemeInv /\ LanguageInv
  BY DEF PF!Init, PF!Migrated, PF!Themes, ThemeInv, LanguageInv

LEMMA ThemeNext ==
  ASSUME ThemeInv, PF!Next \/ UNCHANGED pfVars
  PROVE  ThemeInv'
<1>1. ASSUME NEW t \in PF!Themes, PF!SetTheme(t)
      PROVE  ThemeInv'
  BY <1>1 DEF ThemeInv, PF!SetTheme, PF!ResolveColorMode
<1>2. CASE PF!SelectTheme
  BY <1>1, <1>2 DEF PF!SelectTheme
<1>3. CASE PF!ToggleTheme
  BY <1>1, <1>3 DEF PF!ToggleTheme, PF!Themes
<1>4. CASE PF!RunEffect
  BY <1>4 DEF ThemeInv, PF!RunEffect, PF!ApplyTheme, PF!ResolveColorMode
<1>5. CASE PF!SystemChanges
  BY <1>5 DEF ThemeInv, PF!SystemChanges, PF!ResolveColorMode
<1>6. CASE PF!MediaEvent
  BY <1>6 DEF ThemeInv, PF!MediaEvent, PF!ApplyTheme, PF!ResolveColorMode, PF!NamedThemes
<1>7. CASE UNCHANGED <<pfTheme, pfPrefers, pfRoot, pfIsDark, pfEffect, pfListening, pfChanged>>
  BY <1>7 DEF ThemeInv, PF!ResolveColorMode
<1>8. CASE PF!SelectLanguage \/ PF!OtherTab \/ PF!StorageEvent \/ UNCHANGED pfVars
  BY <1>7, <1>8 DEF PF!SelectLanguage, PF!OtherTab, PF!StorageEvent, PF!themeVars, pfVars
<1> QED BY <1>2, <1>3, <1>4, <1>5, <1>6, <1>8 DEF PF!Next

LEMMA LanguageNext ==
  ASSUME LanguageInv, PF!Next \/ UNCHANGED pfVars
  PROVE  LanguageInv'
<1>1. CASE PF!SelectLanguage
  BY <1>1 DEF LanguageInv, PF!SelectLanguage, PF!ChangeLanguage, PF!HandleLanguageChange
<1>2. CASE PF!OtherTab
  BY <1>2 DEF LanguageInv, PF!OtherTab
<1>3. CASE PF!StorageEvent
  BY <1>3 DEF LanguageInv, PF!StorageEvent, PF!HandleLanguageChange
<1>4. CASE UNCHANGED <<pfLanguage, pfStored, pfRendered, pfStorage>>
  BY <1>4 DEF LanguageInv
<1>5. CASE PF!SelectTheme \/ PF!ToggleTheme \/ PF!RunEffect \/ PF!SystemChanges
           \/ PF!MediaEvent \/ UNCHANGED pfVars
  BY <1>4, <1>5 DEF PF!SelectTheme, PF!ToggleTheme, PF!RunEffect, PF!SystemChanges,
                    PF!MediaEvent, PF!languageVars, pfVars
<1> QED BY <1>1, <1>2, <1>3, <1>5 DEF PF!Next

------------------------------------------------------------------------------
(* The selection of files (FileSelection)                                   *)

AskType == [paths : Seq(FS!Paths), mounted : BOOLEAN, n : 0..MaxCalls]

\* The selection has no path twice, and the one question that still counts is
\* about the selection as it is.
SelectionInv ==
  /\ fsSel \in Seq(FS!Paths) /\ FS!IsInjective(fsSel)
  /\ fsKind \in FS!Kinds /\ fsLabel \in FS!Kinds
  /\ fsChecks \subseteq FS!Call
  /\ fsMimes \subseteq FS!Paths /\ fsFailed \in BOOLEAN
  /\ fsAsks \subseteq AskType
  /\ fsCalls \in 0..MaxCalls
  /\ \A a \in fsAsks : a.mounted => a.paths = fsSel
  /\ FS!MimesMatchSelection

\* In a browser the depth counts the place the pointer is over and the one it has
\* not left yet; a desktop counts nothing.
DragInv ==
  /\ fsWeb \in Webs
  /\ fsDepth \in Nat /\ fsActive \in BOOLEAN
  /\ fsAt \in FS!Places /\ fsLeft \in 0..1
  /\ fsWeb => (fsActive <=> fsAt # "out")
  /\ fsWeb => fsDepth = (IF fsAt = "out" THEN 0 ELSE 1) + fsLeft
  /\ fsLeft = 1 => fsWeb /\ fsAt # "out"
  /\ fsDrops \subseteq SUBSET FS!Paths

LEMMA FinitePaths == \A S \in SUBSET FS!Paths : IsFiniteSet(S)
<1>1. IsFiniteSet(Files \cup Dirs)
  BY MCPagesAssumption, FS_Union
<1> QED BY <1>1, FS_Subset DEF FS!Paths

\* FileSelection counts as this module does.
LEMMA SameCardinality == \A S : FS!Cardinality(S) = Cardinality(S)
  BY Zenon DEF FS!Cardinality, Cardinality

\* A finite set is enumerated without repetition.
LEMMA SetToSeqFacts ==
  ASSUME NEW S, IsFiniteSet(S)
  PROVE  FS!SetToSeq(S) \in Seq(S) /\ FS!IsInjective(FS!SetToSeq(S))
<1>1. FS!SetToSeq(S) = CHOOSE f \in [1..FS!Cardinality(S) -> S] : FS!IsInjective(f)
  BY DEF FS!SetToSeq
<1>2. Cardinality(S) \in Nat /\ \E f \in [1..Cardinality(S) -> S] : FS!IsInjective(f)
  BY FS_CardinalityType DEF FS!IsInjective, ExistsBijection, Bijection, Injection, IsInjective
<1>3. FS!SetToSeq(S) \in [1..Cardinality(S) -> S] /\ FS!IsInjective(FS!SetToSeq(S))
  BY <1>1, <1>2, SameCardinality
<1> QED BY <1>2, <1>3

\* A path that is selected already is not added again, whatever else is chosen.
LEMMA AddFacts ==
  ASSUME NEW s \in Seq(FS!Paths), FS!IsInjective(s), NEW chosen \in SUBSET FS!Paths
  PROVE  LET new == FS!AddSelectedPaths(s, chosen) IN
         new \in Seq(FS!Paths) /\ FS!IsInjective(new)
<1> DEFINE t == FS!SetToSeq(chosen \ FS!ToSet(s))
           new == s \o t
<1>1. t \in Seq(chosen \ FS!ToSet(s)) /\ FS!IsInjective(t)
  BY FinitePaths, SetToSeqFacts
<1> HIDE DEF t
<1>2. t \in Seq(FS!Paths) /\ \A j \in 1..Len(t) : t[j] \notin FS!ToSet(s)
  <2>1. chosen \ FS!ToSet(s) \subseteq FS!Paths
    OBVIOUS
  <2> QED BY <1>1, <2>1, SeqMonotonic, ElementOfSeq
<1>3. /\ new \in Seq(FS!Paths) /\ Len(new) = Len(s) + Len(t) /\ Len(s) \in Nat /\ Len(t) \in Nat
      /\ \A i \in 1..Len(s) + Len(t) : new[i] = IF i <= Len(s) THEN s[i] ELSE t[i - Len(s)]
  BY <1>2, ConcatProperties
<1>4. \A i \in 1..Len(s) : s[i] \in FS!ToSet(s)
  BY DEF FS!ToSet
<1> HIDE DEF new
<1>5. ASSUME NEW i \in 1..Len(new), NEW j \in 1..Len(new), new[i] = new[j]
      PROVE  i = j
  <2>1. CASE i <= Len(s) /\ j <= Len(s)
    BY <1>3, <1>5, <2>1 DEF FS!IsInjective
  <2>2. CASE i > Len(s) /\ j > Len(s)
    <3>1. i - Len(s) \in 1..Len(t) /\ j - Len(s) \in 1..Len(t) /\ t[i - Len(s)] = t[j - Len(s)]
      BY <1>3, <1>5, <2>2
    <3>2. i - Len(s) = j - Len(s)
      BY <1>1, <1>2, <3>1 DEF FS!IsInjective
    <3> QED BY <1>3, <3>2
  <2>3. CASE i <= Len(s) /\ j > Len(s)
    BY <1>2, <1>3, <1>4, <1>5, <2>3, SMTT(30)
  <2>4. CASE i > Len(s) /\ j <= Len(s)
    BY <1>2, <1>3, <1>4, <1>5, <2>4, SMTT(30)
  <2> QED BY <1>3, <2>1, <2>2, <2>3, <2>4
<1>6. FS!IsInjective(new)
  BY <1>3, <1>5 DEF FS!IsInjective
<1> QED BY <1>3, <1>6 DEF FS!AddSelectedPaths, new, t

\* What is left when one path is taken out.
LEMMA RemoveFacts ==
  ASSUME NEW s \in Seq(FS!Paths), FS!IsInjective(s), NEW k \in DOMAIN s
  PROVE  LET rest == FS!RemoveAt(s, k) IN
         rest \in Seq(FS!Paths) /\ FS!IsInjective(rest)
<1> DEFINE l == SubSeq(s, 1, k - 1)
           r == SubSeq(s, k + 1, Len(s))
           rest == l \o r
<1>1. Len(s) \in Nat /\ k \in 1..Len(s) /\ DOMAIN s = 1..Len(s) /\ \A i \in 1..Len(s) : s[i] \in FS!Paths
  OBVIOUS
<1>2. /\ l \in Seq(FS!Paths) /\ Len(l) = k - 1 /\ \A i \in 1..(k - 1) : l[i] = s[i]
  BY <1>1, SubSeqProperties
<1>3. /\ r \in Seq(FS!Paths) /\ Len(r) = Len(s) - k /\ \A i \in 1..(Len(s) - k) : r[i] = s[k + i]
  <2>1. \A i \in (k + 1)..Len(s) : s[i] \in FS!Paths
    BY <1>1
  <2>2. /\ r \in Seq(FS!Paths) /\ Len(r) = IF k + 1 <= Len(s) THEN Len(s) - (k + 1) + 1 ELSE 0
        /\ \A i \in 1..(Len(s) - (k + 1) + 1) : r[i] = s[k + 1 + i - 1]
    BY <1>1, <2>1, SubSeqProperties
  <2> HIDE DEF r
  <2>3. Len(s) - (k + 1) + 1 = Len(s) - k /\ \A i \in 1..(Len(s) - k) : k + 1 + i - 1 = k + i
    BY <1>1
  <2> QED BY <1>1, <2>2, <2>3
<1> HIDE DEF l, r
<1>4. /\ rest \in Seq(FS!Paths) /\ Len(rest) = Len(s) - 1
      /\ \A i \in 1..(Len(s) - 1) : rest[i] = IF i < k THEN s[i] ELSE s[i + 1]
  <2>1. /\ rest \in Seq(FS!Paths) /\ Len(rest) = Len(l) + Len(r)
        /\ \A i \in 1..(Len(l) + Len(r)) : rest[i] = IF i <= Len(l) THEN l[i] ELSE r[i - Len(l)]
    BY <1>2, <1>3, ConcatProperties
  <2> HIDE DEF rest
  <2>2. ASSUME NEW i \in 1..(Len(s) - 1)
        PROVE  rest[i] = IF i < k THEN s[i] ELSE s[i + 1]
    <3>1. CASE i < k
      BY <1>1, <1>2, <1>3, <2>1, <3>1
    <3>2. CASE ~(i < k)
      <4>1. i - (k - 1) \in 1..(Len(s) - k) /\ k + (i - (k - 1)) = i + 1
        BY <1>1, <3>2
      <4>2. rest[i] = r[i - (k - 1)]
        <5>1. i \in 1..(Len(l) + Len(r)) /\ Len(l) = k - 1 /\ ~(i <= Len(l))
          BY <1>1, <1>2, <1>3, <3>2
        <5>2. rest[i] = r[i - Len(l)]
          BY <2>1, <5>1
        <5> QED BY <5>1, <5>2
      <4> QED BY <1>3, <3>2, <4>1, <4>2
    <3> QED BY <3>1, <3>2
  <2> QED BY <1>1, <1>2, <1>3, <2>1, <2>2
<1> HIDE DEF rest
<1>5. ASSUME NEW i \in 1..Len(rest), NEW j \in 1..Len(rest), rest[i] = rest[j]
      PROVE  i = j
  <2>1. i \in 1..(Len(s) - 1) /\ j \in 1..(Len(s) - 1)
    BY <1>4
  <2>2. \A m, n \in 1..Len(s) : s[m] = s[n] => m = n
    BY <1>1 DEF FS!IsInjective
  <2> QED BY <1>1, <1>4, <1>5, <2>1, <2>2
<1>6. FS!IsInjective(rest)
  BY <1>4, <1>5 DEF FS!IsInjective
<1> QED BY <1>4, <1>6 DEF FS!RemoveAt, rest, l, r

LEMMA FirstFacts ==
  ASSUME NEW s \in Seq(FS!Paths)
  PROVE  /\ FS!First(s) \in FS!Paths \cup {None}
         /\ s # <<>> => FS!First(s) \in FS!Paths
  BY DEF FS!First

LEMMA SelectionInit ==
  ASSUME FS!Init
  PROVE  SelectionInv
<1>1. fsSel = <<>> /\ fsMimes = {} /\ fsAsks = {} /\ fsChecks = {} /\ fsKind = None /\ fsLabel = None
  BY DEF FS!Init
<1>2. FS!IsInjective(<<>>) /\ FS!ToSet(<<>>) = {}
  BY DEF FS!IsInjective, FS!ToSet
<1>3. fsCalls \in 0..MaxCalls /\ fsFailed \in BOOLEAN
  <2>1. fsCalls = 0
    BY DEF FS!Init
  <2>2. fsFailed \in BOOLEAN
    BY Zenon DEF FS!Init
  <2> QED BY <2>1, <2>2, MCPagesAssumption
<1>4. FS!MimesMatchSelection
  BY <1>1, <1>2 DEF FS!MimesMatchSelection
<1> QED BY <1>1, <1>2, <1>3, <1>4 DEF SelectionInv, FS!Kinds

LEMMA DragInit ==
  ASSUME FS!Init
  PROVE  DragInv
<1>1. fsWeb \in Webs /\ fsDepth = 0 /\ fsAt = "out" /\ fsLeft = 0 /\ fsDrops = {}
  BY DEF FS!Init
<1>2. fsActive \in BOOLEAN /\ ~fsActive
  BY Zenon DEF FS!Init
<1> QED BY <1>1, <1>2 DEF DragInv, FS!Places

\* A new selection makes the questions about older ones void and asks its own.
LEMMA SelectFacts ==
  ASSUME SelectionInv, NEW new \in Seq(FS!Paths), FS!IsInjective(new),
         NEW newKind \in FS!Kinds, NEW forStore \in FS!Paths \cup {None},
         FS!Select(new, newKind, forStore)
  PROVE  SelectionInv'
<1> DEFINE old == {[a EXCEPT !.mounted = FALSE] : a \in fsAsks}
           ask == [paths |-> new, mounted |-> TRUE, n |-> fsCalls]
<1>0. /\ fsCalls \in 0..MaxCalls /\ fsCalls < MaxCalls /\ fsAsks \subseteq AskType
      /\ fsSel' = new /\ fsKind' = newKind /\ fsCalls' = fsCalls + 1 /\ fsLabel' = fsLabel
      /\ fsMimes' = (IF new = <<>> THEN {} ELSE fsMimes)
      /\ fsChecks' = fsChecks \cup FS!Checks(new, forStore)
      /\ fsAsks' = old \cup IF new = <<>> THEN {} ELSE {ask}
      /\ fsFailed' = (fsFailed /\ new # <<>>)
  BY DEF SelectionInv, FS!Select
<1>1. old \subseteq AskType /\ \A a \in old : ~a.mounted
  BY <1>0 DEF AskType
<1>2. ask \in AskType /\ ask.mounted = TRUE /\ ask.paths = new
  BY <1>0 DEF AskType
<1> HIDE DEF old, ask
<1>3. fsAsks' \subseteq AskType /\ \A a \in fsAsks' : a.mounted => a.paths = new
  BY <1>0, <1>1, <1>2
<1>4. FS!Checks(new, forStore) \subseteq FS!Call
  BY <1>0, FirstFacts DEF FS!Checks, FS!Call
<1>5. FS!MimesMatchSelection'
  <2>1. CASE new = <<>>
    BY <1>0, <2>1 DEF FS!MimesMatchSelection, FS!ToSet
  <2>2. CASE new # <<>>
    BY <1>0, <1>2, <2>2 DEF FS!MimesMatchSelection
  <2> QED BY <2>1, <2>2
<1>6. fsCalls' \in 0..MaxCalls
  BY <1>0, MCPagesAssumption
<1> QED BY <1>0, <1>3, <1>4, <1>5, <1>6 DEF SelectionInv

LEMMA HandleFilesSelectFacts ==
  ASSUME SelectionInv, NEW chosen \in SUBSET FS!Paths, NEW told \in FS!Kinds,
         FS!HandleFilesSelect(chosen, told)
  PROVE  SelectionInv'
<1> DEFINE new == FS!AddSelectedPaths(fsSel, chosen)
<1>1. new \in Seq(FS!Paths) /\ FS!IsInjective(new)
  BY AddFacts DEF SelectionInv
<1>2. \E k \in FS!Kinds, p \in FS!Paths \cup {None} : FS!Select(new, k, p)
  <2>1. fsKind \in FS!Kinds /\ None \in FS!Kinds /\ FS!First(new) \in FS!Paths \cup {None}
    BY <1>1, FirstFacts DEF SelectionInv, FS!Kinds
  <2>2. \/ FS!Select(new, None, None) \/ FS!Select(new, told, None)
        \/ FS!Select(new, fsKind, None) \/ FS!Select(new, fsKind, FS!First(new))
    BY DEF FS!HandleFilesSelect
  <2> QED BY <2>1, <2>2
<1> HIDE DEF new
<1> QED BY <1>1, <1>2, SelectFacts

\* What the user chooses and takes away.
LEMMA SelectionChosen ==
  ASSUME SelectionInv, FS!Choose
  PROVE  SelectionInv'
<1>0. fsSel \in Seq(FS!Paths) /\ FS!IsInjective(fsSel) /\ fsKind \in FS!Kinds /\ None \in FS!Kinds
  BY DEF SelectionInv, FS!Kinds
<1>1. ASSUME NEW fs \in SUBSET Files, FS!BrowseFile(fs)
      PROVE  SelectionInv'
  BY <1>1, HandleFilesSelectFacts DEF FS!BrowseFile, FS!Paths, FS!Kinds
<1>2. ASSUME NEW d \in Dirs, FS!BrowseFolder(d)
      PROVE  SelectionInv'
  BY <1>2, HandleFilesSelectFacts DEF FS!BrowseFolder, FS!Paths, FS!Kinds
<1>3. ASSUME NEW p \in FS!Paths, FS!ApplyIntent(p)
      PROVE  SelectionInv'
  <2>1. <<p>> \in Seq(FS!Paths) /\ FS!IsInjective(<<p>>)
    BY DEF FS!IsInjective
  <2> QED BY <1>0, <1>3, <2>1, SelectFacts DEF FS!ApplyIntent
<1>4. ASSUME NEW i \in DOMAIN fsSel, FS!RemoveSelectedPath(i)
      PROVE  SelectionInv'
  <2> DEFINE rest == FS!RemoveAt(fsSel, i)
  <2>1. rest \in Seq(FS!Paths) /\ FS!IsInjective(rest)
    BY <1>0, RemoveFacts
  <2>2. FS!First(rest) \in FS!Paths \cup {None}
    BY <2>1, FirstFacts
  <2>3. FS!Select(rest, fsKind, FS!First(rest)) \/ FS!Select(rest, None, None)
    BY <1>4 DEF FS!RemoveSelectedPath
  <2> HIDE DEF rest
  <2> QED BY <1>0, <2>1, <2>2, <2>3, SelectFacts
<1>5. CASE FS!ClearSelectedPath
  <2>1. <<>> \in Seq(FS!Paths) /\ FS!IsInjective(<<>>)
    BY DEF FS!IsInjective
  <2> QED BY <1>0, <1>5, <2>1, SelectFacts DEF FS!ClearSelectedPath
<1> QED BY <1>1, <1>2, <1>3, <1>4, <1>5 DEF FS!Choose

\* The answers of the engine, in any order.
LEMMA SelectionAnswered ==
  ASSUME SelectionInv, DragInv, FS!Answers
  PROVE  SelectionInv'
<1>1. ASSUME NEW c \in fsChecks, NEW ok \in BOOLEAN, FS!CheckAnswer(c, ok)
      PROVE  SelectionInv'
  <2>1. /\ UNCHANGED <<fsSel, fsMimes, fsAsks, fsFailed, fsCalls>>
        /\ fsChecks' \subseteq fsChecks
    BY <1>1 DEF FS!CheckAnswer
  <2>2. fsKind' \in FS!Kinds /\ fsLabel' \in FS!Kinds
    BY <1>1 DEF FS!CheckAnswer, FS!KindOf, FS!Kinds, SelectionInv
  <2> QED BY <2>1, <2>2 DEF SelectionInv, FS!MimesMatchSelection
<1>2. ASSUME NEW a \in fsAsks, NEW ok \in BOOLEAN, FS!MimeAnswer(a, ok)
      PROVE  SelectionInv'
  <2>1. /\ UNCHANGED <<fsSel, fsKind, fsLabel, fsChecks, fsCalls>>
        /\ fsAsks' = fsAsks \ {a} /\ a \in AskType
        /\ a.paths \in Seq(FS!Paths) /\ a.mounted \in BOOLEAN
    BY <1>2 DEF FS!MimeAnswer, SelectionInv, AskType
  <2>2. CASE ~a.mounted
    BY <1>2, <2>1, <2>2 DEF FS!MimeAnswer, SelectionInv, FS!MimesMatchSelection
  <2>3. CASE a.mounted /\ ok
    <3>1. a.paths = fsSel
      BY <2>3 DEF SelectionInv
    <3>2. fsMimes' = {p \in FS!ToSet(fsSel) : FS!Typed(p)} /\ fsFailed' = FALSE
      BY <1>2, <2>3, <3>1 DEF FS!MimeAnswer
    <3>3. fsMimes' \subseteq FS!Paths
      BY <2>1, <3>1, <3>2 DEF FS!ToSet
    <3>4. FS!MimesMatchSelection'
      BY <2>1, <3>2 DEF FS!MimesMatchSelection
    <3> QED BY <2>1, <3>2, <3>3, <3>4 DEF SelectionInv
  <2>4. CASE a.mounted /\ ~ok
    BY <1>2, <2>1, <2>4 DEF FS!MimeAnswer, SelectionInv, FS!MimesMatchSelection
  <2> QED BY <2>1, <2>2, <2>3, <2>4
<1>3. ASSUME NEW ps \in fsDrops, NEW ok \in BOOLEAN, FS!DropRead(ps, ok)
      PROVE  SelectionInv'
  <2>1. CASE ok
    <3>1. ps \in SUBSET FS!Paths /\ FS!ResolvePathType(ps) \in FS!Kinds
      BY DEF DragInv, FS!ResolvePathType, FS!Kinds
    <3> QED BY <1>3, <2>1, <3>1, HandleFilesSelectFacts DEF FS!DropRead
  <2>2. CASE ~ok
    BY <1>3, <2>2 DEF FS!DropRead, FS!selection, SelectionInv, FS!MimesMatchSelection
  <2> QED BY <2>1, <2>2
<1> QED BY <1>1, <1>2, <1>3 DEF FS!Answers

\* A drop on a desktop selects at once; the rest of a drag selects nothing.
LEMMA SelectionDragged ==
  ASSUME SelectionInv, FS!Drag
  PROVE  SelectionInv'
<1>1. ASSUME NEW ps \in SUBSET FS!Paths, FS!DragDropped(ps)
      PROVE  SelectionInv'
  BY <1>1, HandleFilesSelectFacts DEF FS!DragDropped, FS!Kinds
<1>2. CASE UNCHANGED FS!selection
  BY <1>2 DEF FS!selection, SelectionInv, FS!MimesMatchSelection
<1>3. (\E ps \in SUBSET FS!Paths : FS!DragDropped(ps)) \/ UNCHANGED FS!selection
  BY DEF FS!Drag, FS!HandleWebDragEnter, FS!HandleWebDragLeave, FS!HandleWebDrop,
         FS!DragEnter, FS!DragLeave
<1> QED BY <1>1, <1>2, <1>3

\* Enters and leaves of a browser come in pairs, in this order.
LEMMA DragNext ==
  ASSUME DragInv, FS!Next \/ UNCHANGED fsVars
  PROVE  DragInv'
<1>1. ASSUME NEW to \in FS!Places, FS!HandleWebDragEnter(to)
      PROVE  DragInv'
  <2>1. /\ fsWeb /\ fsLeft = 0 /\ to # "out" /\ fsAt' = to /\ fsActive' = TRUE
        /\ fsLeft' = (IF fsAt = "out" THEN 0 ELSE 1) /\ fsDepth' = fsDepth + 1
        /\ UNCHANGED <<fsWeb, fsDrops>>
    BY <1>1 DEF FS!HandleWebDragEnter
  <2>2. fsDepth = IF fsAt = "out" THEN 0 ELSE 1
    BY <2>1 DEF DragInv
  <2>3. fsDepth' = 1 + fsLeft' /\ fsDepth' \in Nat /\ fsLeft' \in 0..1
    BY <2>1, <2>2
  <2> QED BY <2>1, <2>3 DEF DragInv
<1>2. CASE FS!HandleWebDragLeave
  <2>1. /\ fsWeb /\ (fsLeft = 1 \/ fsAt # "out")
        /\ IF fsLeft = 1 THEN fsLeft' = 0 /\ fsAt' = fsAt ELSE fsAt' = "out" /\ fsLeft' = fsLeft
        /\ fsDepth' = (IF fsDepth = 0 THEN 0 ELSE fsDepth - 1)
        /\ fsActive' <=> fsActive /\ fsDepth' # 0
        /\ UNCHANGED <<fsWeb, fsDrops>>
    BY <1>2 DEF FS!HandleWebDragLeave
  <2>2. fsActive' \in BOOLEAN
    BY <1>2, Zenon DEF FS!HandleWebDragLeave
  <2>3. fsWeb' = fsWeb /\ fsDrops' = fsDrops
    BY <1>2 DEF FS!HandleWebDragLeave
  <2>4. fsLeft \in {0, 1} /\ fsAt # "out" /\ fsActive /\ fsDepth = 1 + fsLeft
    BY <2>1 DEF DragInv
  <2>5. CASE fsLeft = 1
    <3>1. fsLeft' = 0 /\ fsAt' = fsAt /\ fsDepth' = 1 /\ fsActive'
      BY <2>1, <2>4, <2>5
    <3> QED BY <2>4, <2>2, <2>3, <3>1 DEF DragInv
  <2>6. CASE fsLeft = 0
    <3>1. fsLeft' = 0 /\ fsAt' = "out" /\ fsDepth' = 0 /\ ~fsActive'
      BY <2>1, <2>4, <2>6
    <3> QED BY <2>2, <2>3, <3>1 DEF DragInv, FS!Places
  <2> QED BY <2>4, <2>5, <2>6
<1>3. ASSUME NEW ps \in SUBSET FS!Paths, FS!HandleWebDrop(ps)
      PROVE  DragInv'
  <2>1. /\ fsLeft = 0 /\ fsAt' = "out" /\ fsDepth' = 0
        /\ fsDrops' = fsDrops \cup {ps} /\ UNCHANGED <<fsWeb, fsLeft>>
    BY <1>3 DEF FS!HandleWebDrop
  <2>2. fsActive' \in BOOLEAN /\ ~fsActive'
    BY <1>3, Zenon DEF FS!HandleWebDrop
  <2> QED BY <2>1, <2>2 DEF DragInv, FS!Places
<1>4. CASE FS!DragEnter \/ FS!DragLeave
  <2>1. ~fsWeb /\ UNCHANGED <<fsWeb, fsDepth, fsLeft, fsDrops>>
    BY <1>4 DEF FS!DragEnter, FS!DragLeave
  <2>2. fsAt' \in {"zone", "out"} /\ (fsActive' = fsActive \/ fsActive' = FALSE)
    BY <1>4 DEF FS!DragEnter, FS!DragLeave
  <2> QED BY <2>1, <2>2 DEF DragInv, FS!Places
<1>5. ASSUME NEW ps \in SUBSET FS!Paths, FS!DragDropped(ps)
      PROVE  DragInv'
  <2>1. /\ ~fsWeb /\ fsAt' = "out" /\ fsActive' = FALSE
        /\ UNCHANGED <<fsWeb, fsDepth, fsLeft, fsDrops>>
    BY <1>5 DEF FS!DragDropped
  <2> QED BY <2>1 DEF DragInv, FS!Places
<1>6. ASSUME UNCHANGED <<fsWeb, fsDepth, fsActive, fsAt, fsLeft>>, fsDrops' \subseteq fsDrops
      PROVE  DragInv'
  BY <1>6 DEF DragInv
<1>7. CASE FS!Choose \/ FS!Answers \/ UNCHANGED fsVars
  <2>1. UNCHANGED <<fsWeb, fsDepth, fsActive, fsAt, fsLeft>> /\ fsDrops' \subseteq fsDrops
    BY <1>7 DEF FS!Choose, FS!BrowseFile, FS!BrowseFolder, FS!ApplyIntent,
                FS!RemoveSelectedPath, FS!ClearSelectedPath, FS!Answers, FS!CheckAnswer,
                FS!MimeAnswer, FS!DropRead, FS!drag, fsVars
  <2> QED BY <1>6, <2>1
<1>8. CASE FS!Drag
  BY <1>1, <1>2, <1>3, <1>4, <1>5, <1>8 DEF FS!Drag
<1> QED BY <1>7, <1>8 DEF FS!Next

LEMMA SelectionNext ==
  ASSUME SelectionInv, DragInv, FS!Next \/ UNCHANGED fsVars
  PROVE  SelectionInv'
<1>1. CASE UNCHANGED fsVars
  BY <1>1 DEF fsVars, SelectionInv, FS!MimesMatchSelection
<1> QED BY <1>1, SelectionChosen, SelectionAnswered, SelectionDragged DEF FS!Next

------------------------------------------------------------------------------
(* Induction, and sums by FoldLeft                                          *)

LEMMA LeastExists ==
  ASSUME NEW S \in SUBSET Nat, S # {}
  PROVE  \E m \in S : \A k \in S : m <= k
<1> DEFINE less == {p \in Nat \X Nat : p[1] < p[2]}
<1>1. IsWellFoundedOn(less, Nat)
  <2>1. less = OpToRel(<, Nat)
    BY DEF OpToRel
  <2> HIDE DEF less
  <2> QED BY <2>1, NatLessThanWellFounded
<1>2. \A k, m \in S : k < m => <<k, m>> \in less
  OBVIOUS
<1>3. \E m \in S : \A k \in S : ~(<<k, m>> \in less)
  <2> HIDE DEF less
  <2> QED BY <1>1, WFMin
<1> HIDE DEF less
<1>4. PICK m \in S : \A k \in S : ~(<<k, m>> \in less)
  BY <1>3
<1>5. \A k \in S : ~(k < m)
  BY <1>2, <1>4
<1>6. m \in Nat /\ \A k \in S : k \in Nat
  OBVIOUS
<1>7. \A k \in S : m <= k
  BY <1>5, <1>6
<1> QED BY <1>7

\* Induction, stated of a set.
LEMMA Counting ==
  ASSUME NEW G, 0 \in G, \A n \in Nat : n \in G => n + 1 \in G
  PROVE  \A n \in Nat : n \in G
<1> SUFFICES ASSUME Nat \ G # {} PROVE FALSE
  OBVIOUS
<1>1. PICK m \in Nat \ G : \A k \in Nat \ G : m <= k
  <2>1. Nat \ G \in SUBSET Nat
    OBVIOUS
  <2> QED BY <2>1, LeastExists
<1>2. m # 0
  BY <1>1
<1>3. m - 1 \in Nat /\ ~(m <= m - 1) /\ (m - 1) + 1 = m
  BY <1>2
<1>4. m - 1 \in G
  BY <1>1, <1>3
<1> QED BY <1>1, <1>3, <1>4

\* The order in which FoldLeft comes to the places of a sequence.
Greatest(t) == CHOOSE x \in t : \A y \in t : x >= y

\* A sum by FoldLeft: what it is of a set of places, from what it is of smaller ones.
Summed(v, g, t) == IF t = {} THEN 0 ELSE g[t \ {Greatest(t)}] + v[Greatest(t)]

FoldedSum(v, n) == (CHOOSE g : g = [t \in SUBSET (1..n) |-> Summed(v, g, t)])[1..n]

LEMMA GreatestExists ==
  ASSUME NEW n \in Nat, NEW t \in SUBSET (1..n), t # {}
  PROVE  Greatest(t) \in t /\ \A y \in t : Greatest(t) >= y
<1> DEFINE G == {k \in Nat : \A s \in SUBSET (1..k) : s # {} => \E x \in s : \A y \in s : x >= y}
<1>1. 0 \in G
  <2>1. 1..0 = {}
    OBVIOUS
  <2> QED BY <2>1
<1>2. ASSUME NEW k \in Nat, k \in G
      PROVE  k + 1 \in G
  <2> SUFFICES ASSUME NEW s \in SUBSET (1..(k + 1)), s # {}
               PROVE  \E x \in s : \A y \in s : x >= y
    OBVIOUS
  <2>1. CASE k + 1 \in s
    BY <2>1
  <2>2. CASE k + 1 \notin s
    <3>1. s \in SUBSET (1..k)
      BY <2>2
    <3> QED BY <1>2, <3>1
  <2> QED BY <2>1, <2>2
<1>3. n \in G
  <2> HIDE DEF G
  <2> QED BY <1>1, <1>2, Counting
<1> QED BY <1>3 DEF Greatest

LEMMA SummedExists ==
  ASSUME NEW n \in Nat, NEW v
  PROVE  \E h : h = [t \in SUBSET (1..n) |-> Summed(v, h, t)]
<1> DEFINE G == {k \in Nat : \E g : g = [t \in SUBSET (1..k) |-> Summed(v, g, t)]}
<1>1. 0 \in G
  <2>1. SUBSET (1..0) = {{}}
    OBVIOUS
  <2> DEFINE g == [t \in SUBSET (1..0) |-> 0]
  <2>2. g = [t \in SUBSET (1..0) |-> Summed(v, g, t)]
    BY <2>1 DEF Summed
  <2> QED BY <2>2
<1>2. ASSUME NEW k \in Nat, k \in G
      PROVE  k + 1 \in G
  <2>1. PICK g : g = [t \in SUBSET (1..k) |-> Summed(v, g, t)]
    BY <1>2
  <2> DEFINE D == SUBSET (1..k)
             E == SUBSET (1..(k + 1))
             low(t) == t \ {Greatest(t)}
             \* one place more: the places of t but the last are in the domain of g
             h == [t \in E |-> Summed(v, g, t)]
  <2>2. \A t \in E : t # {} => low(t) \in D
    <3> SUFFICES ASSUME NEW t \in E, t # {}, NEW x \in low(t)
                 PROVE  x \in 1..k
      OBVIOUS
    <3>1. k + 1 \in Nat
      OBVIOUS
    <3>2. Greatest(t) \in t /\ \A y \in t : Greatest(t) >= y
      BY <3>1, GreatestExists
    <3>3. Greatest(t) \in 1..(k + 1) /\ x \in 1..(k + 1) /\ x # Greatest(t) /\ Greatest(t) >= x
      BY <3>2
    <3> HIDE DEF low
    <3> QED BY <3>3
  <2>3. \A t \in D : t \in E /\ h[t] = g[t]
    <3>1. \A t \in D : t \in E
      OBVIOUS
    <3>2. \A t \in D : g[t] = Summed(v, g, t)
      <4> HIDE DEF D
      <4> QED BY <2>1 DEF D
    <3> HIDE DEF D, E
    <3> QED BY <3>1, <3>2
  <2>4. \A t \in E : Summed(v, g, t) = Summed(v, h, t)
    <3> HIDE DEF D, E, h
    <3> QED BY <2>2, <2>3 DEF Summed
  <2>5. h = [t \in E |-> Summed(v, h, t)]
    <3> HIDE DEF E
    <3> QED BY <2>4, Zenon
  <2>6. \E x : x = [t \in E |-> Summed(v, x, t)]
    BY <2>5, Zenon
  <2> QED BY <2>6
<1>3. n \in G
  <2> HIDE DEF G
  <2> QED BY <1>1, <1>2, Counting
<1> QED BY <1>3

\* The running total of v.
Accumulates(v, acc, n) == acc[0] = 0 /\ \A k \in 1..n : acc[k] = acc[k - 1] + v[k]

LEMMA RunningTotal ==
  ASSUME NEW n \in Nat, NEW v
  PROVE  \E acc : Accumulates(v, acc, n) /\ FoldedSum(v, n) = acc[n]
<1> DEFINE g == CHOOSE g : g = [t \in SUBSET (1..n) |-> Summed(v, g, t)]
           acc == [k \in 0..n |-> g[1..k]]
<1>1. g = [t \in SUBSET (1..n) |-> Summed(v, g, t)]
  BY SummedExists
<1>2. \A t \in SUBSET (1..n) : g[t] = Summed(v, g, t)
  <2> HIDE DEF g
  <2> QED BY <1>1
<1>3. FoldedSum(v, n) = acc[n]
  BY DEF FoldedSum
<1> HIDE DEF g
<1>4. acc[0] = 0
  <2>1. acc[0] = g[{}]
    <3>1. 1..0 = {}
      OBVIOUS
    <3> QED BY <3>1
  <2> QED BY <1>2, <2>1 DEF Summed
<1>5. ASSUME NEW k \in 1..n
      PROVE  acc[k] = acc[k - 1] + v[k]
  <2>1. 1..k \in SUBSET (1..n) /\ 1..k # {} /\ k \in 1..k /\ k \in Nat /\ 1..k \in SUBSET (1..k)
    OBVIOUS
  <2>2. Greatest(1..k) = k
    <3>1. Greatest(1..k) \in 1..k /\ Greatest(1..k) >= k
      BY <2>1, GreatestExists
    <3> QED BY <3>1
  <2>3. (1..k) \ {k} = 1..(k - 1)
    OBVIOUS
  <2>4. g[1..k] = g[1..(k - 1)] + v[k]
    BY <1>2, <2>1, <2>2, <2>3 DEF Summed
  <2>5. k \in 0..n /\ k - 1 \in 0..n
    OBVIOUS
  <2> QED BY <2>4, <2>5
<1> HIDE DEF acc
<1> QED BY <1>3, <1>4, <1>5 DEF Accumulates

------------------------------------------------------------------------------
(* The progress of a transfer (TransferMeter)                               *)

LEMMA MeterSum ==
  ASSUME NEW s \in Seq(Nat)
  PROVE  TM!Sum(s) = FoldedSum(s, Len(s))
<1>1. DOMAIN s = 1..Len(s)
  OBVIOUS
<1> QED BY <1>1, Zenon DEF TM!Sum, TM!FoldLeft, TM!MapThenFoldSet, TM!Max, FoldedSum, Summed, Greatest

LEMMA TotalIsNat ==
  ASSUME NEW s \in Seq(Nat)
  PROVE  TM!Sum(s) \in Nat
<1>1. PICK acc : Accumulates(s, acc, Len(s)) /\ TM!Sum(s) = acc[Len(s)]
  <2>1. Len(s) \in Nat
    OBVIOUS
  <2> QED BY <2>1, MeterSum, RunningTotal
<1> DEFINE G == {k \in Nat : k <= Len(s) => acc[k] \in Nat}
<1>2. 0 \in G
  BY <1>1 DEF Accumulates
<1>3. ASSUME NEW k \in Nat, k \in G
      PROVE  k + 1 \in G
  <2> SUFFICES ASSUME k + 1 <= Len(s)
               PROVE  acc[k + 1] \in Nat
    OBVIOUS
  <2>1. k + 1 \in 1..Len(s) /\ (k + 1) - 1 = k /\ acc[k] \in Nat /\ s[k + 1] \in Nat
    BY <1>3
  <2>2. acc[k + 1] = acc[(k + 1) - 1] + s[k + 1]
    BY <1>1, <2>1 DEF Accumulates
  <2> QED BY <2>1, <2>2
<1>4. Len(s) \in G
  <2>1. Len(s) \in Nat
    OBVIOUS
  <2> HIDE DEF G
  <2> QED BY <1>2, <1>3, <2>1, Counting
<1> QED BY <1>1, <1>4

\* What a progress is made of, and what the page of either side is in.
ProgressType(p) ==
  /\ p.since \in Nat /\ p.bytes \in Nat /\ p.total \in Nat
  /\ p.eta # <<>> => p.eta[1] > 0 /\ p.eta[2] > 0

MeterPages == [view : {"IDLE", "SHARING", "TRANSPORTING", "SUCCESS", "RECEIVING"},
               broadcast : BOOLEAN, stopped : BOOLEAN, path : BOOLEAN]

\* What is kept for the interval to copy is as fresh as what is shown, and the
\* interval copies in no idle page.
Measured(p) == ProgressType(p) /\ p.since \in {0, tmStarted}

MeterInv ==
  /\ TM!TypeOK
  /\ tmPage \in MeterPages /\ tmTimer \in {"none", "SHARING", "TRANSPORTING"}
  /\ Measured(tmLatest) /\ Measured(tmShown)
  /\ TM!IdleShowsNothing
  /\ TM!AverageIsRecent

LEMMA NoProgressType ==
  /\ ProgressType(TM!NoProgress) /\ TM!NoProgress.since = 0 /\ Measured(TM!NoProgress)
  BY DEF ProgressType, TM!NoProgress, Measured

LEMMA IdlePage == TM!Idle \in MeterPages /\ TM!Idle.view = "IDLE"
  BY DEF TM!Idle, MeterPages

\* An averager that has just been reset.
LEMMA NoSamples ==
  SubSeq(<<>>, Len(<<>>) + 1 - TM!Lesser(Len(<<>>), MaxSamples), Len(<<>>)) = <<>>
<1>1. TM!Lesser(0, MaxSamples) = 0
  BY MCPagesAssumption DEF TM!Lesser
<1>2. SubSeq(<<>>, 1, 0) = <<>> /\ Len(<<>>) = 0
  OBVIOUS
<1> QED BY <1>1, <1>2

LEMMA MeterInit == TM!Init => MeterInv
<1> SUFFICES ASSUME TM!Init PROVE MeterInv
  OBVIOUS
<1>1. TM!TypeOK
  <2>1. tmSender \in BOOLEAN
    BY Zenon DEF TM!Init
  <2>2. tmStarted \in 0..MaxTransfers /\ tmSpeeds \in Seq(Speeds) /\ tmLog \in Seq(Speeds)
    BY MCPagesAssumption DEF TM!Init
  <2>3. \A p \in {tmLatest, tmShown} : p.eta # <<>> => p.eta[1] > 0 /\ p.eta[2] > 0
    BY NoProgressType DEF TM!Init, ProgressType
  <2> QED BY <2>1, <2>2, <2>3 DEF TM!TypeOK
<1>2. tmPage \in MeterPages /\ tmTimer \in {"none", "SHARING", "TRANSPORTING"}
  BY IdlePage DEF TM!Init
<1>3. tmLatest = TM!NoProgress /\ tmShown = TM!NoProgress /\ tmSpeeds = <<>> /\ tmLog = <<>>
  BY DEF TM!Init
<1>4. TM!AverageIsRecent
  BY <1>3, NoSamples DEF TM!AverageIsRecent
<1> QED BY <1>1, <1>2, <1>3, <1>4, NoProgressType DEF MeterInv, TM!IdleShowsNothing

\* The time left is nothing, or a positive number by a positive one.
LEMMA EtaIsPositive ==
  ASSUME NEW remaining \in Nat, NEW s \in Seq(Nat)
  PROVE  LET eta == TM!CalculateETA(remaining, s)
         IN  eta # <<>> => eta[1] > 0 /\ eta[2] > 0
<1>1. TM!Sum(s) \in Nat
  BY TotalIsNat
<1>2. CASE s = <<>> \/ TM!Sum(s) = 0 \/ remaining = 0
  BY <1>2 DEF TM!CalculateETA
<1>3. CASE ~(s = <<>> \/ TM!Sum(s) = 0 \/ remaining = 0)
  <2>1. TM!CalculateETA(remaining, s) = <<remaining * Len(s), TM!Sum(s)>>
    BY <1>3 DEF TM!CalculateETA
  <2>2. Len(s) \in Nat /\ Len(s) > 0
    BY <1>3
  <2>3. remaining * Len(s) > 0
    BY <1>3, <2>2
  <2> QED BY <1>1, <1>3, <2>1, <2>3
<1> QED BY <1>2, <1>3

\* The last k of a sequence, when one is appended: the first of them goes, or not.
Shifts(log, v, k, last) ==
  LET t == Append(last, v)
      l == Append(log, v)
  IN  /\ Len(t) = k + 1
      /\ t = SubSeq(l, Len(log) + 1 - k, Len(log) + 1)
      /\ Tail(t) = SubSeq(l, Len(log) + 2 - k, Len(log) + 1)

LEMMA LastShift ==
  ASSUME NEW S, NEW log \in Seq(S), NEW v \in S, NEW k \in 0..Len(log)
  PROVE  Shifts(log, v, k, SubSeq(log, Len(log) + 1 - k, Len(log)))
<1> DEFINE n == Len(log)
           a == n + 1 - k
           last == SubSeq(log, a, n)
           t == Append(last, v)
           l == Append(log, v)
           long == SubSeq(l, a, n + 1)
<1>1. n \in Nat /\ k \in Nat /\ k <= n /\ a \in 1..(n + 1)
  OBVIOUS
<1>2. l \in Seq(S) /\ Len(l) = n + 1 /\ l[n + 1] = v /\ \A i \in 1..n : l[i] = log[i]
  BY AppendProperties
<1>3. last \in Seq(S) /\ Len(last) = k /\ \A i \in 1..k : last[i] = log[a + i - 1]
  <2>1. \A i \in a..n : log[i] \in S
    BY <1>1
  <2>2. a \in Int /\ n \in Int /\ n - a + 1 = k /\ (IF a <= n THEN n - a + 1 ELSE 0) = k
    BY <1>1
  <2> HIDE DEF a, n
  <2> QED BY <2>1, <2>2, SubSeqProperties
<1>4. t \in Seq(S) /\ Len(t) = k + 1 /\ t[k + 1] = v /\ \A i \in 1..k : t[i] = last[i]
  <2> HIDE DEF last
  <2> QED BY <1>3, AppendProperties
<1>5. long \in Seq(S) /\ Len(long) = k + 1 /\ \A i \in 1..(k + 1) : long[i] = l[a + i - 1]
  <2>1. \A i \in a..(n + 1) : l[i] \in S
    <3> HIDE DEF l, a
    <3> QED BY <1>1, <1>2, ElementOfSeq
  <2>2. /\ a \in Int /\ n + 1 \in Int /\ (n + 1) - a + 1 = k + 1
        /\ (IF a <= n + 1 THEN (n + 1) - a + 1 ELSE 0) = k + 1
    BY <1>1
  <2> HIDE DEF a, n, l
  <2> QED BY <2>1, <2>2, SubSeqProperties
<1>6. t = long
  <2>1. \A i \in 1..(k + 1) : t[i] = long[i]
    <3> SUFFICES ASSUME NEW i \in 1..(k + 1)
                 PROVE  t[i] = long[i]
      OBVIOUS
    <3>1. CASE i = k + 1
      <4>1. a + i - 1 = n + 1
        BY <1>1, <3>1
      <4> HIDE DEF t, long, l, a
      <4> QED BY <1>2, <1>4, <1>5, <3>1, <4>1
    <3>2. CASE i # k + 1
      <4>1. i \in 1..k /\ a + i - 1 \in 1..n
        BY <1>1, <3>2
      <4> HIDE DEF t, long, l, a, last, n
      <4> QED BY <1>2, <1>3, <1>4, <1>5, <4>1
    <3> QED BY <3>1, <3>2
  <2> HIDE DEF t, long
  <2> QED BY <1>4, <1>5, <2>1, SeqEqual
<1>7. Tail(long) = SubSeq(l, a + 1, n + 1)
  <2>1. a \in 1..Len(l) /\ n + 1 \in a..Len(l)
    BY <1>1, <1>2
  <2> HIDE DEF l, a, n
  <2> QED BY <1>2, <2>1, HeadTailOfSubSeq
<1>8. a + 1 = n + 2 - k
  BY <1>1
<1> QED BY <1>4, <1>6, <1>7, <1>8 DEF Shifts

\* AddSample keeps the last samples of the log.
LEMMA SamplesAreLast ==
  ASSUME MeterInv, NEW v \in Speeds
  PROVE  LET s == TM!AddSample(tmSpeeds, v)
             l == Append(tmLog, v)
         IN  /\ s \in Seq(Speeds) /\ l \in Seq(Speeds)
             /\ s = SubSeq(l, Len(l) + 1 - TM!Lesser(Len(l), MaxSamples), Len(l))
<1> DEFINE n == Len(tmLog)
           l == Append(tmLog, v)
           k == TM!Lesser(n, MaxSamples)
           t == Append(tmSpeeds, v)
<1>1. /\ tmLog \in Seq(Speeds) /\ tmSpeeds \in Seq(Speeds)
      /\ tmSpeeds = SubSeq(tmLog, n + 1 - k, n)
  BY DEF MeterInv, TM!TypeOK, TM!AverageIsRecent
<1>2. n \in Nat /\ MaxSamples \in Nat
  BY <1>1, MCPagesAssumption
<1>3. k \in 0..n /\ k \in Nat /\ k <= MaxSamples /\ (k < MaxSamples => k = n)
  BY <1>2 DEF TM!Lesser
<1>4. Len(l) = n + 1 /\ l \in Seq(Speeds) /\ t \in Seq(Speeds) /\ t # <<>>
  BY <1>1, AppendProperties
<1>5. /\ Len(t) = k + 1
      /\ t = SubSeq(l, n + 1 - k, n + 1)
      /\ Tail(t) = SubSeq(l, n + 2 - k, n + 1)
  <2> HIDE DEF k
  <2>1. Shifts(tmLog, v, k, SubSeq(tmLog, n + 1 - k, n))
    BY <1>1, <1>3, LastShift, Zenon
  <2>2. Shifts(tmLog, v, k, tmSpeeds)
    BY <1>1, <2>1, Zenon
  <2> QED BY <2>2, Zenon DEF Shifts
<1>6. CASE k < MaxSamples
  <2>1. TM!Lesser(n + 1, MaxSamples) = n + 1 /\ ~(k + 1 > MaxSamples) /\ k = n
    BY <1>2, <1>3, <1>6 DEF TM!Lesser
  <2>2. TM!AddSample(tmSpeeds, v) = t
    BY <1>5, <2>1 DEF TM!AddSample
  <2>3. (n + 1) + 1 - (n + 1) = n + 1 - k
    BY <1>2, <2>1
  <2> HIDE DEF l, t, n, k
  <2> QED BY <1>4, <1>5, <2>1, <2>2, <2>3 DEF l
<1>7. CASE ~(k < MaxSamples)
  <2>1. TM!Lesser(n + 1, MaxSamples) = k /\ k + 1 > MaxSamples
    BY <1>2, <1>3, <1>7 DEF TM!Lesser
  <2>2. TM!AddSample(tmSpeeds, v) = Tail(t)
    BY <1>5, <2>1 DEF TM!AddSample
  <2>3. (n + 1) + 1 - k = n + 2 - k
    BY <1>2, <1>3
  <2>4. Tail(t) \in Seq(Speeds)
    BY <1>4, HeadTailProperties
  <2> HIDE DEF l, t, n, k
  <2> QED BY <1>4, <1>5, <2>1, <2>2, <2>3, <2>4 DEF l
<1> QED BY <1>6, <1>7

\* A progress event: the page accepts it, so it is not idle.
LEMMA MeterProgress ==
  ASSUME MeterInv, NEW total \in Totals, NEW speed \in Speeds, NEW bytes \in 0..(total + 1),
         TM!Progress(bytes, total, speed)
  PROVE  MeterInv'
<1> DEFINE s == TM!AddSample(tmSpeeds, speed)
           eta == TM!CalculateETA(total - TM!Lesser(bytes, total), s)
           p == [since |-> tmStarted, bytes |-> bytes, total |-> total, eta |-> eta]
<1>1. /\ total \in Nat /\ bytes \in Nat /\ Speeds \subseteq Nat
      /\ UNCHANGED <<tmSender, tmPage, tmTimer, tmStarted>>
      /\ tmLog' = Append(tmLog, speed) /\ tmLog' \in Seq(Speeds)
      /\ tmStarted \in Nat
  BY MCPagesAssumption DEF TM!Progress, MeterInv, TM!TypeOK
<1>2. s \in Seq(Speeds) /\ s \in Seq(Nat)
  <2>1. s \in Seq(Speeds)
    BY SamplesAreLast
  <2> HIDE DEF s
  <2> QED BY <1>1, <2>1, SeqMonotonic
<1>3. /\ tmSpeeds' = s
      /\ {tmLatest', tmShown'} \subseteq {tmLatest, tmShown, p}
      /\ tmPage.view # "IDLE"
  BY DEF TM!Progress, TM!Accepts
<1>4. eta # <<>> => eta[1] > 0 /\ eta[2] > 0
  <2>1. total - TM!Lesser(bytes, total) \in Nat
    BY <1>1 DEF TM!Lesser
  <2> HIDE DEF s
  <2> QED BY <1>2, <2>1, EtaIsPositive
<1>5. Measured(p)
  <2> HIDE DEF eta
  <2> QED BY <1>1, <1>4 DEF Measured, ProgressType
<1>6. \A q \in {tmLatest, tmShown, p} : Measured(q)
  <2> HIDE DEF p
  <2> QED BY <1>5 DEF MeterInv
<1>7. Measured(tmLatest)' /\ Measured(tmShown)'
  <2> HIDE DEF p
  <2> QED BY <1>1, <1>3, <1>6 DEF Measured, ProgressType
<1>8. tmSpeeds' = SubSeq(tmLog', Len(tmLog') + 1 - TM!Lesser(Len(tmLog'), MaxSamples), Len(tmLog'))
  <2> HIDE DEF p
  <2> QED BY <1>1, <1>3, SamplesAreLast
<1>9. TM!TypeOK'
  <2> HIDE DEF p, s
  <2>1. tmSpeeds' \in Seq(Speeds)
    BY <1>2, <1>3
  <2> QED BY <1>1, <1>7, <2>1 DEF MeterInv, TM!TypeOK, Measured, ProgressType
<1>10. TM!AverageIsRecent'
  BY <1>8 DEF TM!AverageIsRecent, TM!Lesser
<1> QED BY <1>1, <1>3, <1>7, <1>9, <1>10 DEF MeterInv, TM!IdleShowsNothing

\* A step that copies or empties the ref and the page, and samples nothing.
LEMMA MeterCopies ==
  ASSUME MeterInv, UNCHANGED <<tmSender, tmStarted>>,
         UNCHANGED <<tmSpeeds, tmLog>> \/ (tmSpeeds' = <<>> /\ tmLog' = <<>>),
         tmLatest' \in {tmLatest, TM!NoProgress},
         tmShown' \in {tmShown, tmLatest, TM!NoProgress},
         tmPage' \in MeterPages, tmTimer' \in {"none", tmTimer},
         tmPage'.view = "IDLE" => tmShown' = TM!NoProgress
  PROVE  MeterInv'
<1>1. Measured(tmLatest)' /\ Measured(tmShown)'
  BY NoProgressType DEF MeterInv, Measured, ProgressType
<1>2. TM!AverageIsRecent'
  <2>1. CASE UNCHANGED <<tmSpeeds, tmLog>>
    BY <2>1 DEF MeterInv, TM!AverageIsRecent, TM!Lesser
  <2>2. CASE tmSpeeds' = <<>> /\ tmLog' = <<>>
    BY <2>2, NoSamples DEF TM!AverageIsRecent
  <2> QED BY <2>1, <2>2
<1>3. tmSpeeds' \in Seq(Speeds) /\ tmLog' \in Seq(Speeds)
  <2>1. tmSpeeds \in Seq(Speeds) /\ tmLog \in Seq(Speeds) /\ <<>> \in Seq(Speeds)
    BY DEF MeterInv, TM!TypeOK
  <2> QED BY <2>1, Zenon
<1>4. TM!TypeOK'
  BY <1>1, <1>3 DEF MeterInv, TM!TypeOK, Measured, ProgressType
<1> QED BY <1>1, <1>2, <1>4 DEF MeterInv, TM!IdleShowsNothing

\* An announcement empties both, in whatever view it is heard.
LEMMA MeterStarted ==
  ASSUME MeterInv, TM!Started
  PROVE  MeterInv'
<1>1. /\ tmSpeeds' = <<>> /\ tmLog' = <<>> /\ tmLatest' = TM!NoProgress /\ tmShown' = TM!NoProgress
      /\ tmSender' = tmSender
  BY DEF TM!Started, TM!Announced, TM!Cleared
<1>2. tmStarted' \in 0..MaxTransfers
  BY MCPagesAssumption DEF TM!Started, TM!Announced, MeterInv, TM!TypeOK
<1>3. tmPage' \in MeterPages /\ tmTimer' \in {"none", "SHARING", "TRANSPORTING"}
  BY DEF TM!Started, TM!Announced, MeterInv, MeterPages
<1>4. TM!AverageIsRecent'
  BY <1>1, NoSamples DEF TM!AverageIsRecent
<1>5. TM!TypeOK'
  BY <1>1, <1>2, NoProgressType DEF MeterInv, TM!TypeOK, ProgressType
<1>6. Measured(tmLatest)' /\ Measured(tmShown)'
  BY <1>1, NoProgressType DEF Measured, ProgressType
<1> QED BY <1>1, <1>3, <1>4, <1>5, <1>6 DEF MeterInv, TM!IdleShowsNothing

\* The other steps of the sender's page: every way to an idle page empties it.
LEMMA MeterPage ==
  ASSUME MeterInv,
         \/ TM!Completed \/ TM!Failed \/ TM!ReceiveCompleted \/ TM!Tick
         \/ \E c \in tmDue : TM!Finish(c) \/ TM!Relisten(c) \/ \E ok \in BOOLEAN : TM!StopAnswer(c, ok)
         \/ TM!StartSharing \/ TM!SetBroadcast \/ TM!StopSharing \/ TM!Done
         \/ TM!ReceiveWithTicket \/ TM!ResetForNewTransfer
  PROVE  MeterInv'
<1> USE IdlePage
<1>0. /\ tmPage \in MeterPages /\ tmTimer \in {"none", "SHARING", "TRANSPORTING"}
      /\ tmPage.view = "IDLE" => tmShown = TM!NoProgress
  BY DEF MeterInv, TM!IdleShowsNothing
<1>1. CASE TM!Completed
  <2>1. tmPage.view # "IDLE" /\ tmPage' = tmPage
    BY <1>1 DEF TM!Completed, TM!EndCounts
  <2> QED BY <1>0, <1>1, <2>1, MeterCopies DEF TM!Completed, TM!Copied
<1>2. CASE TM!Failed
  <2>1. tmPage' \in MeterPages
    BY <1>0, <1>2 DEF TM!Failed, MeterPages
  <2> QED BY <1>2, <2>1, MeterCopies DEF TM!Failed
<1>3. CASE TM!ReceiveCompleted
  BY <1>0, <1>3, MeterCopies DEF TM!ReceiveCompleted
<1>4. CASE TM!Tick
  <2>1. tmPage.view # "IDLE" /\ tmPage' = tmPage
    BY <1>0, <1>4 DEF TM!Tick
  <2> QED BY <1>0, <1>4, <2>1, MeterCopies DEF TM!Tick, TM!Copied
<1>5. ASSUME NEW c, TM!Finish(c)
      PROVE  MeterInv'
  <2>1. tmPage' \in MeterPages /\ (tmPage' = tmPage \/ tmPage'.view = "SUCCESS")
    BY <1>0, <1>5 DEF TM!Finish, MeterPages
  <2> QED BY <1>0, <1>5, <2>1, MeterCopies DEF TM!Finish
<1>6. ASSUME NEW c, TM!Relisten(c)
      PROVE  MeterInv'
  <2>1. tmPage' \in MeterPages
    BY <1>0, <1>6 DEF TM!Relisten, MeterPages
  <2> QED BY <1>6, <2>1, MeterCopies DEF TM!Relisten
<1>7. ASSUME NEW c, NEW ok \in BOOLEAN, TM!StopAnswer(c, ok)
      PROVE  MeterInv'
  <2>1. tmPage' \in MeterPages
    BY <1>0, <1>7 DEF TM!StopAnswer, MeterPages
  <2>2. CASE ok
    BY <1>7, <2>1, <2>2, MeterCopies DEF TM!StopAnswer, TM!Cleared
  <2>3. CASE ~ok
    BY <1>0, <1>7, <2>3, MeterCopies DEF TM!StopAnswer, TM!meter
  <2> QED BY <2>2, <2>3
<1>8. CASE TM!StartSharing
  <2>1. tmPage' \in MeterPages
    BY <1>8 DEF TM!StartSharing, MeterPages
  <2> QED BY <1>8, <2>1, MeterCopies DEF TM!StartSharing, TM!Cleared
<1>9. CASE TM!SetBroadcast
  <2>1. tmPage' \in MeterPages /\ tmPage'.view = tmPage.view
    BY <1>0, <1>9 DEF TM!SetBroadcast, MeterPages
  <2> QED BY <1>0, <1>9, <2>1, MeterCopies DEF TM!SetBroadcast, TM!meter
<1>10. CASE TM!StopSharing
  <2>1. /\ tmPage.view \in {"SHARING", "TRANSPORTING"}
        /\ \/ tmPage' = [tmPage EXCEPT !.view = "SUCCESS", !.broadcast = FALSE, !.stopped = TRUE]
           \/ tmPage' = [tmPage EXCEPT !.broadcast = FALSE]
    BY <1>10 DEF TM!StopSharing
  <2>2. tmPage' \in MeterPages /\ tmPage'.view # "IDLE"
    BY <1>0, <2>1 DEF MeterPages
  <2> QED BY <1>10, <2>2, MeterCopies DEF TM!StopSharing, TM!meter
<1>11. CASE TM!Done
  BY <1>11, MeterCopies DEF TM!Done, TM!Cleared
<1>12. CASE TM!ReceiveWithTicket
  <2>1. tmPage' \in MeterPages
    BY <1>0, <1>12 DEF TM!ReceiveWithTicket, MeterPages
  <2> QED BY <1>12, <2>1, MeterCopies DEF TM!ReceiveWithTicket
<1>13. CASE TM!ResetForNewTransfer
  BY <1>13, MeterCopies DEF TM!ResetForNewTransfer
<1> QED BY <1>1, <1>2, <1>3, <1>4, <1>5, <1>6, <1>7, <1>8, <1>9, <1>10, <1>11, <1>12, <1>13

LEMMA MeterNext ==
  ASSUME MeterInv, TM!Next \/ UNCHANGED tmVars
  PROVE  MeterInv'
<1>1. CASE UNCHANGED tmVars
  BY <1>1 DEF tmVars, MeterInv, TM!TypeOK, TM!IdleShowsNothing, TM!AverageIsRecent, TM!Lesser,
              Measured, ProgressType
<1> QED BY <1>1, MeterStarted, MeterProgress, MeterPage DEF TM!Next

\* Division with a remainder.
LEMMA Divided ==
  ASSUME NEW p \in Nat, NEW d \in Nat \ {0}
  PROVE  /\ p \div d \in Nat /\ p % d \in Nat /\ p % d < d
         /\ p = d * (p \div d) + (p % d)
  OBVIOUS

\* For any share of the whole and any number of bars: none is more than full, and
\* together they are the share, times the number of bars.
LEMMA BarsSum ==
  ASSUME NEW a \in Nat, NEW d \in Nat \ {0}, a <= d
  PROVE  LET f == <<a, d>>
             fills == [i \in 1..Bars |-> TM!Fill(f, i - 1)]
         IN  /\ \A i \in 1..Bars : fills[i] \in 0..d
             /\ TM!Sum(fills) = a * Bars
<1> DEFINE f == <<a, d>>
           fills == [i \in 1..Bars |-> TM!Fill(f, i - 1)]
           p == a * Bars
           q == p \div d
           r == p % d
<1>1. Bars \in Nat /\ p \in Nat /\ p <= d * Bars
  <2>1. Bars \in Nat
    BY MCPagesAssumption
  <2>2. \A x, y, z \in Nat : x <= y => x * z <= y * z
    OBVIOUS
  <2> QED BY <2>1, <2>2
<1>2. q \in Nat /\ r \in Nat /\ r < d /\ p = d * q + r
  <2> HIDE DEF p
  <2> QED BY <1>1, Divided
<1>3. \A i \in 1..Bars : fills[i] = IF i <= q THEN d ELSE IF i = q + 1 THEN r ELSE 0
  <2> SUFFICES ASSUME NEW i \in 1..Bars
               PROVE  TM!Fill(f, i - 1) = IF i <= q THEN d ELSE IF i = q + 1 THEN r ELSE 0
    OBVIOUS
  <2>1. f[1] = a /\ f[2] = d
    OBVIOUS
  <2>2. TM!FilledBars(f) = q
    BY <2>1 DEF TM!FilledBars
  <2>3. TM!Fill(f, i - 1) = IF i - 1 < q THEN d ELSE IF i - 1 = q THEN r ELSE 0
    <3> HIDE DEF f
    <3> QED BY <2>1, <2>2 DEF TM!Fill
  <2> HIDE DEF f, q, r
  <2> QED BY <1>2, <2>3
<1>4. \A i \in 1..Bars : fills[i] \in 0..d
  <2> HIDE DEF fills, q, r
  <2> QED BY <1>2, <1>3
<1>5. fills \in Seq(Nat) /\ Len(fills) = Bars
  <2>1. \A i \in 1..Bars : fills[i] \in Nat
    <3> HIDE DEF fills
    <3> QED BY <1>4
  <2>2. fills \in [1..Bars -> Nat]
    BY <2>1
  <2> HIDE DEF fills
  <2> QED BY <1>1, <2>2, SeqDef
<1> HIDE DEF fills, q, r, p
<1>6. PICK acc : Accumulates(fills, acc, Bars) /\ TM!Sum(fills) = acc[Bars]
  BY <1>1, <1>5, MeterSum, RunningTotal
<1> DEFINE G == {k \in Nat : k <= Bars => acc[k] = IF k <= q THEN d * k ELSE p}
<1>7. 0 \in G
  BY <1>1, <1>2, <1>6 DEF Accumulates
<1>8. ASSUME NEW k \in Nat, k \in G
      PROVE  k + 1 \in G
  <2> SUFFICES ASSUME k + 1 <= Bars
               PROVE  acc[k + 1] = IF k + 1 <= q THEN d * (k + 1) ELSE p
    OBVIOUS
  <2>1. acc[k] = IF k <= q THEN d * k ELSE p
    BY <1>1, <1>8
  <2>2. k + 1 \in 1..Bars /\ (k + 1) - 1 = k
    BY <1>1
  <2>3. acc[k + 1] = acc[k] + (IF k + 1 <= q THEN d ELSE IF k + 1 = q + 1 THEN r ELSE 0)
    BY <1>3, <1>6, <2>2 DEF Accumulates
  <2>4. CASE k + 1 <= q
    <3>1. acc[k + 1] = d * k + d
      BY <1>2, <2>1, <2>3, <2>4
    <3>2. d * (k + 1) = d * k + d
      OBVIOUS
    <3> QED BY <2>4, <3>1, <3>2
  <2>5. CASE k = q
    <3>1. acc[k + 1] = d * q + r
      BY <1>2, <2>1, <2>3, <2>5
    <3> QED BY <1>2, <2>5, <3>1
  <2>6. CASE k > q
    BY <1>1, <1>2, <2>1, <2>3, <2>6
  <2> QED BY <1>2, <2>4, <2>5, <2>6
<1>9. Bars \in G
  <2> HIDE DEF G
  <2> QED BY <1>1, <1>7, <1>8, Counting
<1>10. acc[Bars] = p
  <2>1. CASE Bars <= q
    <3>1. d * Bars <= d * q
      <4>1. \A x, y, z \in Nat : x <= y => z * x <= z * y
        OBVIOUS
      <4> QED BY <1>1, <1>2, <2>1, <4>1
    <3>2. d * Bars \in Nat /\ d * q \in Nat
      BY <1>1, <1>2
    <3>3. p = d * Bars
      BY <1>1, <1>2, <3>1, <3>2
    <3> QED BY <1>9, <2>1, <3>3
  <2>2. CASE ~(Bars <= q)
    BY <1>9, <2>2
  <2> QED BY <2>1, <2>2
<1> QED BY <1>4, <1>6, <1>10 DEF fills, p

LEMMA BarsShowShare ==
  ASSUME ProgressType(tmShown)
  PROVE  TM!BarsAddUp
<1> DEFINE f == TM!Clamped(tmShown)
<1>1. PICK a \in Nat, d \in Nat \ {0} : a <= d /\ f = <<a, d>>
  BY DEF TM!Clamped, TM!Lesser, ProgressType
<1>2. f[1] = a /\ f[2] = d
  BY <1>1
<1> HIDE DEF f
<1>3. LET fills == [i \in 1..Bars |-> TM!Fill(f, i - 1)]
      IN  /\ \A i \in 1..Bars : fills[i] \in 0..d
          /\ TM!Sum(fills) = a * Bars
  BY <1>1, BarsSum
<1> QED BY <1>2, <1>3 DEF TM!BarsAddUp, f

------------------------------------------------------------------------------
(* Places in an order                                                       *)

\* R orders the numbers up to n.
StrictOrder(R, n) ==
  /\ \A i \in 1..n : ~(<<i, i>> \in R)
  /\ \A i, j, k \in 1..n : <<i, j>> \in R /\ <<j, k>> \in R => <<i, k>> \in R
  /\ \A i, j \in 1..n : i = j \/ <<i, j>> \in R \/ <<j, i>> \in R

Place(R, n) == [i \in 1..n |-> Cardinality({j \in 1..n : <<j, i>> \in R}) + 1]

\* Counting those before each gives every place to one: a sort by an order.
LEMMA PlacesAreRanks ==
  ASSUME NEW n \in Nat, NEW R, StrictOrder(R, n)
  PROVE  /\ \A i \in 1..n : Place(R, n)[i] \in 1..n
         /\ \A i, j \in 1..n : <<i, j>> \in R <=> Place(R, n)[i] < Place(R, n)[j]
         /\ \A k \in 1..n : \E i \in 1..n : Place(R, n)[i] = k
<1> DEFINE below(i) == {j \in 1..n : <<j, i>> \in R}
           place == Place(R, n)
<1>1. IsFiniteSet(1..n) /\ Cardinality(1..n) = n
  BY FS_Interval
<1>2. \A i \in 1..n : IsFiniteSet(below(i)) /\ Cardinality(below(i)) \in Nat
  BY <1>1, FS_Subset, FS_CardinalityType
<1>3. \A i \in 1..n : place[i] = Cardinality(below(i)) + 1
  BY DEF Place
<1>4. ASSUME NEW i \in 1..n
      PROVE  place[i] \in 1..n
  <2>1. below(i) \in SUBSET ((1..n) \ {i})
    BY DEF StrictOrder
  <2>2. IsFiniteSet((1..n) \ {i}) /\ Cardinality((1..n) \ {i}) = n - 1
    BY <1>1, FS_RemoveElement
  <2>3. Cardinality(below(i)) <= n - 1
    <3> HIDE DEF below
    <3> QED BY <2>1, <2>2, FS_Subset
  <2> HIDE DEF below, place
  <2> QED BY <1>2, <1>3, <2>3
<1>5. ASSUME NEW i \in 1..n, NEW j \in 1..n, <<i, j>> \in R
      PROVE  place[i] < place[j]
  <2>1. below(i) \in SUBSET below(j) /\ i \in below(j) /\ i \notin below(i)
    BY <1>5 DEF StrictOrder
  <2>2. Cardinality(below(i)) <= Cardinality(below(j)) /\ Cardinality(below(i)) # Cardinality(below(j))
    <3> HIDE DEF below
    <3> QED BY <1>2, <2>1, FS_Subset
  <2> HIDE DEF below, place
  <2> QED BY <1>2, <1>3, <2>2
<1> HIDE DEF place, below
<1>6. ASSUME NEW i \in 1..n, NEW j \in 1..n, place[i] < place[j]
      PROVE  <<i, j>> \in R
  <2>1. place[i] \in 1..n /\ place[j] \in 1..n
    BY <1>4
  <2>2. i # j /\ ~(<<j, i>> \in R)
    BY <1>5, <1>6, <2>1
  <2> QED BY <2>2 DEF StrictOrder
<1>7. place \in Injection(1..n, 1..n)
  <2>1. place \in [1..n -> 1..n]
    BY <1>4 DEF place, Place
  <2>2. ASSUME NEW i \in 1..n, NEW j \in 1..n, i # j
        PROVE  place[i] # place[j]
    <3>1. <<i, j>> \in R \/ <<j, i>> \in R
      BY <2>2 DEF StrictOrder
    <3>2. place[i] \in Nat /\ place[j] \in Nat
      BY <1>4
    <3> QED BY <1>5, <3>1, <3>2
  <2> QED BY <2>1, <2>2 DEF Injection, IsInjective
<1>8. place \in Surjection(1..n, 1..n)
  BY <1>1, <1>7, FS_Injection
<1>9. \A k \in 1..n : \E i \in 1..n : place[i] = k
  BY <1>8 DEF Surjection
<1> QED BY <1>4, <1>5, <1>6, <1>9 DEF place

------------------------------------------------------------------------------
(* The list of paired devices (DeviceList)                                  *)

\* A device as the page knows it.
DeviceType(a) == a \in [id : Devices, active : BOOLEAN, online : BOOLEAN, seen : Nat]

Pairs == Cardinality(Devices)

\* A list of the node: every device, in the order of the file.
ListType(list) ==
  /\ DOMAIN list = 1..Pairs
  /\ list = [i \in 1..Pairs |-> list[i]]
  /\ \A i \in 1..Pairs : DeviceType(list[i]) /\ list[i].id = DL!Order[i]

CountType(c) == \A d \in Devices : c[d] \in Nat
NamesType == \A d \in Devices : dlName[d] \in Int

LEMMA SameListCardinality == \A S : DL!Cardinality(S) = Cardinality(S)
  BY Zenon DEF DL!Cardinality, Cardinality

LEMMA OrderOfFile ==
  /\ Pairs \in Nat
  /\ DOMAIN DL!Order = 1..Pairs
  /\ \A i \in 1..Pairs : DL!Order[i] \in Devices
  /\ \A i, j \in 1..Pairs : i # j => DL!Order[i] # DL!Order[j]
  /\ \A d \in Devices : \E i \in 1..Pairs : DL!Order[i] = d
<1>1. IsFiniteSet(Devices)
  BY MCPagesAssumption
<1>2. Pairs \in Nat /\ ExistsBijection(1..Pairs, Devices)
  BY <1>1, FS_CardinalityType DEF Pairs
<1>3. PICK s : s \in Bijection(1..Pairs, Devices)
  BY <1>2 DEF ExistsBijection
<1>4. \E t \in [1..Pairs -> Devices] : \A i, j \in DOMAIN t : i # j => t[i] # t[j]
  BY <1>3 DEF Bijection, Injection, IsInjective
<1>5. /\ DL!Order \in [1..Pairs -> Devices]
      /\ \A i, j \in DOMAIN DL!Order : i # j => DL!Order[i] # DL!Order[j]
  <2>1. DL!Order = CHOOSE t \in [1..Pairs -> Devices] : \A i, j \in DOMAIN t : i # j => t[i] # t[j]
    BY SameListCardinality, Zenon DEF DL!Order, Pairs
  <2> QED BY <1>4, <2>1, Zenon
<1>6. DL!Order \in Injection(1..Pairs, Devices)
  BY <1>5 DEF Injection, IsInjective
<1>7. DL!Order \in Surjection(1..Pairs, Devices)
  <2>1. Cardinality(1..Pairs) = Cardinality(Devices)
    BY <1>2, FS_Interval DEF Pairs
  <2> QED BY <1>1, <1>6, <2>1, FS_Injection
<1> QED BY <1>2, <1>5, <1>7 DEF Surjection

Compared(x, y, c) == DL!ComparePairedDevicesForList(x, y, c)

\* The comparator is an order: by rank, then by sends or by time, then by name.
LEMMA ComparatorIsOrder ==
  ASSUME NamesType, NEW c, CountType(c)
  PROVE  /\ \A x, y : DeviceType(x) /\ DeviceType(y) =>
              Compared(x, y, c) \in Int /\ Compared(x, y, c) = -Compared(y, x, c)
         /\ \A x, y, z : DeviceType(x) /\ DeviceType(y) /\ DeviceType(z) =>
              (Compared(x, y, c) <= 0 /\ Compared(y, z, c) <= 0 =>
                 /\ Compared(x, z, c) <= 0
                 /\ (Compared(x, y, c) < 0 \/ Compared(y, z, c) < 0) => Compared(x, z, c) < 0)
<1> DEFINE Rank(x) == DL!PairedDeviceListRank(x)
           Key(x) == IF Rank(x) = 0 THEN -c[x.id] ELSE -x.seen
<1>1. ASSUME NEW x, DeviceType(x)
      PROVE  Rank(x) \in 0..2 /\ Key(x) \in Int /\ dlName[x.id] \in Int
  BY <1>1 DEF DeviceType, NamesType, CountType, DL!PairedDeviceListRank
<1>2. ASSUME NEW x, NEW y, DeviceType(x), DeviceType(y)
      PROVE  Compared(x, y, c) = IF Rank(x) # Rank(y) THEN Rank(x) - Rank(y)
                               ELSE IF Key(x) # Key(y) THEN Key(x) - Key(y)
                               ELSE dlName[x.id] - dlName[y.id]
  <2>1. /\ Rank(x) \in 0..2 /\ Rank(y) \in 0..2
        /\ c[x.id] \in Nat /\ c[y.id] \in Nat /\ x.seen \in Nat /\ y.seen \in Nat
    BY <1>1, <1>2 DEF DeviceType, CountType
  <2>2. Compared(x, y, c) =
          IF Rank(x) # Rank(y) THEN Rank(x) - Rank(y)
          ELSE IF Rank(x) = 0 /\ c[x.id] # c[y.id] THEN c[y.id] - c[x.id]
          ELSE IF Rank(x) # 0 /\ x.seen # y.seen THEN y.seen - x.seen
          ELSE dlName[x.id] - dlName[y.id]
    BY DEF Compared, DL!ComparePairedDevicesForList
  <2> HIDE DEF Rank
  <2> QED BY <2>1, <2>2
<1> HIDE DEF Rank, Key
<1>3. ASSUME NEW x, NEW y, DeviceType(x), DeviceType(y)
      PROVE  Compared(x, y, c) \in Int /\ Compared(x, y, c) = -Compared(y, x, c)
  BY <1>1, <1>2, <1>3
<1>4. ASSUME NEW x, NEW y, NEW z, DeviceType(x), DeviceType(y), DeviceType(z),
             Compared(x, y, c) <= 0, Compared(y, z, c) <= 0
      PROVE  /\ Compared(x, z, c) <= 0
             /\ (Compared(x, y, c) < 0 \/ Compared(y, z, c) < 0) => Compared(x, z, c) < 0
  <2>1. \A w \in {x, y, z} : Rank(w) \in Int /\ Key(w) \in Int /\ dlName[w.id] \in Int
    BY <1>1, <1>4
  <2> QED BY <1>2, <1>4, <2>1
<1> QED BY <1>3, <1>4

\* What comes before what in a sorted list.
Precedes(list, c, j, i) ==
  \/ Compared(list[j], list[i], c) < 0
  \/ Compared(list[j], list[i], c) = 0 /\ j < i

Preceding(list, c) == {p \in (1..Pairs) \X (1..Pairs) : Precedes(list, c, p[1], p[2])}

LEMMA SortOrders ==
  ASSUME NamesType, NEW list, ListType(list), NEW c, CountType(c)
  PROVE  StrictOrder(Preceding(list, c), Pairs)
<1> DEFINE o(i, j) == Compared(list[i], list[j], c)
<1>1. \A i \in 1..Pairs : DeviceType(list[i])
  BY DEF ListType
<1>2. \A i, j \in 1..Pairs : o(i, j) \in Int /\ o(i, j) = -o(j, i)
  BY <1>1, ComparatorIsOrder
<1>3. \A i, j, k \in 1..Pairs : o(i, j) <= 0 /\ o(j, k) <= 0 =>
        o(i, k) <= 0 /\ ((o(i, j) < 0 \/ o(j, k) < 0) => o(i, k) < 0)
  BY <1>1, ComparatorIsOrder
<1>4. \A i, j \in 1..Pairs : <<i, j>> \in Preceding(list, c) <=> o(i, j) < 0 \/ (o(i, j) = 0 /\ i < j)
  BY DEF Preceding, Precedes
<1>5. Pairs \in Nat
  BY OrderOfFile
<1> HIDE DEF o
<1>6. ASSUME NEW i \in 1..Pairs, NEW j \in 1..Pairs, NEW k \in 1..Pairs,
             <<i, j>> \in Preceding(list, c), <<j, k>> \in Preceding(list, c)
      PROVE  <<i, k>> \in Preceding(list, c)
  <2>1. o(i, j) \in Int /\ o(j, k) \in Int /\ o(i, k) \in Int /\ o(i, k) = -o(k, i) /\ o(k, i) \in Int
        /\ o(i, j) = -o(j, i) /\ o(j, k) = -o(k, j) /\ o(k, j) \in Int /\ o(j, i) \in Int
    BY <1>2
  <2>2. /\ o(i, j) < 0 \/ (o(i, j) = 0 /\ i < j)
        /\ o(j, k) < 0 \/ (o(j, k) = 0 /\ j < k)
    BY <1>4, <1>6
  <2>3. o(i, k) <= 0 /\ ((o(i, j) < 0 \/ o(j, k) < 0) => o(i, k) < 0)
    BY <1>3, <2>1, <2>2
  <2>4. o(i, k) < 0 \/ (o(i, k) = 0 /\ i < k)
    BY <2>1, <2>2, <2>3
  <2> QED BY <1>4, <2>4
<1>7. \A i \in 1..Pairs : ~(<<i, i>> \in Preceding(list, c))
  BY <1>2, <1>4
<1>8. \A i, j \in 1..Pairs : i = j \/ <<i, j>> \in Preceding(list, c) \/ <<j, i>> \in Preceding(list, c)
  <2> SUFFICES ASSUME NEW i \in 1..Pairs, NEW j \in 1..Pairs, i # j
               PROVE  <<i, j>> \in Preceding(list, c) \/ <<j, i>> \in Preceding(list, c)
    OBVIOUS
  <2>1. o(i, j) \in Int /\ o(j, i) \in Int /\ o(i, j) = -o(j, i)
    BY <1>2
  <2>2. (o(i, j) < 0 \/ (o(i, j) = 0 /\ i < j)) \/ (o(j, i) < 0 \/ (o(j, i) = 0 /\ j < i))
    BY <2>1
  <2> QED BY <1>4, <2>2
<1> QED BY <1>6, <1>7, <1>8 DEF StrictOrder

\* A list is sorted: each of its devices has the place that its order gives it.
Sorts(sorted, place, list, c) ==
  /\ DOMAIN sorted = 1..Pairs /\ sorted = [i \in 1..Pairs |-> sorted[i]]
  /\ \A i \in 1..Pairs : place[i] \in 1..Pairs /\ sorted[place[i]] = list[i]
  /\ \A k \in 1..Pairs : \E i \in 1..Pairs : place[i] = k
  /\ \A i, j \in 1..Pairs : Precedes(list, c, i, j) <=> place[i] < place[j]

\* sort gives every device of the list the place that counts those before it.
LEMMA SortPlaces ==
  ASSUME NamesType, NEW list, ListType(list), NEW c, CountType(c)
  PROVE  Sorts(DL!SortPairedDevicesForList(list, c), Place(Preceding(list, c), Pairs), list, c)
<1> DEFINE sorted == DL!SortPairedDevicesForList(list, c)
           R == Preceding(list, c)
           place == Place(R, Pairs)
<1>1. Pairs \in Nat /\ DOMAIN list = 1..Pairs
  BY OrderOfFile DEF ListType
<1>2. /\ \A i \in 1..Pairs : place[i] \in 1..Pairs
      /\ \A i, j \in 1..Pairs : <<i, j>> \in R <=> place[i] < place[j]
      /\ \A k \in 1..Pairs : \E i \in 1..Pairs : place[i] = k
  BY <1>1, SortOrders, PlacesAreRanks
<1>3. \A i, j \in 1..Pairs : <<i, j>> \in R <=> Precedes(list, c, i, j)
  BY DEF Preceding
<1>4. sorted = [k \in {place[i] : i \in 1..Pairs} |-> list[CHOOSE i \in 1..Pairs : place[i] = k]]
  <2> DEFINE Before(j, i) == LET o == DL!ComparePairedDevicesForList(list[j], list[i], c)
                             IN  o < 0 \/ (o = 0 /\ j < i)
             pl == [i \in DOMAIN list |-> DL!Cardinality({j \in DOMAIN list : Before(j, i)}) + 1]
  <2>1. sorted = [k \in {pl[i] : i \in DOMAIN list} |-> list[CHOOSE i \in DOMAIN list : pl[i] = k]]
    BY Zenon DEF DL!SortPairedDevicesForList
  <2>2. pl = place
    <3>1. \A i \in 1..Pairs : {j \in 1..Pairs : <<j, i>> \in R} = {j \in DOMAIN list : Before(j, i)}
      BY <1>1, <1>3 DEF Precedes, Compared
    <3>2. \A i \in 1..Pairs : Cardinality({j \in 1..Pairs : <<j, i>> \in R})
                              = DL!Cardinality({j \in DOMAIN list : Before(j, i)})
      BY <3>1, SameListCardinality, Zenon
    <3> QED BY <1>1, <3>2, Zenon DEF Place
  <2> HIDE DEF pl, place
  <2> QED BY <1>1, <2>1, <2>2
<1> HIDE DEF sorted, place, R
<1>5. {place[i] : i \in 1..Pairs} = 1..Pairs
  BY <1>2
<1>6. DOMAIN sorted = 1..Pairs /\ sorted = [i \in 1..Pairs |-> sorted[i]]
  BY <1>4, <1>5
<1>7. ASSUME NEW i \in 1..Pairs
      PROVE  sorted[place[i]] = list[i]
  <2>1. sorted[place[i]] = list[CHOOSE j \in 1..Pairs : place[j] = place[i]]
    BY <1>4
  <2>2. \A j \in 1..Pairs : place[j] = place[i] => j = i
    <3> SUFFICES ASSUME NEW j \in 1..Pairs, place[j] = place[i], j # i
                 PROVE  FALSE
      OBVIOUS
    <3>1. <<i, j>> \in R \/ <<j, i>> \in R
      BY SortOrders DEF StrictOrder, R
    <3>2. place[i] \in Int /\ place[j] \in Int
      BY <1>2
    <3> QED BY <1>2, <3>1, <3>2
  <2> QED BY <2>1, <2>2
<1>8. \A i, j \in 1..Pairs : Precedes(list, c, i, j) <=> place[i] < place[j]
  BY <1>2, <1>3
<1>9. Sorts(sorted, place, list, c)
  BY <1>2, <1>6, <1>7, <1>8 DEF Sorts
<1> QED BY <1>9 DEF sorted, place, R

\* The sort with the names as a parameter.
Sorted(names, list, c) ==
  LET Compare(x, y) ==
        LET rankA == DL!PairedDeviceListRank(x)
            rankB == DL!PairedDeviceListRank(y)
        IN  IF rankA # rankB THEN rankA - rankB
            ELSE IF rankA = 0 /\ c[x.id] # c[y.id] THEN c[y.id] - c[x.id]
            ELSE IF rankA # 0 /\ x.seen # y.seen THEN y.seen - x.seen
            ELSE names[x.id] - names[y.id]
      Before(j, i) == LET o == Compare(list[j], list[i])
                      IN  o < 0 \/ (o = 0 /\ j < i)
      place == [i \in DOMAIN list |-> DL!Cardinality({j \in DOMAIN list : Before(j, i)}) + 1]
  IN  [k \in {place[i] : i \in DOMAIN list} |-> list[CHOOSE i \in DOMAIN list : place[i] = k]]

LEMMA SortIsSorted ==
  ASSUME NEW list, NEW c
  PROVE  DL!SortPairedDevicesForList(list, c) = Sorted(dlName, list, c)
  BY Zenon DEF DL!SortPairedDevicesForList, DL!ComparePairedDevicesForList, Sorted

NodeType == [active : BOOLEAN, online : BOOLEAN, seen : Nat]
EventType == [id : Devices, online : BOOLEAN, seen : Nat]

\* The page has the devices of the file, sorted as they were with the counts it used.
ListInv ==
  /\ NamesType /\ dlCounts \in [Devices -> Nat] /\ CountType(dlUsed)
  /\ dlNode \in [Devices -> NodeType] /\ dlClock \in Nat
  /\ dlEvents \in Seq(EventType)
  /\ \A list \in dlListing : ListType(list)
  /\ ListType(dlDevices)
  /\ dlShown = Sorted(dlName, dlDevices, dlUsed)

LEMMA ListedType ==
  ASSUME NEW n \in [Devices -> NodeType]
  PROVE  ListType(DL!Listed(n))
<1>1. DL!Listed(n) = [i \in 1..Pairs |-> DL!Device(DL!Order[i], n)]
  BY OrderOfFile DEF DL!Listed
<1>2. ASSUME NEW i \in 1..Pairs
      PROVE  DeviceType(DL!Device(DL!Order[i], n)) /\ DL!Device(DL!Order[i], n).id = DL!Order[i]
  <2>1. DL!Order[i] \in Devices /\ n[DL!Order[i]] \in NodeType
    BY OrderOfFile
  <2> QED BY <2>1 DEF DeviceType, DL!Device, NodeType
<1> QED BY <1>1, <1>2 DEF ListType

\* A presence event changes the device it is about.
LEMMA PatchedType ==
  ASSUME NEW list, ListType(list), NEW e \in EventType
  PROVE  LET patched == DL!PatchDevicePresence(list, e)
         IN  /\ ListType(patched)
             /\ \A i \in 1..Pairs : list[i].id # e.id => patched[i] = list[i]
<1> DEFINE patched == DL!PatchDevicePresence(list, e)
<1>1. /\ patched = [i \in 1..Pairs |-> IF list[i].id = e.id
                       THEN [list[i] EXCEPT !.online = e.online, !.seen = e.seen] ELSE list[i]]
      /\ e.online \in BOOLEAN /\ e.seen \in Nat
  BY DEF DL!PatchDevicePresence, ListType, EventType
<1> HIDE DEF patched
<1>2. ASSUME NEW i \in 1..Pairs
      PROVE  DeviceType(patched[i]) /\ patched[i].id = DL!Order[i]
  <2>1. DeviceType(list[i]) /\ list[i].id = DL!Order[i]
    BY DEF ListType
  <2>2. CASE list[i].id = e.id
    <3>1. patched[i] = [list[i] EXCEPT !.online = e.online, !.seen = e.seen]
      BY <1>1, <2>2
    <3> QED BY <1>1, <2>1, <3>1 DEF DeviceType
  <2>3. CASE list[i].id # e.id
    BY <1>1, <2>1, <2>3
  <2> QED BY <2>2, <2>3
<1>3. DOMAIN patched = 1..Pairs /\ patched = [i \in 1..Pairs |-> patched[i]]
  BY <1>1
<1> QED BY <1>1, <1>2, <1>3 DEF ListType, patched

LEMMA ListInit == DL!Init => ListInv
<1> SUFFICES ASSUME DL!Init PROVE ListInv
  OBVIOUS
<1>1. NamesType
  <2>1. ASSUME NEW d \in Devices
        PROVE  DL!ReverseName(d) \in Int
    <3>1. (CHOOSE i \in DOMAIN DL!Order : DL!Order[i] = d) \in 1..Pairs
      BY OrderOfFile
    <3>2. DL!Cardinality(Devices) = Pairs
      BY SameListCardinality DEF Pairs
    <3> QED BY <3>1, <3>2, OrderOfFile DEF DL!ReverseName
  <2>2. PICK same \in Sames : dlName = [d \in Devices |-> IF same THEN 0 ELSE DL!ReverseName(d)]
    BY DEF DL!Init
  <2> QED BY <2>1, <2>2 DEF NamesType
<1>2. /\ dlCounts \in [Devices -> Nat] /\ CountType(dlUsed) /\ dlClock \in Nat
      /\ dlEvents \in Seq(EventType) /\ dlListing = {}
      /\ dlNode \in [Devices -> NodeType]
  BY DEF DL!Init, CountType, NodeType
<1>3. ListType(dlDevices)
  BY <1>2, ListedType DEF DL!Init
<1>4. dlShown = Sorted(dlName, dlDevices, dlUsed)
  <2>1. dlShown = DL!SortPairedDevicesForList(dlDevices, dlUsed)
    BY Zenon DEF DL!Init
  <2> QED BY <2>1, SortIsSorted
<1> QED BY <1>1, <1>2, <1>3, <1>4 DEF ListInv

\* A list that reaches the page is sorted with the counts as they are.
LEMMA SetDevicesSorts ==
  ASSUME ListInv, NEW list, ListType(list), DL!SetDevices(list), UNCHANGED dlName
  PROVE  /\ ListType(dlDevices)' /\ CountType(dlUsed)'
         /\ (dlShown = Sorted(dlName, dlDevices, dlUsed))'
<1>1. dlDevices' = list /\ dlUsed' = dlCounts /\ dlShown' = DL!SortPairedDevicesForList(list, dlCounts)
  BY DEF DL!SetDevices
<1>2. ListType(dlDevices') /\ CountType(dlUsed')
  BY <1>1 DEF ListInv, CountType
<1>3. (dlShown = Sorted(dlName, dlDevices, dlUsed))'
  BY <1>1, SortIsSorted
<1> QED BY <1>2, <1>3

LEMMA ListNext ==
  ASSUME ListInv, DL!Next \/ UNCHANGED dlVars
  PROVE  ListInv'
<1> DEFINE Page == <<dlDevices, dlUsed, dlShown>>
<1>0. UNCHANGED dlName
  BY DEF DL!Next, DL!SetSession, DL!RemoveSession, DL!Unpair, DL!IncrementPairedSendCount,
         DL!Refresh, DL!ListAnswer, DL!Presence, dlVars
<1>1. ASSUME UNCHANGED Page
      PROVE  /\ ListType(dlDevices)' /\ CountType(dlUsed)'
             /\ (dlShown = Sorted(dlName, dlDevices, dlUsed))'
  BY <1>0, <1>1 DEF ListInv
<1>2. NamesType'
  BY <1>0 DEF ListInv, NamesType
<1>3. CASE UNCHANGED dlVars
  BY <1>1, <1>2, <1>3 DEF dlVars, ListInv
<1>4. ASSUME NEW d \in Devices, DL!SetSession(d) \/ DL!RemoveSession(d)
      PROVE  ListInv'
  <2>1. /\ UNCHANGED <<dlListing, dlCounts, dlDevices, dlUsed, dlShown>>
        /\ dlClock' \in Nat
    <3>1. dlClock' \in {dlClock, dlClock + 1} /\ dlClock \in Nat
      BY <1>4 DEF ListInv, DL!SetSession, DL!RemoveSession
    <3>2. UNCHANGED <<dlListing, dlCounts, dlDevices, dlUsed, dlShown>>
      BY <1>4 DEF DL!SetSession, DL!RemoveSession, DL!pageVars
    <3>3. dlClock' \in Nat
      BY <3>1
    <3> QED BY <3>2, <3>3
  <2>4. dlNode' \in [Devices -> NodeType]
    <3>1. CASE DL!SetSession(d)
      <4>1. dlNode' = [dlNode EXCEPT ![d].online = TRUE, ![d].seen = dlClock + 1]
        BY <3>1 DEF DL!SetSession
      <4>2. dlNode \in [Devices -> NodeType] /\ dlClock + 1 \in Nat
        BY DEF ListInv
      <4> QED BY <4>1, <4>2 DEF NodeType
    <3>2. CASE DL!RemoveSession(d)
      <4>1. dlNode' = [dlNode EXCEPT ![d].online = FALSE]
        BY <3>2 DEF DL!RemoveSession
      <4>2. dlNode \in [Devices -> NodeType]
        BY DEF ListInv
      <4> QED BY <4>1, <4>2 DEF NodeType
    <3> QED BY <1>4, <3>1, <3>2
  <2>2. \E online \in BOOLEAN : dlEvents' = Append(dlEvents, [id |-> d, online |-> online, seen |-> dlNode[d].seen])
    BY <1>4 DEF DL!SetSession, DL!RemoveSession, DL!Emit
  <2>3. dlEvents' \in Seq(EventType)
    BY <2>2 DEF ListInv, EventType, NodeType
  <2> QED BY <1>1, <1>2, <2>1, <2>3, <2>4 DEF ListInv
<1>5. ASSUME NEW d \in Devices, DL!Unpair(d)
      PROVE  ListInv'
  <2>1. /\ UNCHANGED <<dlCounts, dlClock, dlEvents, dlDevices, dlUsed, dlShown>>
        /\ dlNode' \in [Devices -> NodeType] /\ dlListing' = {DL!Listed(dlNode')}
    BY <1>5 DEF ListInv, DL!Unpair, DL!pageVars, NodeType
  <2>2. ListType(DL!Listed(dlNode'))
    BY <2>1, ListedType
  <2> QED BY <1>1, <1>2, <2>1, <2>2 DEF ListInv
<1>6. CASE DL!Refresh
  <2>1. /\ UNCHANGED <<dlCounts, dlNode, dlClock, dlEvents, dlDevices, dlUsed, dlShown>>
        /\ dlListing' = {DL!Listed(dlNode)}
    BY <1>6 DEF DL!Refresh, DL!pageVars, DL!nodeVars
  <2>2. ListType(DL!Listed(dlNode))
    BY ListedType DEF ListInv
  <2> QED BY <1>1, <1>2, <2>1, <2>2 DEF ListInv
<1>7. ASSUME NEW d \in Devices, DL!IncrementPairedSendCount(d)
      PROVE  ListInv'
  <2>1. /\ UNCHANGED <<dlNode, dlClock, dlEvents, dlListing, dlDevices, dlUsed, dlShown>>
        /\ dlCounts' \in [Devices -> Nat]
    BY <1>7 DEF ListInv, DL!IncrementPairedSendCount, DL!pageVars, DL!nodeVars
  <2> QED BY <1>1, <1>2, <2>1 DEF ListInv
<1>8. CASE DL!ListAnswer
  <2>1. PICK list \in dlListing :
          /\ dlListing' = dlListing \ {list} /\ DL!SetDevices(list)
          /\ UNCHANGED <<dlName, dlNode, dlClock, dlEvents, dlCounts>>
    BY <1>8 DEF DL!ListAnswer, DL!nodeVars
  <2>2. /\ ListType(dlDevices)' /\ CountType(dlUsed)'
        /\ (dlShown = Sorted(dlName, dlDevices, dlUsed))'
    BY <1>0, <2>1, SetDevicesSorts DEF ListInv
  <2> QED BY <1>2, <2>1, <2>2 DEF ListInv
<1>9. CASE DL!Presence
  <2>1. /\ dlEvents # <<>> /\ dlEvents' = Tail(dlEvents)
        /\ DL!SetDevices(DL!PatchDevicePresence(dlDevices, Head(dlEvents)))
        /\ UNCHANGED <<dlNode, dlClock, dlListing, dlCounts>>
    BY <1>9 DEF DL!Presence
  <2>2. Head(dlEvents) \in EventType /\ dlEvents' \in Seq(EventType)
    BY <2>1, HeadTailProperties DEF ListInv
  <2>3. ListType(DL!PatchDevicePresence(dlDevices, Head(dlEvents)))
    BY <2>2, PatchedType DEF ListInv
  <2>4. /\ ListType(dlDevices)' /\ CountType(dlUsed)'
        /\ (dlShown = Sorted(dlName, dlDevices, dlUsed))'
    BY <1>0, <2>1, <2>3, SetDevicesSorts
  <2> QED BY <1>2, <2>1, <2>2, <2>4 DEF ListInv
<1> QED BY <1>3, <1>4, <1>5, <1>6, <1>7, <1>8, <1>9 DEF DL!Next

\* The comparator is an order of the page, and the list has every device once.
LEMMA ListIsOrdered ==
  ASSUME ListInv
  PROVE  DL!OrderIsTotal
<1> DEFINE page == {dlDevices[i] : i \in DOMAIN dlDevices}
           order == [p \in page \X page |-> DL!Compare(p[1], p[2])]
           place == Place(Preceding(dlDevices, dlUsed), Pairs)
<1>1. NamesType /\ CountType(dlUsed) /\ ListType(dlDevices)
  BY DEF ListInv
<1>2. \A a \in page : DeviceType(a)
  BY <1>1 DEF ListType
<1>3. \A a, b \in page : order[<<a, b>>] = Compared(a, b, dlUsed)
  BY DEF DL!Compare, Compared
<1>4. dlShown = DL!SortPairedDevicesForList(dlDevices, dlUsed)
  BY SortIsSorted DEF ListInv
<1>5. /\ DOMAIN dlShown = 1..Pairs /\ dlShown = [i \in 1..Pairs |-> dlShown[i]]
      /\ \A i \in 1..Pairs : place[i] \in 1..Pairs /\ dlShown[place[i]] = dlDevices[i]
      /\ \A k \in 1..Pairs : \E i \in 1..Pairs : place[i] = k
  <2>1. Sorts(dlShown, place, dlDevices, dlUsed)
    BY <1>1, <1>4, SortPlaces
  <2> HIDE DEF place
  <2> QED BY <2>1 DEF Sorts
<1>6. {dlShown[i] : i \in DOMAIN dlShown} = page
  <2>1. DOMAIN dlDevices = 1..Pairs
    BY <1>1 DEF ListType
  <2> HIDE DEF place
  <2>2. ASSUME NEW k \in 1..Pairs
        PROVE  dlShown[k] \in page
    <3>1. PICK i \in 1..Pairs : place[i] = k
      BY <1>5
    <3>2. dlShown[k] = dlDevices[i]
      BY <1>5, <3>1
    <3> QED BY <2>1, <3>2
  <2>3. \A i \in 1..Pairs : \E k \in 1..Pairs : dlShown[k] = dlDevices[i]
    BY <1>5
  <2> QED BY <1>5, <2>1, <2>2, <2>3
<1>7. Len(dlShown) = Len(dlDevices)
  <2>1. Pairs \in Nat
    BY OrderOfFile
  <2>2. dlShown \in [1..Pairs -> page]
    BY <1>5, <1>6
  <2>3. dlDevices \in [1..Pairs -> page]
    BY <1>1 DEF ListType
  <2> HIDE DEF page
  <2>4. dlShown \in Seq(page) /\ dlDevices \in Seq(page)
    BY <2>1, <2>2, <2>3, SeqDef
  <2> QED BY <2>1, <2>2, <2>3, <2>4
<1> HIDE DEF page, order
<1>8. \A a, b \in page : order[<<a, b>>] <= 0 <=> order[<<b, a>>] >= 0
  <2> SUFFICES ASSUME NEW a \in page, NEW b \in page
               PROVE  order[<<a, b>>] <= 0 <=> order[<<b, a>>] >= 0
    OBVIOUS
  <2>1. order[<<a, b>>] \in Int /\ order[<<b, a>>] \in Int /\ order[<<a, b>>] = -order[<<b, a>>]
    BY <1>1, <1>2, <1>3, ComparatorIsOrder
  <2> QED BY <2>1
<1>9. \A a, b, c \in page : order[<<a, b>>] <= 0 /\ order[<<b, c>>] <= 0 => order[<<a, c>>] <= 0
  BY <1>1, <1>2, <1>3, ComparatorIsOrder
<1> QED BY <1>6, <1>7, <1>8, <1>9 DEF DL!OrderIsTotal, page, order

\* The device that has an id is at one place of a list.
LEMMA BeforeMeansPrecedes ==
  ASSUME NamesType, NEW list, ListType(list), NEW c, CountType(c),
         NEW i \in 1..Pairs, NEW j \in 1..Pairs
  PROVE  DL!Before(DL!SortPairedDevicesForList(list, c), DL!Order[i], DL!Order[j])
           <=> Precedes(list, c, i, j)
<1> DEFINE sorted == DL!SortPairedDevicesForList(list, c)
           place == Place(Preceding(list, c), Pairs)
<1>0. Sorts(sorted, place, list, c)
  BY SortPlaces
<1> HIDE DEF sorted, place
<1>1. /\ DOMAIN sorted = 1..Pairs
      /\ \A k \in 1..Pairs : place[k] \in 1..Pairs /\ sorted[place[k]] = list[k]
      /\ \A k \in 1..Pairs : \E m \in 1..Pairs : place[m] = k
  BY <1>0 DEF Sorts
<1>5. \A k, m \in 1..Pairs : Precedes(list, c, k, m) <=> place[k] < place[m]
  BY <1>0 DEF Sorts
<1>2. ASSUME NEW k \in 1..Pairs, NEW m \in 1..Pairs
      PROVE  sorted[place[m]].id = DL!Order[k] <=> m = k
  <2>1. sorted[place[m]].id = DL!Order[m]
    BY <1>1 DEF ListType
  <2> QED BY <2>1, OrderOfFile
<1>3. ASSUME NEW p \in 1..Pairs, NEW k \in 1..Pairs
      PROVE  sorted[p].id = DL!Order[k] <=> p = place[k]
  <2>1. PICK m \in 1..Pairs : place[m] = p
    BY <1>1
  <2>2. sorted[p].id = DL!Order[k] <=> m = k
    BY <1>2, <2>1
  <2>3. p = place[k] => m = k
    <3>1. p = place[k] => sorted[place[m]].id = DL!Order[k]
      BY <1>2, <2>1
    <3> QED BY <1>2, <3>1
  <2> QED BY <2>1, <2>2, <2>3
<1>4. DL!Before(sorted, DL!Order[i], DL!Order[j]) <=> place[i] < place[j]
  <2>1. place[i] \in 1..Pairs /\ place[j] \in 1..Pairs
    BY <1>1
  <2>2. ASSUME DL!Before(sorted, DL!Order[i], DL!Order[j])
        PROVE  place[i] < place[j]
    <3>1. PICK p, q \in 1..Pairs : p < q /\ sorted[p].id = DL!Order[i] /\ sorted[q].id = DL!Order[j]
      BY <1>1, <2>2 DEF DL!Before
    <3> QED BY <1>3, <3>1
  <2>3. ASSUME place[i] < place[j]
        PROVE  DL!Before(sorted, DL!Order[i], DL!Order[j])
    <3>1. sorted[place[i]].id = DL!Order[i] /\ sorted[place[j]].id = DL!Order[j]
      BY <1>3, <2>1
    <3> QED BY <1>1, <2>1, <2>3, <3>1 DEF DL!Before
  <2> QED BY <2>2, <2>3
<1> QED BY <1>4, <1>5 DEF sorted

\* A presence event leaves the order of the other devices as it was.
LEMMA OthersKeepOrder ==
  ASSUME ListInv, DL!Presence, dlCounts = dlUsed,
         NEW a \in Devices \ {Head(dlEvents).id}, NEW b \in Devices \ {Head(dlEvents).id},
         DL!Before(dlShown, a, b)
  PROVE  DL!Before(dlShown', a, b)
<1> DEFINE e == Head(dlEvents)
           patched == DL!PatchDevicePresence(dlDevices, e)
<1>1. /\ dlEvents # <<>> /\ dlShown' = DL!SortPairedDevicesForList(patched, dlCounts)
      /\ dlShown = DL!SortPairedDevicesForList(dlDevices, dlUsed)
  BY SortIsSorted DEF DL!Presence, DL!SetDevices, ListInv
<1>2. e \in EventType
  BY <1>1, HeadTailProperties DEF ListInv
<1>3. NamesType /\ CountType(dlUsed) /\ ListType(dlDevices)
  BY DEF ListInv
<1> HIDE DEF e
<1>4. ListType(patched) /\ \A i \in 1..Pairs : dlDevices[i].id # e.id => patched[i] = dlDevices[i]
  BY <1>2, <1>3, PatchedType
<1>5. PICK i \in 1..Pairs, j \in 1..Pairs : DL!Order[i] = a /\ DL!Order[j] = b
  BY OrderOfFile
<1>6. patched[i] = dlDevices[i] /\ patched[j] = dlDevices[j]
  <2>1. dlDevices[i].id = a /\ dlDevices[j].id = b
    BY <1>3, <1>5 DEF ListType
  <2> QED BY <1>4, <2>1 DEF e
<1> HIDE DEF patched
<1>7. Precedes(dlDevices, dlUsed, i, j)
  BY <1>1, <1>3, <1>5, BeforeMeansPrecedes
<1>8. Precedes(patched, dlUsed, i, j)
  BY <1>6, <1>7 DEF Precedes
<1> QED BY <1>1, <1>3, <1>4, <1>5, <1>8, BeforeMeansPrecedes

------------------------------------------------------------------------------
(* Archives (WebSave)                                                       *)

\* Running totals of the same values are the same.
LEMMA SameTotal ==
  ASSUME NEW n \in Nat, NEW v, NEW u, NEW acc, NEW bcc,
         Accumulates(v, acc, n), Accumulates(u, bcc, n), \A k \in 1..n : v[k] = u[k]
  PROVE  acc[n] = bcc[n]
<1> DEFINE G == {k \in Nat : k <= n => acc[k] = bcc[k]}
<1>1. 0 \in G
  BY DEF Accumulates
<1>2. ASSUME NEW k \in Nat, k \in G
      PROVE  k + 1 \in G
  <2> SUFFICES ASSUME k + 1 <= n
               PROVE  acc[k + 1] = bcc[k + 1]
    OBVIOUS
  <2>1. k + 1 \in 1..n /\ (k + 1) - 1 = k /\ acc[k] = bcc[k]
    BY <1>2
  <2>2. /\ acc[k + 1] = acc[(k + 1) - 1] + v[k + 1]
        /\ bcc[k + 1] = bcc[(k + 1) - 1] + u[k + 1]
    BY <2>1 DEF Accumulates
  <2> QED BY <2>1, <2>2
<1>3. n \in G
  <2> HIDE DEF G
  <2> QED BY <1>1, <1>2, Counting
<1> QED BY <1>3

\* The bytes of the chunks up to n.
BytesTo(c, n) == [k \in 1..n |-> WS!Bytes(c[k])]

LEMMA BeforeIsTotal ==
  ASSUME NEW c, NEW n \in Nat
  PROVE  \E acc : Accumulates(BytesTo(c, n), acc, n) /\ WS!Before(c, n + 1) = acc[n]
<1>1. (n + 1) - 1 = n
  OBVIOUS
<1>2. WS!Before(c, n + 1) =
        WS!FoldLeft(LAMBDA sum, bytes : sum + bytes, 0, BytesTo(c, n))
  BY <1>1, Zenon DEF WS!Before, BytesTo
<1>3. DOMAIN BytesTo(c, n) = 1..n
  BY DEF BytesTo
<1>4. WS!Before(c, n + 1) = FoldedSum(BytesTo(c, n), n)
  BY <1>2, <1>3, Zenon DEF WS!FoldLeft, WS!MapThenFoldSet, WS!Max, FoldedSum, Summed, Greatest
<1> QED BY <1>4, RunningTotal

\* Each chunk begins where the one before ends.
LEMMA BeforeFirst ==
  ASSUME NEW c
  PROVE  WS!Before(c, 1) = 0
<1>1. 0 \in Nat /\ 0 + 1 = 1
  OBVIOUS
<1>2. PICK acc : Accumulates(BytesTo(c, 0), acc, 0) /\ WS!Before(c, 0 + 1) = acc[0]
  BY <1>1, BeforeIsTotal
<1> QED BY <1>1, <1>2 DEF Accumulates

LEMMA BeforeNext ==
  ASSUME NEW c, NEW n \in Nat, n # 0
  PROVE  WS!Before(c, n + 1) = WS!Before(c, n) + WS!Bytes(c[n])
<1> DEFINE m == n - 1
<1>1. m \in Nat /\ m + 1 = n
  OBVIOUS
<1> HIDE DEF m
<1>2. PICK acc : Accumulates(BytesTo(c, n), acc, n) /\ WS!Before(c, n + 1) = acc[n]
  BY BeforeIsTotal
<1>3. PICK bcc : Accumulates(BytesTo(c, m), bcc, m) /\ WS!Before(c, m + 1) = bcc[m]
  BY <1>1, BeforeIsTotal
<1>4. Accumulates(BytesTo(c, n), acc, m)
  BY <1>1, <1>2 DEF Accumulates
<1>5. \A k \in 1..m : BytesTo(c, n)[k] = BytesTo(c, m)[k]
  BY <1>1 DEF BytesTo
<1>6. acc[m] = bcc[m]
  BY <1>1, <1>3, <1>4, <1>5, SameTotal
<1>7. acc[n] = acc[m] + WS!Bytes(c[n])
  <2>1. n \in 1..n /\ n - 1 = m
    BY <1>1
  <2>2. acc[n] = acc[n - 1] + BytesTo(c, n)[n]
    BY <1>2, <2>1 DEF Accumulates
  <2>3. BytesTo(c, n)[n] = WS!Bytes(c[n])
    BY <2>1 DEF BytesTo
  <2> QED BY <2>1, <2>2, <2>3
<1> QED BY <1>1, <1>2, <1>3, <1>6, <1>7

\* It depends on the chunks before only.
LEMMA BeforeOfPrefix ==
  ASSUME NEW c, NEW d, NEW i, \A k \in 1..(i - 1) : c[k] = d[k]
  PROVE  WS!Before(c, i) = WS!Before(d, i)
<1>1. BytesTo(c, i - 1) = BytesTo(d, i - 1)
  BY DEF BytesTo
<1> QED BY <1>1, Zenon DEF WS!Before, BytesTo

\* No chunk begins behind the end of those up to n.
LEMMA BeforeGrows ==
  ASSUME NEW c, NEW n \in Nat, \A k \in 1..n : WS!Bytes(c[k]) \in Nat
  PROVE  \A i \in 1..(n + 1) : WS!Before(c, i) \in Nat /\ WS!Before(c, i) <= WS!Before(c, n + 1)
<1> DEFINE B(i) == WS!Before(c, i)
           G == {k \in Nat : k <= n => B(k + 1) \in Nat}
           H == {k \in Nat : k <= n => B(n + 1 - k) <= B(n + 1)}
<1>1. B(1) = 0 /\ \A k \in 1..n : B(k + 1) = B(k) + WS!Bytes(c[k])
  BY BeforeFirst, BeforeNext
<1> HIDE DEF B
<1>2. \A k \in Nat : k \in G
  <2>1. 0 \in G
    BY <1>1
  <2>2. ASSUME NEW k \in Nat, k \in G
        PROVE  k + 1 \in G
    <3> SUFFICES ASSUME k + 1 <= n PROVE B((k + 1) + 1) \in Nat
      OBVIOUS
    <3>1. k + 1 \in 1..n /\ B(k + 1) \in Nat
      BY <2>2
    <3> QED BY <1>1, <3>1
  <2> HIDE DEF G
  <2> QED BY <2>1, <2>2, Counting
<1>3. \A i \in 1..(n + 1) : B(i) \in Nat
  <2> TAKE i \in 1..(n + 1)
  <2>1. i - 1 \in Nat /\ i - 1 <= n /\ (i - 1) + 1 = i
    OBVIOUS
  <2> QED BY <1>2, <2>1
<1>4. \A k \in Nat : k \in H
  <2>1. 0 \in H
    <3>1. n + 1 - 0 = n + 1 /\ n + 1 \in 1..(n + 1)
      OBVIOUS
    <3> QED BY <1>3, <3>1
  <2>2. ASSUME NEW k \in Nat, k \in H
        PROVE  k + 1 \in H
    <3> SUFFICES ASSUME k + 1 <= n PROVE B(n + 1 - (k + 1)) <= B(n + 1)
      OBVIOUS
    <3> DEFINE j == n + 1 - (k + 1)
    <3>1. j \in 1..n /\ j + 1 = n + 1 - k /\ j \in 1..(n + 1) /\ j + 1 \in 1..(n + 1) /\ n + 1 \in 1..(n + 1)
      OBVIOUS
    <3> HIDE DEF j
    <3>2. B(j + 1) <= B(n + 1)
      BY <2>2, <3>1
    <3>3. B(j + 1) = B(j) + WS!Bytes(c[j]) /\ WS!Bytes(c[j]) \in Nat
      BY <1>1, <3>1
    <3>4. B(j) \in Nat /\ B(j + 1) \in Nat /\ B(n + 1) \in Nat
      BY <1>3, <3>1
    <3>5. B(j) <= B(n + 1)
      BY <3>2, <3>3, <3>4
    <3> QED BY <3>5 DEF j
  <2> HIDE DEF H
  <2> QED BY <2>1, <2>2, Counting
<1>5. \A i \in 1..(n + 1) : B(i) <= B(n + 1)
  <2> TAKE i \in 1..(n + 1)
  <2> DEFINE k == n + 1 - i
  <2>1. k \in Nat /\ k <= n /\ n + 1 - k = i
    OBVIOUS
  <2> HIDE DEF k
  <2> QED BY <1>4, <2>1
<1> QED BY <1>3, <1>5 DEF B

\* r is q behind p, which is a long, and m long with it.
Joins(S, r, p, a, q, m) ==
  /\ r \in Seq(S) /\ Len(r) = m /\ r = [j \in 1..m |-> r[j]]
  /\ \A j \in 1..m : r[j] = IF j <= a THEN p[j] ELSE q[j - a]

LEMMA SeqIsFunction ==
  ASSUME NEW S, NEW r \in Seq(S), NEW m, Len(r) = m
  PROVE  r = [j \in 1..m |-> r[j]]
  OBVIOUS

LEMMA Joined ==
  ASSUME NEW S, NEW p \in Seq(S), NEW q \in Seq(S), NEW a, Len(p) = a,
         NEW m, Len(p) + Len(q) = m
  PROVE  Joins(S, p \o q, p, a, q, m)
<1> DEFINE r == p \o q
<1>1. /\ r \in Seq(S) /\ Len(r) = Len(p) + Len(q)
      /\ \A j \in 1 .. Len(p) + Len(q) : r[j] = IF j <= Len(p) THEN p[j] ELSE q[j - Len(p)]
  BY ConcatProperties, Zenon
<1> HIDE DEF r
<1>2. r \in Seq(S) /\ Len(r) = m
  BY <1>1, Zenon
<1>3. \A j \in 1..m : r[j] = IF j <= a THEN p[j] ELSE q[j - a]
  BY <1>1, Zenon
<1>4. r = [j \in 1..m |-> r[j]]
  BY <1>2, SeqIsFunction, Zenon
<1>5. Joins(S, r, p, a, q, m)
  BY <1>2, <1>3, <1>4, Zenon DEF Joins
<1> QED BY <1>5, Zenon DEF r

\* The first pairs of w.
PairsTo(w, i) == [j \in 1..(2 * i) |-> w[j]]

LEMMA PairsGrow ==
  ASSUME NEW S, NEW n \in Nat, NEW w \in [1..(2 * n) -> S], NEW i \in 1..n
  PROVE  /\ i = 1 => PairsTo(w, i) = <<w[2 * i - 1], w[2 * i]>>
         /\ i # 1 => PairsTo(w, i) = PairsTo(w, i - 1) \o <<w[2 * i - 1], w[2 * i]>>
<1> DEFINE m == i - 1
           p == PairsTo(w, m)
           q == <<w[2 * i - 1], w[2 * i]>>
           a == 2 * m
<1>1. m \in Nat /\ i = m + 1 /\ 2 * i = a + 2 /\ 2 * i - 1 = a + 1 /\ a \in Nat /\ a + 2 <= 2 * n
  OBVIOUS
<1>2. p \in Seq(S) /\ Len(p) = a /\ \A j \in 1..a : p[j] = w[j]
  <2>1. p \in [1..a -> S] /\ \A j \in 1..a : p[j] = w[j]
    BY <1>1 DEF PairsTo
  <2> HIDE DEF p, a
  <2> QED BY <1>1, <2>1, SeqDef
<1> HIDE DEF p, a, m
<1>3. q \in Seq(S) /\ Len(q) = 2 /\ q[1] = w[a + 1] /\ q[2] = w[a + 2]
  BY <1>1
<1> HIDE DEF q
<1>4. p \o q = [j \in 1..(a + 2) |-> w[j]]
  <2> DEFINE r == p \o q
  <2>1. /\ r = [j \in 1..(a + 2) |-> r[j]]
        /\ \A j \in 1..(a + 2) : r[j] = IF j <= a THEN p[j] ELSE q[j - a]
    <3>1. p \in Seq(S) /\ q \in Seq(S) /\ Len(p) = a /\ Len(p) + Len(q) = a + 2
      BY <1>2, <1>3
    <3>2. Joins(S, r, p, a, q, a + 2)
      BY <3>1, Joined, Zenon
    <3> HIDE DEF r
    <3> QED BY <3>2, Zenon DEF Joins
  <2> HIDE DEF r
  <2>2. \A j \in 1..(a + 2) : (IF j <= a THEN p[j] ELSE q[j - a]) = w[j]
    <3> TAKE j \in 1..(a + 2)
    <3>1. j \in 1..a \/ j = a + 1 \/ j = a + 2
      BY <1>1
    <3> QED BY <1>1, <1>2, <1>3, <3>1
  <2>3. \A j \in 1..(a + 2) : r[j] = w[j]
    BY <2>1, <2>2
  <2>4. r = [j \in 1..(a + 2) |-> w[j]]
    BY <2>1, <2>3
  <2> QED BY <2>4 DEF r
<1>5. PairsTo(w, i) = [j \in 1..(a + 2) |-> w[j]]
  BY <1>1 DEF PairsTo
<1>6. i # 1 => PairsTo(w, i) = p \o q
  BY <1>4, <1>5
<1>7. i = 1 => PairsTo(w, i) = q
  <2> SUFFICES ASSUME i = 1 PROVE PairsTo(w, i) = q
    OBVIOUS
  <2>1. a = 0
    BY <1>1 DEF a, m
  <2>2. Len(p) = 0 /\ p = <<>>
    BY <1>2, <2>1
  <2>3. p \o q = q
    BY <1>3, <2>2, ConcatEmptySeq
  <2> QED BY <1>4, <1>5, <2>3
<1> QED BY <1>6, <1>7 DEF p, q, m

\* FlattenSeq puts pairs one behind the other.
LEMMA PairsFlattened ==
  ASSUME NEW S, NEW n \in Nat, n # 0, NEW w \in [1..(2 * n) -> S], NEW s,
         s = [i \in 1..n |-> <<w[2 * i - 1], w[2 * i]>>]
  PROVE  WS!FlattenSeq(s) = w
<1> DEFINE Step(f, i) == IF i = 1 THEN s[i] ELSE f[i - 1] \o s[i]
           flat == CHOOSE f : f = [i \in 1..n |-> Step(f, i)]
           g == [i \in 1..n |-> PairsTo(w, i)]
<1>1. s \in Seq(S \X S) /\ Len(s) = n /\ DOMAIN s = 1..n /\ \A i \in 1..n : s[i] = <<w[2 * i - 1], w[2 * i]>>
  <2>1. \A i \in 1..n : 2 * i - 1 \in 1..(2 * n) /\ 2 * i \in 1..(2 * n)
    OBVIOUS
  <2>2. s \in [1..n -> S \X S]
    BY <2>1
  <2>3. s \in Seq(S \X S)
    BY <2>2, SeqDef
  <2> QED BY <2>2, <2>3
<1>2. WS!FlattenSeq(s) = flat[n]
  BY <1>1, Zenon DEF WS!FlattenSeq
<1>3. \A i \in 1..n : PairsTo(w, i) = IF i = 1 THEN s[i] ELSE PairsTo(w, i - 1) \o s[i]
  BY <1>1, PairsGrow
<1>4. \A i \in 1..n : g[i] = Step(g, i)
  <2> TAKE i \in 1..n
  <2>1. i # 1 => g[i - 1] = PairsTo(w, i - 1)
    OBVIOUS
  <2> QED BY <1>3, <2>1
<1>5. g = [i \in 1..n |-> Step(g, i)]
  <2> HIDE DEF Step
  <2> QED BY <1>4
<1>6. flat = [i \in 1..n |-> Step(flat, i)]
  <2> HIDE DEF Step, g
  <2> QED BY <1>5, Zenon
<1> HIDE DEF flat
<1>7. \A i \in 1..n : flat[i] = Step(flat, i)
  <2> HIDE DEF Step
  <2> QED BY <1>6
<1> DEFINE G == {k \in Nat : k <= n /\ k # 0 => flat[k] = PairsTo(w, k)}
<1>8. \A k \in Nat : k \in G
  <2>1. 0 \in G
    OBVIOUS
  <2>2. ASSUME NEW k \in Nat, k \in G
        PROVE  k + 1 \in G
    <3> SUFFICES ASSUME k + 1 <= n PROVE flat[k + 1] = PairsTo(w, k + 1)
      OBVIOUS
    <3>1. k + 1 \in 1..n /\ (k + 1) - 1 = k /\ (k # 0 => flat[k] = PairsTo(w, k)) /\ (k = 0 <=> k + 1 = 1)
      BY <2>2
    <3>2. flat[k + 1] = IF k + 1 = 1 THEN s[k + 1] ELSE flat[(k + 1) - 1] \o s[k + 1]
      BY <1>7, <3>1
    <3>3. PairsTo(w, k + 1) = IF k + 1 = 1 THEN s[k + 1] ELSE PairsTo(w, (k + 1) - 1) \o s[k + 1]
      BY <1>3, <3>1
    <3> QED BY <3>1, <3>2, <3>3
  <2> HIDE DEF G
  <2> QED BY <2>1, <2>2, Counting
<1>9. flat[n] = PairsTo(w, n)
  BY <1>8
<1>10. PairsTo(w, n) = w
  BY DEF PairsTo
<1> QED BY <1>2, <1>9, <1>10

\* The chunk of a local header and the one of the bytes behind it.
LocalOf(e, i) ==
  [is |-> "local", name |-> e[i].name, size |-> WS!Field(e[i].size)]
DataOf(e, i) ==
  [is |-> "data", of |-> i, size |-> e[i].size]

LEMMA LocalShape ==
  ASSUME NEW e \in Seq(WS!File), e # <<>>
  PROVE  LET local == WS!LocalChunks(e) IN
           /\ local \in [1..(2 * Len(e)) -> {local[j] : j \in 1..(2 * Len(e))}]
           /\ \A i \in 1..Len(e) : local[2 * i - 1] = LocalOf(e, i) /\ local[2 * i] = DataOf(e, i)
<1> DEFINE n == Len(e)
           w == [j \in 1..(2 * n) |-> IF j % 2 = 1 THEN LocalOf(e, (j + 1) \div 2) ELSE DataOf(e, j \div 2)]
           s == [i \in 1..n |-> <<w[2 * i - 1], w[2 * i]>>]
           S == {w[j] : j \in 1..(2 * n)}
<1>1. n \in Nat /\ n # 0 /\ DOMAIN e = 1..n
  OBVIOUS
<1> HIDE DEF n
<1>2. \A i \in 1..n : w[2 * i - 1] = LocalOf(e, i) /\ w[2 * i] = DataOf(e, i)
  <2> TAKE i \in 1..n
  <2>1. /\ 2 * i - 1 \in 1..(2 * n) /\ (2 * i - 1) % 2 = 1 /\ ((2 * i - 1) + 1) \div 2 = i
        /\ 2 * i \in 1..(2 * n) /\ (2 * i) % 2 # 1 /\ (2 * i) \div 2 = i
    BY <1>1
  <2> QED BY <2>1
<1>3. w \in [1..(2 * n) -> S]
  OBVIOUS
<1> HIDE DEF w, S
<1>4. WS!FlattenSeq(s) = w
  <2>1. \A S1, s1 : w \in [1..(2 * n) -> S1] /\ s1 = [i \in 1..n |-> <<w[2 * i - 1], w[2 * i]>>] => WS!FlattenSeq(s1) = w
    BY <1>1, PairsFlattened
  <2> QED BY <1>3, <2>1
<1>5. s = [i \in DOMAIN e |-> <<LocalOf(e, i), DataOf(e, i)>>]
  BY <1>1, <1>2
<1>6. WS!LocalChunks(e) = WS!FlattenSeq(s)
  <2> HIDE DEF s
  <2> QED BY <1>5, Zenon DEF WS!LocalChunks, LocalOf, DataOf
<1> QED BY <1>2, <1>3, <1>4, <1>6 DEF n, S

\* The line of the directory for entry i.
CentralOf(e, i) ==
  [is |-> "central", name |-> e[i].name, size |-> WS!Field(e[i].size),
   offset |-> WS!Field(WS!Before(WS!LocalChunks(e), 2 * i - 1))]

EndOf(e) == WS!EndChunk(e, WS!LocalChunks(e), WS!CentralChunks(e, WS!LocalChunks(e)))

\* What is where in an archive z of n entries.
Archive(z, e) ==
  /\ Len(z) = 3 * Len(e) + 1 /\ DOMAIN z = 1..(3 * Len(e) + 1)
  /\ \A i \in 1..Len(e) :
       /\ z[2 * i - 1] = LocalOf(e, i)
       /\ z[2 * i] = DataOf(e, i)
       /\ z[2 * Len(e) + i] = CentralOf(e, i)
  /\ z[3 * Len(e) + 1] = EndOf(e)
  /\ \A j \in 1..(2 * Len(e)) : z[j] = WS!LocalChunks(e)[j]

LEMMA ArchiveShape ==
  ASSUME NEW e \in Seq(WS!File), e # <<>>
  PROVE  Archive(WS!CreateStoreOnlyZip(e), e)
<1> DEFINE n == Len(e)
           local == WS!LocalChunks(e)
           central == WS!CentralChunks(e, local)
           end == EndOf(e)
           S == {local[j] : j \in 1..(2 * n)} \cup {CentralOf(e, i) : i \in 1..n} \cup {end}
           z == WS!CreateStoreOnlyZip(e)
<1>1. n \in Nat /\ n # 0 /\ DOMAIN e = 1..n
  OBVIOUS
<1>2. z = local \o central \o <<end>>
  BY Zenon DEF WS!CreateStoreOnlyZip, EndOf
<1>3. /\ local \in [1..(2 * n) -> {local[j] : j \in 1..(2 * n)}]
      /\ \A i \in 1..n : local[2 * i - 1] = LocalOf(e, i) /\ local[2 * i] = DataOf(e, i)
  BY LocalShape
<1>4. central = [i \in 1..n |-> CentralOf(e, i)]
  BY <1>1, Zenon DEF WS!CentralChunks, CentralOf
<1> HIDE DEF n, local, central, end, z
<1>5. local \in Seq(S) /\ Len(local) = 2 * n
  <2>1. local \in [1..(2 * n) -> S] /\ 2 * n \in Nat
    BY <1>1, <1>3
  <2> HIDE DEF S
  <2> QED BY <2>1, SeqDef
<1>6. central \in Seq(S) /\ Len(central) = n
  <2>1. central \in [1..n -> S]
    BY <1>4
  <2> HIDE DEF S
  <2> QED BY <1>1, <2>1, SeqDef
<1>7. <<end>> \in Seq(S) /\ Len(<<end>>) = 1 /\ <<end>>[1] = end
  <2>1. end \in S
    OBVIOUS
  <2> HIDE DEF S
  <2> QED BY <2>1
<1> HIDE DEF S
<1> DEFINE lc == local \o central
           one == <<end>>
<1>8. Joins(S, lc, local, 2 * n, central, 3 * n)
  <2>1. Len(local) + Len(central) = 3 * n
    BY <1>1, <1>5, <1>6
  <2> QED BY <1>5, <1>6, <2>1, Joined, Zenon
<1> HIDE DEF lc
<1>9. Joins(S, z, lc, 3 * n, one, 3 * n + 1)
  <2>1. lc \in Seq(S) /\ Len(lc) = 3 * n
    BY <1>8 DEF Joins
  <2>2. one \in Seq(S) /\ Len(one) = 1
    BY <1>7
  <2>3. z = lc \o one
    BY <1>2 DEF lc
  <2> HIDE DEF one
  <2>4. Len(lc) + Len(one) = 3 * n + 1
    BY <2>1, <2>2
  <2>5. Joins(S, lc \o one, lc, 3 * n, one, 3 * n + 1)
    BY <2>1, <2>2, <2>4, Joined, Zenon
  <2> QED BY <2>3, <2>5
<1> HIDE DEF one
<1>10. DOMAIN z = 1..(3 * n + 1)
  BY <1>9 DEF Joins
<1>11. \A j \in 1..(2 * n) : z[j] = local[j]
  <2> TAKE j \in 1..(2 * n)
  <2>1. j \in 1..(3 * n) /\ j \in 1..(3 * n + 1) /\ j <= 2 * n /\ j <= 3 * n
    BY <1>1
  <2> QED BY <1>8, <1>9, <2>1 DEF Joins
<1>12. \A i \in 1..n : z[2 * i - 1] = LocalOf(e, i) /\ z[2 * i] = DataOf(e, i)
  <2> TAKE i \in 1..n
  <2>1. 2 * i - 1 \in 1..(2 * n) /\ 2 * i \in 1..(2 * n)
    BY <1>1
  <2> QED BY <1>3, <1>11, <2>1
<1>13. \A i \in 1..n : z[2 * n + i] = CentralOf(e, i)
  <2> TAKE i \in 1..n
  <2> DEFINE j == 2 * n + i
  <2>1. j \in 1..(3 * n) /\ j \in 1..(3 * n + 1) /\ ~(j <= 2 * n) /\ j <= 3 * n /\ j - 2 * n = i
    BY <1>1
  <2> HIDE DEF j
  <2>2. z[j] = lc[j]
    BY <1>9, <2>1 DEF Joins
  <2>3. lc[j] = central[i]
    BY <1>8, <2>1 DEF Joins
  <2>4. central[i] = CentralOf(e, i)
    BY <1>4
  <2> QED BY <2>2, <2>3, <2>4 DEF j
<1>14. z[3 * n + 1] = end
  <2> DEFINE j == 3 * n + 1
  <2>1. j \in 1..(3 * n + 1) /\ ~(j <= 3 * n) /\ j - 3 * n = 1
    BY <1>1
  <2> HIDE DEF j
  <2>2. z[j] = one[1]
    BY <1>9, <2>1 DEF Joins
  <2>3. one[1] = end
    BY <1>7 DEF one
  <2> QED BY <2>2, <2>3 DEF j
<1> QED BY <1>9, <1>10, <1>11, <1>12, <1>13, <1>14 DEF Archive, Joins, n, local, end, z

LEMMA NamesHaveLengths ==
  ASSUME NEW name \in WS!Names
  PROVE  Len(name) \in Nat
<1>1. PICK t \in Texts : name = <<t>> \/ name = <<t, 1>>
  BY Zenon DEF WS!Names
<1>2. Len(<<t>>) = 1 /\ Len(<<t, 1>>) = 2
  OBVIOUS
<1>3. Len(name) = 1 \/ Len(name) = 2
  BY <1>1, <1>2, Zenon
<1> QED BY <1>3

\* Every chunk of an archive takes a number of bytes, but for the bytes of a file a positive one.
LEMMA ChunksHaveBytes ==
  ASSUME NEW e \in Seq(WS!File), NEW z, Archive(z, e)
  PROVE  /\ \A i \in 1..Len(e) :
              /\ WS!Bytes(z[2 * i - 1]) \in Nat \ {0}
              /\ WS!Bytes(z[2 * i]) = e[i].size /\ e[i].size \in Nat
              /\ WS!Bytes(z[2 * Len(e) + i]) \in Nat \ {0}
         /\ \A j \in 1..(3 * Len(e) + 1) : WS!Bytes(z[j]) \in Nat
<1> DEFINE n == Len(e)
<1>1. n \in Nat
  OBVIOUS
<1>2. ASSUME NEW i \in 1..n
      PROVE  /\ WS!Bytes(z[2 * i - 1]) \in Nat \ {0}
             /\ WS!Bytes(z[2 * i]) = e[i].size /\ e[i].size \in Nat
             /\ WS!Bytes(z[2 * n + i]) \in Nat \ {0}
  <2>1. e[i].name \in WS!Names /\ e[i].size \in Nat
    <3>1. e[i] \in WS!File
      OBVIOUS
    <3> QED BY <3>1, MCPagesAssumption DEF WS!File
  <2>2. Len(e[i].name) \in Nat
    BY <2>1, NamesHaveLengths
  <2>3. z[2 * i - 1] = LocalOf(e, i) /\ z[2 * i] = DataOf(e, i) /\ z[2 * n + i] = CentralOf(e, i)
    BY DEF Archive
  <2>4. WS!Bytes(LocalOf(e, i)) = 30 + Len(e[i].name)
    <3>1. LocalOf(e, i).is = "local" /\ LocalOf(e, i).name = e[i].name
      BY DEF LocalOf
    <3> QED BY <3>1 DEF WS!Bytes
  <2>5. WS!Bytes(DataOf(e, i)) = e[i].size
    <3>1. DataOf(e, i).is = "data" /\ DataOf(e, i).size = e[i].size
      BY DEF DataOf
    <3> QED BY <3>1 DEF WS!Bytes
  <2>6. WS!Bytes(CentralOf(e, i)) = 46 + Len(e[i].name)
    <3>1. CentralOf(e, i).is = "central" /\ CentralOf(e, i).name = e[i].name
      BY DEF CentralOf
    <3> QED BY <3>1 DEF WS!Bytes
  <2> QED BY <2>1, <2>2, <2>3, <2>4, <2>5, <2>6
<1>3. WS!Bytes(z[3 * n + 1]) = 22
  <2>1. z[3 * n + 1] = EndOf(e)
    BY DEF Archive
  <2>2. EndOf(e).is = "end"
    BY DEF EndOf, WS!EndChunk
  <2> QED BY <2>1, <2>2 DEF WS!Bytes
<1>4. ASSUME NEW j \in 1..(3 * n + 1)
      PROVE  WS!Bytes(z[j]) \in Nat
  <2>1. CASE j = 3 * n + 1
    BY <1>3, <2>1
  <2>2. CASE j \in 1..(2 * n) /\ j % 2 = 1
    <3> DEFINE i == (j + 1) \div 2
    <3>1. i \in 1..n /\ j = 2 * i - 1
      BY <1>1, <2>2
    <3> QED BY <1>2, <3>1
  <2>3. CASE j \in 1..(2 * n) /\ j % 2 # 1
    <3> DEFINE i == j \div 2
    <3>1. i \in 1..n /\ j = 2 * i
      BY <1>1, <2>3
    <3> QED BY <1>2, <3>1
  <2>4. CASE j \in (2 * n + 1)..(3 * n)
    <3> DEFINE i == j - 2 * n
    <3>1. i \in 1..n /\ j = 2 * n + i
      BY <1>1, <2>4
    <3> QED BY <1>2, <3>1
  <2> QED BY <1>1, <2>1, <2>2, <2>3, <2>4
<1> QED BY <1>2, <1>4

LEMMA FieldHolds ==
  ASSUME NEW v \in Nat, v < Field32
  PROVE  WS!Field(v) = v
  BY MCPagesAssumption DEF WS!Field

\* A reader finds every entry of an archive that fits the fields.
LEMMA ArchiveReadsBack ==
  ASSUME NEW e \in Seq(WS!File), e # <<>>, NEW z, Archive(z, e), WS!Total(z) < Field32
  PROVE  WS!Readable(z, e)
<1> DEFINE n == Len(e)
           local == WS!LocalChunks(e)
           B(i) == WS!Before(z, i)
           s == 2 * n + 1
<1>1. n \in Nat /\ n # 0 /\ 3 * n + 1 \in Nat /\ s \in 1..(3 * n + 1) /\ Field32 \in Nat
  BY MCPagesAssumption
<1>2. \A i \in 1..(3 * n + 2) : B(i) \in Nat /\ B(i) < Field32
  <2> DEFINE m == 3 * n + 1
  <2>1. m \in Nat /\ m + 1 = 3 * n + 2 /\ \A j \in 1..m : WS!Bytes(z[j]) \in Nat
    BY <1>1, ChunksHaveBytes
  <2>2. WS!Total(z) = B(m + 1)
    BY DEF WS!Total, Archive
  <2> HIDE DEF m, B
  <2>3. \A i \in 1..(m + 1) : B(i) \in Nat /\ B(i) <= B(m + 1)
    BY <2>1, BeforeGrows DEF B
  <2>4. m + 1 \in 1..(m + 1)
    BY <2>1
  <2>5. B(m + 1) \in Nat /\ B(m + 1) < Field32
    BY <2>2, <2>3, <2>4
  <2> QED BY <1>1, <2>1, <2>3, <2>5
<1>3. \A i \in 1..(2 * n + 1) : WS!Before(local, i) = B(i)
  <2> TAKE i \in 1..(2 * n + 1)
  <2>1. \A j \in 1..(i - 1) : z[j] = local[j]
    <3> TAKE j \in 1..(i - 1)
    <3>1. j \in 1..(2 * n)
      BY <1>1
    <3> QED BY <3>1 DEF Archive
  <2> QED BY <2>1, BeforeOfPrefix
<1>4. Len(local) = 2 * n
  <2>1. local \in [1..(2 * n) -> {local[j] : j \in 1..(2 * n)}] /\ 2 * n \in Nat
    BY <1>1, LocalShape
  <2> HIDE DEF local, n
  <2>2. local \in Seq({local[j] : j \in 1..(2 * n)})
    BY <2>1, SeqDef
  <2> QED BY <2>1, <2>2
<1> DEFINE end == z[Len(z)]
<1>5. end.count = n /\ end.offset = B(s)
  <2>1. end = EndOf(e)
    BY DEF Archive
  <2>2. EndOf(e).count = n /\ EndOf(e).offset = WS!Field(WS!Total(local))
    BY DEF EndOf, WS!EndChunk
  <2>3. WS!Total(local) = B(s)
    <3>1. Len(local) + 1 = s /\ s \in 1..(2 * n + 1)
      BY <1>1, <1>4
    <3> QED BY <1>3, <3>1 DEF WS!Total
  <2>4. B(s) \in Nat /\ B(s) < Field32
    <3>1. s \in 1..(3 * n + 2)
      BY <1>1
    <3> QED BY <1>2, <3>1
  <2>5. WS!Field(B(s)) = B(s)
    <3> HIDE DEF B, s
    <3> QED BY <2>4, FieldHolds
  <2> QED BY <2>1, <2>2, <2>3, <2>5
<1> HIDE DEF s
<1>6. s \in WS!ChunkAt(z, end.offset)
  <2>1. s \in DOMAIN z
    BY <1>1 DEF Archive
  <2>2. WS!Bytes(z[s]) > 0
    <3>1. 1 \in 1..n /\ 2 * n + 1 = s
      BY <1>1 DEF s
    <3>2. WS!Bytes(z[s]) \in Nat \ {0}
      BY <3>1, ChunksHaveBytes
    <3> QED BY <3>2
  <2> HIDE DEF end
  <2> QED BY <1>5, <2>1, <2>2 DEF WS!ChunkAt
<1>7. ASSUME NEW k \in 1..n
      PROVE  LET line == z[s + k - 1] IN
               /\ line.is = "central"
               /\ \E h \in WS!ChunkAt(z, line.offset) :
                    /\ z[h].is = "local" /\ z[h].name = line.name
                    /\ z[h + 1].is = "data" /\ z[h + 1].of = k
                    /\ z[h + 1].size = line.size
  <2> DEFINE h == 2 * k - 1
             line == z[s + k - 1]
  <2>1. /\ h \in 1..(3 * n + 1) /\ h \in 1..(2 * n + 1) /\ h + 1 = 2 * k /\ s + k - 1 = 2 * n + k
        /\ 2 * k \in Nat /\ 2 * k # 0 /\ 2 * k \in 1..(3 * n + 2) /\ 2 * k + 1 \in 1..(3 * n + 2)
        /\ h \in 1..(3 * n + 2)
    BY <1>1 DEF s
  <2>2. z[h] = LocalOf(e, k) /\ z[h + 1] = DataOf(e, k) /\ line = CentralOf(e, k)
    BY <2>1 DEF Archive
  <2> HIDE DEF h, line
  <2>3. e[k].size \in Nat /\ e[k].size < Field32
    <3>1. e[k].size \in Nat /\ WS!Bytes(z[2 * k]) = e[k].size
      BY ChunksHaveBytes
    <3>2. B(2 * k + 1) = B(2 * k) + WS!Bytes(z[2 * k])
      BY <2>1, BeforeNext
    <3>3. B(2 * k) \in Nat /\ B(2 * k + 1) \in Nat /\ B(2 * k + 1) < Field32
      BY <1>2, <2>1
    <3> HIDE DEF B
    <3> QED BY <1>1, <3>1, <3>2, <3>3
  <2>4. line.is = "central" /\ line.name = e[k].name
    BY <2>2 DEF CentralOf
  <2>5. line.size = e[k].size
    <3>1. line.size = WS!Field(e[k].size)
      BY <2>2 DEF CentralOf
    <3> QED BY <2>3, <3>1, FieldHolds
  <2>6. line.offset = B(h)
    <3>1. line.offset = WS!Field(WS!Before(local, h))
      BY <2>2 DEF CentralOf, h
    <3>2. WS!Before(local, h) = B(h) /\ B(h) \in Nat /\ B(h) < Field32
      BY <1>2, <1>3, <2>1
    <3> HIDE DEF B, local
    <3> QED BY <3>1, <3>2, FieldHolds
  <2>7. h \in WS!ChunkAt(z, line.offset)
    <3>1. h \in DOMAIN z
      BY <2>1 DEF Archive
    <3>2. WS!Bytes(z[h]) \in Nat \ {0}
      BY ChunksHaveBytes DEF h
    <3>3. WS!Bytes(z[h]) > 0
      BY <3>2
    <3> QED BY <2>6, <3>1, <3>3 DEF WS!ChunkAt
  <2>8. z[h].is = "local" /\ z[h].name = e[k].name
    BY <2>2 DEF LocalOf
  <2>9. z[h + 1].is = "data" /\ z[h + 1].of = k /\ z[h + 1].size = e[k].size
    BY <2>2 DEF DataOf
  <2>10. \E g \in WS!ChunkAt(z, line.offset) :
           /\ z[g].is = "local" /\ z[g].name = line.name
           /\ z[g + 1].is = "data" /\ z[g + 1].of = k
           /\ z[g + 1].size = line.size
    BY <2>4, <2>5, <2>7, <2>8, <2>9, Zenon
  <2> QED BY <2>4, <2>10, Zenon DEF line
<1> HIDE DEF n
<1>8. \E t \in WS!ChunkAt(z, end.offset) : \A k \in 1..end.count :
        LET line == z[t + k - 1] IN
          /\ line.is = "central"
          /\ \E h \in WS!ChunkAt(z, line.offset) :
               /\ z[h].is = "local" /\ z[h].name = line.name
               /\ z[h + 1].is = "data" /\ z[h + 1].of = k
               /\ z[h + 1].size = line.size
  BY <1>5, <1>6, <1>7, Zenon
<1> QED BY <1>5, <1>8, Zenon DEF WS!Readable, n

------------------------------------------------------------------------------
(* Saving in a browser (WebSave)                                            *)

\* A name that is given to a file is free.
LEMMA ResolvedIsFree ==
  ASSUME NEW n, WS!ResolveWritableFileName(n) # WS!Nothing
  PROVE  WS!ResolveWritableFileName(n) \notin DOMAIN wsFolder
<1> DEFINE free == {i \in 1..(MaxIndex - 2) : WS!ResolveConflictName(n, i) \notin DOMAIN wsFolder}
           i0 == CHOOSE i \in free : \A j \in free : i <= j
<1>1. CASE n \notin DOMAIN wsFolder
  BY <1>1 DEF WS!ResolveWritableFileName
<1>2. CASE n \in DOMAIN wsFolder
  <2>1. /\ free # {}
        /\ WS!ResolveWritableFileName(n) = WS!ResolveConflictName(n, i0)
    BY <1>2 DEF WS!ResolveWritableFileName
  <2>2. free \in SUBSET Nat
    BY MCPagesAssumption
  <2>3. i0 \in free
    <3> HIDE DEF free
    <3> QED BY <2>1, <2>2, LeastExists
  <2> HIDE DEF i0
  <2> QED BY <2>1, <2>3
<1> QED BY <1>1, <1>2

\* The file i of receive r is in the folder, under its name or a reported one.
SavedIn(folder, r, list, changed, i) ==
  \E n \in DOMAIN folder :
    /\ folder[n] = <<r, i>>
    /\ n = list[i].name \/ <<list[i].name, n>> \in changed

\* What is under the name n in the folder may be written over by receive r.
MayLose(folder, met, r, n) ==
  n \in DOMAIN folder => r \in met /\ folder[n] # WS!Mine /\ folder[n][1] \in met

\* Where one receive stands: the files before the next one are saved unless it met
\* another, and the name found for the next is still free, or it met the one who took it.
Saving(folder, met, r, list, at, next, target, changed) ==
  /\ at \in {"resolve", "write", "saved"} /\ r \notin met =>
       \A i \in 1..(next - 1) : SavedIn(folder, r, list, changed, i)
  /\ at \in {"resolve", "write"} => next \in 1..Len(list)
  /\ at = "saved" => next = Len(list) + 1
  /\ at \in {"idle", "engine", "asked"} => next = 1
  /\ at \in {"asked", "resolve", "write", "download", "saved", "downloaded"} => list # <<>>
  /\ at = "write" => MayLose(folder, met, r, target)

Archived(list, at, zip) ==
  zip # <<>> => zip = WS!CreateStoreOnlyZip(list) /\ list # <<>> /\ at = "downloaded"

SavingOf(r) ==
  Saving(wsFolder, wsMet, r, wsFiles[r], wsAt[r], wsNext[r], wsTarget[r], wsConflicts[r])

SaveTypes ==
  /\ wsFiles \in [Receives -> Seq(WS!File)] /\ wsNext \in [Receives -> Nat]
  /\ wsAt \in [Receives -> {"idle", "engine", "failed", "asked", "resolve", "write",
                            "download", "saved", "downloaded"}]
  /\ DOMAIN wsTarget = Receives /\ DOMAIN wsConflicts = Receives /\ DOMAIN wsZip = Receives

\* Of two receives that write, both have met another.
WritersMet == \A q, r \in WS!Writing : q # r => q \in wsMet

WritingInv ==
  /\ SaveTypes
  /\ WritersMet
  /\ \A r \in Receives : SavingOf(r)
  /\ \A r \in Receives : Archived(wsFiles[r], wsAt[r], wsZip[r])

LEMMA SaveInit == WS!Init => WritingInv
<1> SUFFICES ASSUME WS!Init PROVE WritingInv
  OBVIOUS
<1>1. SaveTypes
  BY DEF WS!Init, SaveTypes
<1>2. \A r \in Receives : wsAt[r] = "idle" /\ wsNext[r] = 1 /\ wsZip[r] = <<>>
  BY DEF WS!Init
<1>3. WritersMet
  BY <1>2 DEF WritersMet, WS!Writing
<1> QED BY <1>1, <1>2, <1>3 DEF WritingInv, SavingOf, Saving, Archived

LEMMA CollectionsAreSeqs ==
  ASSUME NEW n \in 1..MaxFiles, NEW fs \in WS!Collections(n)
  PROVE  fs \in Seq(WS!File) /\ fs # <<>>
<1>1. fs \in [1..n -> WS!File]
  BY DEF WS!Collections
<1>2. n \in Nat /\ n # 0
  BY MCPagesAssumption
<1>3. fs \in Seq(WS!File)
  BY <1>1, <1>2, SeqDef
<1>4. Len(fs) = n
  BY <1>1, <1>2, <1>3
<1> QED BY <1>2, <1>3, <1>4

\* A receive keeps its standing when only the folder changes, by a write to a name
\* another one may write, and when more receives have met.
LEMMA StandingKept ==
  ASSUME NEW folder, NEW met, NEW r, NEW list, NEW at, NEW next, NEW target, NEW changed,
         NEW folder2, NEW met2, met \subseteq met2,
         DOMAIN folder \subseteq DOMAIN folder2,
         \A n \in DOMAIN folder : folder2[n] = folder[n] \/ (folder[n] # WS!Mine /\ folder[n][1] \in met),
         at = "write" => MayLose(folder2, met2, r, target),
         Saving(folder, met, r, list, at, next, target, changed)
  PROVE  Saving(folder2, met2, r, list, at, next, target, changed)
<1>1. ASSUME at \in {"resolve", "write", "saved"}, r \notin met2, NEW i \in 1..(next - 1)
      PROVE  SavedIn(folder2, r, list, changed, i)
  <2>1. r \notin met
    BY <1>1
  <2>2. SavedIn(folder, r, list, changed, i)
    BY <1>1, <2>1 DEF Saving
  <2>3. PICK n \in DOMAIN folder :
          /\ folder[n] = <<r, i>>
          /\ n = list[i].name \/ <<list[i].name, n>> \in changed
    BY <2>2 DEF SavedIn
  <2>4. folder[n][1] = r
    BY <2>3
  <2>5. folder2[n] = folder[n]
    BY <2>1, <2>4
  <2> QED BY <2>3, <2>5 DEF SavedIn
<1> QED BY <1>1 DEF Saving

\* The actions of a receive that leave the folder and the meetings alone.
LEMMA SaveSteps ==
  ASSUME WritingInv, NEW r \in Receives,
         UNCHANGED <<wsFolder, wsMet>>,
         SaveTypes',
         WS!Writing' \subseteq WS!Writing,
         \A q \in Receives \ {r} :
           UNCHANGED <<wsFiles[q], wsAt[q], wsNext[q], wsTarget[q], wsConflicts[q], wsZip[q]>>,
         SavingOf(r)', Archived(wsFiles[r], wsAt[r], wsZip[r])'
  PROVE  WritingInv'
<1>1. \A q \in Receives : SavingOf(q)'
  BY DEF WritingInv, SavingOf
<1>2. \A q \in Receives : Archived(wsFiles[q], wsAt[q], wsZip[q])'
  BY DEF WritingInv
<1>3. WritersMet'
  BY DEF WritingInv, WritersMet
<1> QED BY <1>1, <1>2, <1>3 DEF WritingInv

LEMMA SaveMoves ==
  ASSUME WritingInv, NEW r \in Receives,
         \/ WS!ReceiveFile(r) \/ WS!Refused(r) \/ WS!Announce(r) \/ WS!Resolve(r) \/ WS!Download(r)
         \/ \E n \in 1..MaxFiles : \E fs \in WS!Collections(n) : WS!WriteReceivedCollection(r, fs)
         \/ WS!Permission(r, FALSE) \/ WS!Write(r, FALSE)
  PROVE  WritingInv'
<1> USE DEF WritingInv, SaveTypes
<1>1. SavingOf(r) /\ Archived(wsFiles[r], wsAt[r], wsZip[r])
  OBVIOUS
<1>2. CASE WS!ReceiveFile(r) \/ WS!Refused(r)
  <2>1. /\ wsAt[r] \in {"idle", "engine"} /\ wsAt' \in {[wsAt EXCEPT ![r] = "engine"], [wsAt EXCEPT ![r] = "failed"]}
        /\ wsAt[r] = "engine" => wsAt' = [wsAt EXCEPT ![r] = "failed"]
        /\ UNCHANGED <<wsFolder, wsMet, wsFiles, wsNext, wsTarget, wsConflicts, wsZip>>
    BY <1>2 DEF WS!ReceiveFile, WS!Refused
  <2>2. SavingOf(r)' /\ Archived(wsFiles[r], wsAt[r], wsZip[r])'
    BY <1>1, <2>1 DEF SavingOf, Saving, Archived
  <2> QED BY <2>1, <2>2, SaveSteps DEF WS!Writing
<1>3. CASE WS!Announce(r)
  <2>1. UNCHANGED <<wsFolder, wsMet, wsFiles, wsAt, wsNext, wsTarget, wsConflicts, wsZip>>
    BY <1>3 DEF WS!Announce
  <2> QED BY <1>1, <2>1, SaveSteps DEF SavingOf, WS!Writing
<1>4. CASE WS!Resolve(r)
  <2> DEFINE free == WS!ResolveWritableFileName(wsFiles[r][wsNext[r]].name)
  <2>1. /\ wsAt[r] = "resolve" /\ wsTarget' = [wsTarget EXCEPT ![r] = free]
        /\ wsAt' = [wsAt EXCEPT ![r] = IF free = WS!Nothing THEN "failed" ELSE "write"]
        /\ UNCHANGED <<wsFolder, wsMet, wsFiles, wsNext, wsConflicts, wsZip>>
    BY <1>4 DEF WS!Resolve
  <2>2. free # WS!Nothing => free \notin DOMAIN wsFolder
    BY ResolvedIsFree
  <2> HIDE DEF free
  <2>3. SavingOf(r)' /\ Archived(wsFiles[r], wsAt[r], wsZip[r])'
    <3>1. wsAt'[r] = "write" => MayLose(wsFolder', wsMet', r, wsTarget'[r])
      BY <2>1, <2>2 DEF MayLose
    <3> QED BY <1>1, <2>1, <3>1 DEF SavingOf, Saving, Archived
  <2> QED BY <2>1, <2>3, SaveSteps DEF WS!Writing
<1>5. CASE WS!Download(r)
  <2>1. /\ wsAt[r] = "download" /\ wsAt' = [wsAt EXCEPT ![r] = "downloaded"]
        /\ \E z \in {<<>>, WS!CreateStoreOnlyZip(wsFiles[r])} : wsZip' = [wsZip EXCEPT ![r] = z]
        /\ UNCHANGED <<wsFolder, wsMet, wsFiles, wsNext, wsTarget, wsConflicts>>
    BY <1>5 DEF WS!Download
  <2>2. SavingOf(r)' /\ Archived(wsFiles[r], wsAt[r], wsZip[r])'
    BY <1>1, <2>1 DEF SavingOf, Saving, Archived
  <2> QED BY <2>1, <2>2, SaveSteps DEF WS!Writing
<1>6. ASSUME NEW n \in 1..MaxFiles, NEW fs \in WS!Collections(n), WS!WriteReceivedCollection(r, fs)
      PROVE  WritingInv'
  <2>1. /\ wsAt[r] = "engine" /\ wsFiles' = [wsFiles EXCEPT ![r] = fs]
        /\ wsAt' = [wsAt EXCEPT ![r] = IF wsHandle THEN "asked" ELSE "download"]
        /\ UNCHANGED <<wsFolder, wsMet, wsNext, wsTarget, wsConflicts, wsZip>>
    BY <1>6 DEF WS!WriteReceivedCollection
  <2>2. fs \in Seq(WS!File) /\ fs # <<>>
    BY CollectionsAreSeqs
  <2>3. SavingOf(r)' /\ Archived(wsFiles[r], wsAt[r], wsZip[r])'
    BY <1>1, <2>1, <2>2 DEF SavingOf, Saving, Archived
  <2> QED BY <2>1, <2>2, <2>3, SaveSteps DEF WS!Writing
<1>7. CASE WS!Permission(r, FALSE) \/ WS!Write(r, FALSE)
  <2>1. /\ wsAt[r] \in {"asked", "write"}
        /\ wsAt' \in {[wsAt EXCEPT ![r] = "download"], [wsAt EXCEPT ![r] = "failed"]}
        /\ UNCHANGED <<wsFolder, wsMet, wsFiles, wsNext, wsConflicts, wsZip>>
        /\ wsTarget' = wsTarget \/ wsTarget' = [wsTarget EXCEPT ![r] = WS!Nothing]
    BY <1>7 DEF WS!Permission, WS!Write
  <2>2. SavingOf(r)' /\ Archived(wsFiles[r], wsAt[r], wsZip[r])'
    BY <1>1, <2>1 DEF SavingOf, Saving, Archived
  <2> QED BY <2>1, <2>2, SaveSteps DEF WS!Writing
<1> QED BY <1>2, <1>3, <1>4, <1>5, <1>6, <1>7

\* A receive begins to write: it and those that write already have met.
LEMMA SavePermitted ==
  ASSUME WritingInv, NEW r \in Receives, WS!Permission(r, TRUE)
  PROVE  WritingInv'
<1>1. /\ wsAt[r] = "asked" /\ wsAt' = [wsAt EXCEPT ![r] = "resolve"]
      /\ wsMet' = IF WS!Writing # {} THEN wsMet \cup WS!Writing \cup {r} ELSE wsMet
      /\ UNCHANGED <<wsFolder, wsFiles, wsNext, wsTarget, wsConflicts, wsZip>>
  BY DEF WS!Permission
<1>2. SaveTypes'
  BY <1>1 DEF WritingInv, SaveTypes
<1>3. WS!Writing' = WS!Writing \cup {r}
  BY <1>1 DEF WritingInv, SaveTypes, WS!Writing
<1>4. WritersMet'
  BY <1>1, <1>3 DEF WritingInv, WritersMet
<1>5. ASSUME NEW q \in Receives, q # r
      PROVE  SavingOf(q)'
  <2>1. UNCHANGED <<wsAt[q], wsFiles[q], wsNext[q], wsTarget[q], wsConflicts[q]>>
    BY <1>1, <1>5 DEF WritingInv, SaveTypes
  <2>2. wsAt[q] = "write" => MayLose(wsFolder', wsMet', q, wsTarget[q])
    BY <1>1 DEF WritingInv, SavingOf, Saving, MayLose
  <2>3. SavingOf(q) /\ wsMet \subseteq wsMet'
    BY <1>1 DEF WritingInv
  <2>4. Saving(wsFolder', wsMet', q, wsFiles[q], wsAt[q], wsNext[q], wsTarget[q], wsConflicts[q])
    BY <1>1, <2>2, <2>3, StandingKept DEF SavingOf
  <2> QED BY <2>1, <2>4 DEF SavingOf
<1>6. SavingOf(r)'
  <2>1. SavingOf(r) /\ wsAt'[r] = "resolve" /\ wsNext[r] \in Nat /\ wsFiles[r] \in Seq(WS!File)
    BY <1>1 DEF WritingInv, SaveTypes
  <2> QED BY <1>1, <2>1 DEF SavingOf, Saving
<1>7. \A q \in Receives : Archived(wsFiles[q], wsAt[q], wsZip[q])'
  BY <1>1 DEF WritingInv, SaveTypes, Archived
<1> QED BY <1>2, <1>4, <1>5, <1>6, <1>7 DEF WritingInv

\* A write leaves alone what the user had, and what is of a receive that met no other.
LEMMA WriteSpares ==
  ASSUME WritingInv, NEW r \in Receives, WS!Write(r, TRUE)
  PROVE  /\ DOMAIN wsFolder' = DOMAIN wsFolder \cup {wsTarget[r]}
         /\ wsFolder'[wsTarget[r]] = <<r, wsNext[r]>>
         /\ \A n \in DOMAIN wsFolder :
              wsFolder'[n] = wsFolder[n] \/ (wsFolder[n] # WS!Mine /\ wsFolder[n][1] \in wsMet)
         /\ \A n \in DOMAIN wsFolder : n # wsTarget[r] => wsFolder'[n] = wsFolder[n]
<1>1. wsAt[r] = "write" /\ wsFolder' = WS!Written(wsTarget[r], <<r, wsNext[r]>>)
  BY DEF WS!Write
<1>2. MayLose(wsFolder, wsMet, r, wsTarget[r])
  BY <1>1 DEF WritingInv, SavingOf, Saving
<1> QED BY <1>1, <1>2 DEF WS!Written, MayLose

LEMMA SaveWrites ==
  ASSUME WritingInv, NEW r \in Receives, WS!Write(r, TRUE)
  PROVE  WritingInv'
<1>1. /\ wsAt[r] = "write" /\ wsConflicts' = [wsConflicts EXCEPT ![r] = WS!Reported(r)]
      /\ wsTarget' = [wsTarget EXCEPT ![r] = WS!Nothing]
      /\ wsNext' = [wsNext EXCEPT ![r] = wsNext[r] + 1]
      /\ wsAt' = [wsAt EXCEPT ![r] = IF wsNext[r] = Len(wsFiles[r]) THEN "saved" ELSE "resolve"]
      /\ UNCHANGED <<wsMet, wsFiles, wsZip>>
  BY DEF WS!Write
<1>2. SaveTypes'
  BY <1>1 DEF WritingInv, SaveTypes
<1>3. WritersMet'
  BY <1>1 DEF WritingInv, SaveTypes, WritersMet, WS!Writing
<1>4. \A q \in Receives : Archived(wsFiles[q], wsAt[q], wsZip[q])'
  BY <1>1 DEF WritingInv, SaveTypes, Archived
<1>5. ASSUME NEW q \in Receives, q # r
      PROVE  SavingOf(q)'
  <2>1. UNCHANGED <<wsAt[q], wsFiles[q], wsNext[q], wsTarget[q], wsConflicts[q]>>
    BY <1>1, <1>5 DEF WritingInv, SaveTypes
  <2>2. ASSUME wsAt[q] = "write"
        PROVE  MayLose(wsFolder', wsMet', q, wsTarget[q])
    <3>1. q \in wsMet /\ r \in wsMet
      BY <1>1, <1>5, <2>2 DEF WritingInv, WritersMet, WS!Writing
    <3>2. MayLose(wsFolder, wsMet, q, wsTarget[q])
      BY <2>2 DEF WritingInv, SavingOf, Saving
    <3>3. CASE wsTarget[q] = wsTarget[r]
      <4>1. wsFolder'[wsTarget[q]] = <<r, wsNext[r]>> /\ r # 0
        BY <3>3, WriteSpares, MCPagesAssumption
      <4> QED BY <1>1, <3>1, <4>1 DEF MayLose, WS!Mine
    <3>4. CASE wsTarget[q] # wsTarget[r]
      BY <1>1, <3>1, <3>2, <3>4, WriteSpares DEF MayLose
    <3> QED BY <3>3, <3>4
  <2>3. SavingOf(q) /\ wsMet' = wsMet
    BY <1>1 DEF WritingInv
  <2>4. /\ DOMAIN wsFolder \subseteq DOMAIN wsFolder'
        /\ \A n \in DOMAIN wsFolder :
             wsFolder'[n] = wsFolder[n] \/ (wsFolder[n] # WS!Mine /\ wsFolder[n][1] \in wsMet)
    BY WriteSpares
  <2>5. Saving(wsFolder', wsMet', q, wsFiles[q], wsAt[q], wsNext[q], wsTarget[q], wsConflicts[q])
    BY <2>2, <2>3, <2>4, StandingKept DEF SavingOf
  <2> QED BY <2>1, <2>5 DEF SavingOf
<1>6. SavingOf(r)'
  <2> DEFINE n == wsNext[r]
             list == wsFiles[r]
             changed == WS!Reported(r)
  <2>1. /\ n \in 1..Len(list) /\ list \in Seq(WS!File) /\ Len(list) \in Nat /\ list # <<>>
        /\ wsNext'[r] = n + 1 /\ wsFiles'[r] = list /\ wsConflicts'[r] = changed
        /\ wsAt'[r] = IF n = Len(list) THEN "saved" ELSE "resolve"
    BY <1>1 DEF WritingInv, SaveTypes, SavingOf, Saving
  <2>2. changed = IF wsTarget[r] = list[n].name THEN wsConflicts[r]
                  ELSE wsConflicts[r] \cup {<<list[n].name, wsTarget[r]>>}
    BY DEF WS!Reported
  <2>3. ASSUME r \notin wsMet, NEW i \in 1..n
        PROVE  SavedIn(wsFolder', r, list, changed, i)
    <3>1. wsTarget[r] \notin DOMAIN wsFolder
      BY <1>1, <2>3 DEF WritingInv, SavingOf, Saving, MayLose
    <3>2. CASE i = n
      <4>1. wsTarget[r] \in DOMAIN wsFolder' /\ wsFolder'[wsTarget[r]] = <<r, n>>
        BY WriteSpares
      <4>2. wsTarget[r] = list[n].name \/ <<list[n].name, wsTarget[r]>> \in changed
        BY <2>2
      <4> HIDE DEF n, list, changed
      <4> QED BY <3>2, <4>1, <4>2 DEF SavedIn
    <3>3. CASE i # n
      <4>1. i \in 1..(n - 1)
        BY <2>1, <3>3
      <4>2. SavedIn(wsFolder, r, list, wsConflicts[r], i)
        BY <1>1, <2>3, <4>1 DEF WritingInv, SavingOf, Saving
      <4>3. PICK m \in DOMAIN wsFolder :
              /\ wsFolder[m] = <<r, i>>
              /\ m = list[i].name \/ <<list[i].name, m>> \in wsConflicts[r]
        BY <4>2 DEF SavedIn
      <4>4. m \in DOMAIN wsFolder' /\ wsFolder'[m] = <<r, i>>
        BY <3>1, <4>3, WriteSpares
      <4>5. m = list[i].name \/ <<list[i].name, m>> \in changed
        BY <2>2, <4>3
      <4> HIDE DEF n, list, changed
      <4> QED BY <4>4, <4>5 DEF SavedIn
    <3> QED BY <3>2, <3>3
  <2> HIDE DEF n, list, changed
  <2>4. (n + 1) - 1 = n
    BY <2>1
  <2> QED BY <1>1, <2>1, <2>3, <2>4 DEF SavingOf, Saving
<1> QED BY <1>2, <1>3, <1>4, <1>5, <1>6 DEF WritingInv

LEMMA SaveNext ==
  ASSUME WritingInv, WS!Next \/ UNCHANGED wsVars
  PROVE  WritingInv'
<1>1. CASE UNCHANGED wsVars \/ WS!PickDownloadDirectory
  <2>1. UNCHANGED <<wsFolder, wsMet, wsFiles, wsAt, wsNext, wsTarget, wsConflicts, wsZip>>
    BY <1>1 DEF wsVars, WS!PickDownloadDirectory
  <2> QED BY <2>1 DEF WritingInv, SaveTypes, WritersMet, WS!Writing, SavingOf
<1>2. CASE WS!Next
  <2>1. CASE WS!PickDownloadDirectory
    BY <1>1, <2>1
  <2>2. CASE ~WS!PickDownloadDirectory
    <3>1. PICK r \in Receives :
            \/ WS!ReceiveFile(r) \/ WS!Refused(r) \/ WS!Announce(r) \/ WS!Resolve(r) \/ WS!Download(r)
            \/ \E n \in 1..MaxFiles : \E fs \in WS!Collections(n) : WS!WriteReceivedCollection(r, fs)
            \/ \E granted \in BOOLEAN : WS!Permission(r, granted)
            \/ \E ok \in BOOLEAN : WS!Write(r, ok)
      BY <1>2, <2>2, Zenon DEF WS!Next
    <3>2. CASE WS!Permission(r, TRUE)
      BY <3>2, SavePermitted
    <3>3. CASE WS!Write(r, TRUE)
      BY <3>3, SaveWrites
    <3> QED BY <3>1, <3>2, <3>3, SaveMoves
  <2> QED BY <2>1, <2>2
<1> QED BY <1>1, <1>2

LEMMA CollectionSaved ==
  ASSUME WritingInv
  PROVE  WS!CollectionIsSaved
<1> SUFFICES ASSUME NEW r \in Receives \ wsMet, wsAt[r] = "saved", NEW i \in DOMAIN wsFiles[r]
             PROVE  SavedIn(wsFolder, r, wsFiles[r], wsConflicts[r], i)
  BY DEF WS!CollectionIsSaved, SavedIn
<1>1. wsNext[r] = Len(wsFiles[r]) + 1 /\ wsFiles[r] \in Seq(WS!File)
  BY DEF WritingInv, SaveTypes, SavingOf, Saving
<1>2. i \in 1..(wsNext[r] - 1)
  BY <1>1
<1> QED BY <1>2 DEF WritingInv, SavingOf, Saving

\* Only a receive that met another is written over.
LEMMA NotOverwritten ==
  ASSUME WritingInv, WS!Next \/ UNCHANGED wsVars
  PROVE  \A n \in DOMAIN wsFolder :
           wsFolder'[n] = wsFolder[n] \/ (wsFolder[n] # WS!Mine /\ wsFolder[n][1] \in wsMet)
<1>1. wsFolder' = wsFolder \/ \E r \in Receives : WS!Write(r, TRUE)
  BY DEF WS!Next, WS!PickDownloadDirectory, WS!ReceiveFile, WS!Refused, WS!Announce,
         WS!WriteReceivedCollection, WS!Permission, WS!Resolve, WS!Write, WS!Download, wsVars
<1> QED BY <1>1, WriteSpares

LEMMA ZipIsReadable ==
  ASSUME WritingInv
  PROVE  WS!ZipReadsBack
<1> SUFFICES ASSUME NEW r \in Receives, wsZip[r] # <<>>, WS!Total(wsZip[r]) < Field32
             PROVE  WS!Readable(wsZip[r], wsFiles[r])
  BY DEF WS!ZipReadsBack
<1>1. /\ wsZip[r] = WS!CreateStoreOnlyZip(wsFiles[r]) /\ wsFiles[r] # <<>>
      /\ wsFiles[r] \in Seq(WS!File)
  BY DEF WritingInv, SaveTypes, Archived
<1>2. Archive(wsZip[r], wsFiles[r])
  BY <1>1, ArchiveShape
<1> QED BY <1>1, <1>2, ArchiveReadsBack

------------------------------------------------------------------------------
(* The first ones of an order                                               *)

\* R orders the set S.
Orders(R, S) ==
  /\ \A i \in S : ~(<<i, i>> \in R)
  /\ \A i, j, k \in S : <<i, j>> \in R /\ <<j, k>> \in R => <<i, k>> \in R
  /\ \A i, j \in S : i = j \/ <<i, j>> \in R \/ <<j, i>> \in R

\* Those before i.
Below(R, S, i) == {j \in S : <<j, i>> \in R}

\* The n first.
FirstOf(R, S, n) == {i \in S : Cardinality(Below(R, S, i)) < n}

LEMMA BelowGrows ==
  ASSUME NEW S, IsFiniteSet(S), NEW R, Orders(R, S), NEW i \in S, NEW j \in S, <<i, j>> \in R
  PROVE  Cardinality(Below(R, S, i)) < Cardinality(Below(R, S, j))
<1>1. /\ IsFiniteSet(Below(R, S, i)) /\ Cardinality(Below(R, S, i)) \in Nat
      /\ IsFiniteSet(Below(R, S, j)) /\ Cardinality(Below(R, S, j)) \in Nat
  <2>1. Below(R, S, i) \in SUBSET S /\ Below(R, S, j) \in SUBSET S
    BY DEF Below
  <2> QED BY <2>1, FS_Subset, FS_CardinalityType
<1>2. Below(R, S, i) \in SUBSET Below(R, S, j)
  BY DEF Below, Orders
<1>3. i \in Below(R, S, j) /\ i \notin Below(R, S, i)
  BY DEF Below, Orders
<1>4. Cardinality(Below(R, S, i)) <= Cardinality(Below(R, S, j))
      /\ Cardinality(Below(R, S, j)) # Cardinality(Below(R, S, i))
  BY <1>1, <1>2, <1>3, FS_Subset
<1> QED BY <1>1, <1>4

LEMMA FirstComeFirst ==
  ASSUME NEW S, IsFiniteSet(S), NEW R, Orders(R, S), NEW n \in Nat,
         NEW i \in FirstOf(R, S, n), NEW j \in S \ FirstOf(R, S, n)
  PROVE  <<i, j>> \in R
<1>1. i \in S /\ i # j
  BY DEF FirstOf
<1>2. Cardinality(Below(R, S, i)) < n /\ ~(Cardinality(Below(R, S, j)) < n)
  BY DEF FirstOf
<1>3. Cardinality(Below(R, S, i)) \in Nat /\ Cardinality(Below(R, S, j)) \in Nat
  <2>1. Below(R, S, i) \in SUBSET S /\ Below(R, S, j) \in SUBSET S
    BY DEF Below
  <2> QED BY <2>1, FS_Subset, FS_CardinalityType
<1>4. ~(<<j, i>> \in R)
  <2> SUFFICES ASSUME <<j, i>> \in R PROVE FALSE
    OBVIOUS
  <2>1. Cardinality(Below(R, S, j)) < Cardinality(Below(R, S, i))
    BY <1>1, BelowGrows
  <2> QED BY <1>2, <1>3, <2>1
<1> QED BY <1>1, <1>4 DEF Orders

\* They are n at most, and n if there are others.
LEMMA FirstAreMany ==
  ASSUME NEW S, IsFiniteSet(S), NEW R, Orders(R, S), NEW n \in Nat
  PROVE  /\ Cardinality(FirstOf(R, S, n)) <= n
         /\ S \ FirstOf(R, S, n) # {} => Cardinality(FirstOf(R, S, n)) = n
<1> DEFINE F == FirstOf(R, S, n)
           rank(i) == Cardinality(Below(R, S, i))
<1>1. \A i \in S : Below(R, S, i) \in SUBSET S /\ IsFiniteSet(Below(R, S, i)) /\ rank(i) \in Nat
  <2>1. \A i \in S : Below(R, S, i) \in SUBSET S
    BY DEF Below
  <2> QED BY <2>1, FS_Subset, FS_CardinalityType
<1>2. F \in SUBSET S /\ IsFiniteSet(F) /\ Cardinality(F) \in Nat
  <2>1. F \in SUBSET S
    BY DEF FirstOf
  <2> QED BY <2>1, FS_Subset, FS_CardinalityType
<1>3. \A i \in S : i \in F <=> rank(i) < n
  BY DEF FirstOf
<1>4. \A i, j \in S : <<i, j>> \in R => rank(i) < rank(j)
  BY BelowGrows
<1> HIDE DEF F, rank
<1>5. Cardinality(F) <= n
  <2>1. CASE F = {}
    BY <2>1, FS_EmptySet
  <2>2. CASE F # {}
    <3> DEFINE T == {rank(i) + 1 : i \in F}
    <3>1. T \in SUBSET (1..n) /\ T # {}
      <4>1. \A i \in F : rank(i) + 1 \in 1..n
        BY <1>1, <1>2, <1>3
      <4> QED BY <2>2, <4>1
    <3>2. Greatest(T) \in T /\ \A y \in T : Greatest(T) >= y
      <4> HIDE DEF T
      <4> QED BY <3>1, GreatestExists
    <3>3. PICK m \in F : Greatest(T) = rank(m) + 1
      BY <3>2
    <3>4. \A i \in F : rank(i) + 1 \in T
      OBVIOUS
    <3>5. \A i \in F : rank(m) >= rank(i)
      <4> TAKE i \in F
      <4>1. rank(m) + 1 >= rank(i) + 1
        <5> HIDE DEF T
        <5> QED BY <3>2, <3>3, <3>4
      <4> QED BY <1>1, <1>2, <4>1
    <3> HIDE DEF T
    <3>6. F \in SUBSET (Below(R, S, m) \cup {m})
      <4> SUFFICES ASSUME NEW i \in F, i # m PROVE i \in Below(R, S, m)
        OBVIOUS
      <4>1. i \in S /\ m \in S
        BY <1>2
      <4>2. ~(<<m, i>> \in R)
        <5>1. rank(m) >= rank(i) /\ rank(m) \in Nat /\ rank(i) \in Nat
          BY <1>1, <3>5, <4>1
        <5> QED BY <1>4, <4>1, <5>1
      <4> QED BY <4>1, <4>2 DEF Orders, Below
    <3>7. IsFiniteSet(Below(R, S, m)) /\ rank(m) \in Nat /\ rank(m) < n
      BY <1>1, <1>2, <1>3
    <3>8. /\ IsFiniteSet(Below(R, S, m) \cup {m})
          /\ Cardinality(Below(R, S, m) \cup {m}) <= rank(m) + 1
          /\ Cardinality(Below(R, S, m) \cup {m}) \in Nat
      <4>1. /\ IsFiniteSet(Below(R, S, m) \cup {m})
            /\ Cardinality(Below(R, S, m) \cup {m}) =
                 IF m \in Below(R, S, m) THEN rank(m) ELSE rank(m) + 1
        BY <3>7, FS_AddElement DEF rank
      <4> QED BY <3>7, <4>1, FS_CardinalityType
    <3>9. Cardinality(F) <= Cardinality(Below(R, S, m) \cup {m})
      BY <3>6, <3>8, FS_Subset
    <3> QED BY <1>2, <3>7, <3>8, <3>9
  <2> QED BY <2>1, <2>2
<1>6. ASSUME S \ F # {}
      PROVE  Cardinality(F) >= n
  <2> DEFINE T == {rank(i) : i \in S \ F}
  <2>1. T \in SUBSET Nat /\ T # {}
    BY <1>1, <1>6
  <2>2. PICK t \in T : \A k \in T : t <= k
    <3> HIDE DEF T
    <3> QED BY <2>1, LeastExists
  <2>3. PICK j \in S \ F : t = rank(j)
    OBVIOUS
  <2>4. \A i \in S \ F : rank(j) <= rank(i)
    BY <2>2, <2>3
  <2> HIDE DEF T
  <2>5. Below(R, S, j) \in SUBSET F
    <3> SUFFICES ASSUME NEW i \in Below(R, S, j), i \notin F PROVE FALSE
      OBVIOUS
    <3>1. i \in S \ F /\ <<i, j>> \in R
      BY DEF Below
    <3>2. rank(i) < rank(j) /\ rank(j) <= rank(i) /\ rank(i) \in Nat /\ rank(j) \in Nat
      BY <1>1, <1>4, <2>4, <3>1
    <3> QED BY <3>2
  <2>6. rank(j) <= Cardinality(F)
    BY <1>2, <2>5, FS_Subset DEF rank
  <2>7. rank(j) >= n /\ rank(j) \in Nat
    BY <1>1, <1>3
  <2> QED BY <1>2, <2>6, <2>7
<1> QED BY <1>2, <1>5, <1>6 DEF F

------------------------------------------------------------------------------
(* The notes of a release (ReleaseNotes)                                    *)

LEMMA SameNotesCardinality == \A S : RN!Cardinality(S) = Cardinality(S)
  BY Zenon DEF RN!Cardinality, Cardinality

LogInv == rnLog \in Seq(Commits)

LEMMA NotesInit == RN!Init => LogInv
  BY DEF RN!Init, LogInv

LEMMA NotesNext ==
  ASSUME LogInv, RN!Next \/ UNCHANGED rnVars
  PROVE  LogInv'
  BY DEF LogInv, RN!Next, RN!Commit, rnVars

LEMMA LogIsFinite ==
  ASSUME LogInv, NEW cs \in SUBSET DOMAIN rnLog
  PROVE  cs \in SUBSET Nat /\ IsFiniteSet(cs) /\ Cardinality(cs) \in Nat
<1>1. DOMAIN rnLog = 1..Len(rnLog) /\ Len(rnLog) \in Nat
  BY DEF LogInv
<1>2. IsFiniteSet(DOMAIN rnLog)
  BY <1>1, FS_Interval
<1> QED BY <1>1, <1>2, FS_Subset, FS_CardinalityType

LEMMA LeastIsMin ==
  ASSUME NEW S \in SUBSET Nat, S # {}
  PROVE  RN!Min(S) \in S /\ \A k \in S : RN!Min(S) <= k
  BY LeastExists DEF RN!Min

SubjectsOf(cs) == {rnLog[j].subject : j \in cs}

\* Every subject has one first commit.
LEMMA SubjectsAreUnique ==
  ASSUME LogInv, NEW cs \in SUBSET DOMAIN rnLog
  PROVE  Cardinality(RN!UniqueSubjects(cs)) = Cardinality(SubjectsOf(cs))
<1> DEFINE U == RN!UniqueSubjects(cs)
           f == [i \in U |-> rnLog[i].subject]
<1>1. cs \in SUBSET Nat /\ U \in SUBSET cs
  BY LogIsFinite DEF RN!UniqueSubjects
<1>2. IsFiniteSet(U)
  BY <1>1, LogIsFinite
<1>3. f \in [U -> SubjectsOf(cs)]
  BY <1>1 DEF SubjectsOf
<1>4. \A i, j \in U : f[i] = f[j] => i = j
  <2> SUFFICES ASSUME NEW i \in U, NEW j \in U, rnLog[i].subject = rnLog[j].subject
               PROVE  i = j
    OBVIOUS
  <2>1. i <= j /\ j <= i
    BY DEF RN!UniqueSubjects
  <2>2. i \in Nat /\ j \in Nat
    BY <1>1
  <2> QED BY <2>1, <2>2
<1>5. \A x \in SubjectsOf(cs) : \E i \in U : f[i] = x
  <2> TAKE x \in SubjectsOf(cs)
  <2> DEFINE T == {j \in cs : rnLog[j].subject = x}
  <2>1. T \in SUBSET Nat /\ T # {}
    BY <1>1 DEF SubjectsOf
  <2>2. PICK i \in T : \A k \in T : i <= k
    <3> HIDE DEF T
    <3> QED BY <2>1, LeastExists
  <2>3. i \in U
    BY <2>2 DEF RN!UniqueSubjects
  <2> QED BY <2>2, <2>3
<1> HIDE DEF U, f
<1>6. f \in Bijection(U, SubjectsOf(cs))
  BY <1>3, <1>4, <1>5 DEF Bijection, Injection, IsInjective, Surjection
<1> QED BY <1>2, <1>6, FS_Bijection DEF ExistsBijection, U

\* A line names subjects of its commits, and counts the others.
LEMMA LineCounts ==
  ASSUME LogInv, NEW cs \in SUBSET DOMAIN rnLog
  PROVE  LET line == RN!SummarizeScopeCommits(cs) IN
           /\ line.named \subseteq SubjectsOf(cs)
           /\ Cardinality(line.named) + line.more = Cardinality(SubjectsOf(cs))
<1> DEFINE line == RN!SummarizeScopeCommits(cs)
           U == RN!UniqueSubjects(cs)
<1>1. PICK F \in SUBSET U : line.named = {rnLog[i].subject : i \in F}
  <2>1. line.named = RN!PickRepresentativeSubjects(cs)
    BY DEF RN!SummarizeScopeCommits
  <2> HIDE DEF line
  <2>2. \E F \in SUBSET U : RN!PickRepresentativeSubjects(cs) = {rnLog[i].subject : i \in F}
    BY Zenon DEF RN!PickRepresentativeSubjects, RN!First
  <2> QED BY <2>1, <2>2
<1>2. line.more = Cardinality(U) - Cardinality(line.named)
  BY SameNotesCardinality DEF RN!SummarizeScopeCommits
<1> HIDE DEF line
<1>3. U \in SUBSET cs
  BY DEF RN!UniqueSubjects
<1>4. IsFiniteSet(F) /\ Cardinality(U) \in Nat
  <2>1. F \in SUBSET DOMAIN rnLog /\ U \in SUBSET DOMAIN rnLog
    BY <1>3
  <2> QED BY <2>1, LogIsFinite
<1>5. Cardinality(line.named) \in Nat
  <2> DEFINE f == [i \in F |-> rnLog[i].subject]
  <2>1. f \in Surjection(F, line.named)
    BY <1>1 DEF Surjection
  <2> HIDE DEF f
  <2> QED BY <1>4, <2>1, FS_Surjection, FS_CardinalityType
<1>6. line.named \subseteq SubjectsOf(cs)
  BY <1>1, <1>3 DEF SubjectsOf
<1>7. Cardinality(line.named) + line.more = Cardinality(U)
  BY <1>2, <1>4, <1>5
<1> QED BY <1>6, <1>7, SubjectsAreUnique DEF line

LEMMA FixesCounted ==
  ASSUME LogInv
  PROVE  RN!FixesAreAccountedFor
<1> DEFINE cs == RN!OfTypes(RN!FixTypes)
           lines == RN!RenderSection(cs)
<1>1. cs = {k \in DOMAIN rnLog : rnLog[k].type \in RN!FixTypes}
  BY DEF RN!OfTypes, RN!LoadCommits, RN!FixTypes, RN!SkipTypes
<1>2. ASSUME NEW i \in DOMAIN rnLog, rnLog[i].type \in RN!FixTypes
      PROVE  LET subjects == {rnLog[j].subject :
                   j \in {k \in DOMAIN rnLog : rnLog[k].type \in RN!FixTypes /\ RN!Scope(k) = RN!Scope(i)}}
             IN  /\ RN!Scope(i) \in DOMAIN lines
                 /\ lines[RN!Scope(i)].named \subseteq subjects
                 /\ RN!Cardinality(lines[RN!Scope(i)].named) + lines[RN!Scope(i)].more
                      = RN!Cardinality(subjects)
  <2> DEFINE s == RN!Scope(i)
             g == {k \in cs : RN!Scope(k) = s}
             subjects == {rnLog[j].subject :
                   j \in {k \in DOMAIN rnLog : rnLog[k].type \in RN!FixTypes /\ RN!Scope(k) = s}}
  <2>1. i \in cs
    BY <1>1, <1>2
  <2>2. s \in DOMAIN lines /\ lines[s] = RN!SummarizeScopeCommits(g)
    <3> HIDE DEF cs
    <3> QED BY <2>1 DEF RN!RenderSection, RN!GroupByScope
  <2>3. g \in SUBSET DOMAIN rnLog /\ subjects = SubjectsOf(g)
    <3>1. g = {k \in DOMAIN rnLog : rnLog[k].type \in RN!FixTypes /\ RN!Scope(k) = s}
      BY <1>1
    <3> HIDE DEF g, s
    <3> QED BY <3>1 DEF SubjectsOf
  <2> HIDE DEF s, g, lines, subjects
  <2>4. /\ lines[s].named \subseteq SubjectsOf(g)
        /\ Cardinality(lines[s].named) + lines[s].more = Cardinality(SubjectsOf(g))
    BY <2>2, <2>3, LineCounts
  <2>5. /\ lines[s].named \subseteq subjects
        /\ RN!Cardinality(lines[s].named) + lines[s].more = RN!Cardinality(subjects)
    BY <2>3, <2>4, SameNotesCardinality
  <2> QED BY <2>2, <2>5, Zenon DEF s, subjects
<1> HIDE DEF cs
<1> QED BY <1>2, Zenon DEF RN!FixesAreAccountedFor, cs

\* Who has committed before is not announced.
LEMMA NewcomersNew ==
  ASSUME LogInv
  PROVE  RN!NewcomersAreNew
<1> SUFFICES ASSUME NEW l \in RN!DerivedNew, NEW a \in rnPrior, a.login = l
             PROVE  FALSE
  BY DEF RN!NewcomersAreNew
<1> DEFINE T == {i \in DOMAIN rnLog : rnLog[i].author.login = l}
<1>1. /\ l \in {rnLog[i].author.login : i \in DOMAIN rnLog} \ {None, Owner}
      /\ ~RN!AuthorHasPriorContributions(rnLog[RN!Min(T)].author)
  <2>1. PICK c \in RN!CollectContributors : c.isNew /\ c.login = l
    BY DEF RN!DerivedNew
  <2> DEFINE L == {rnLog[i].author.login : i \in DOMAIN rnLog} \ {None, Owner}
             by == [k \in L |-> {i \in DOMAIN rnLog : rnLog[i].author.login = k}]
  <2>2. PICK k \in DOMAIN by :
          c = [login |-> k, isNew |-> ~RN!AuthorHasPriorContributions(rnLog[RN!Min(by[k])].author)]
    BY Zenon DEF RN!CollectContributors
  <2>3. k \in L /\ by[k] = {i \in DOMAIN rnLog : rnLog[i].author.login = k}
    OBVIOUS
  <2> HIDE DEF L, by
  <2>4. c.login = k /\ c.isNew = ~RN!AuthorHasPriorContributions(rnLog[RN!Min(by[k])].author)
    BY <2>2
  <2> QED BY <2>1, <2>3, <2>4 DEF L
<1>2. T \in SUBSET Nat /\ T # {}
  <2>1. T \in SUBSET DOMAIN rnLog /\ T # {}
    BY <1>1
  <2> QED BY <2>1, LogIsFinite
<1>3. RN!Min(T) \in T
  <2> HIDE DEF T
  <2> QED BY <1>2, LeastIsMin
<1>4. rnLog[RN!Min(T)].author.login = l /\ l # None
  BY <1>1, <1>3
<1> HIDE DEF T
<1> QED BY <1>1, <1>4 DEF RN!AuthorHasPriorContributions

\* The commits of a scope, and the order of the highlights.
InScope(cs, s) == {i \in cs : RN!Scope(i) = s}

Heavier(cs, S) ==
  {p \in S \X S :
     LET m == Cardinality(InScope(cs, p[1]))
         n == Cardinality(InScope(cs, p[2]))
     IN  m > n \/ (m = n /\ RN!Min(InScope(cs, p[1])) < RN!Min(InScope(cs, p[2])))}

LEMMA HeavierOrders ==
  ASSUME LogInv, NEW cs \in SUBSET DOMAIN rnLog, NEW S \in SUBSET {RN!Scope(i) : i \in cs}
  PROVE  Orders(Heavier(cs, S), S)
<1> DEFINE w(s) == Cardinality(InScope(cs, s))
           f(s) == RN!Min(InScope(cs, s))
<1>1. \A s \in S : w(s) \in Nat /\ f(s) \in Nat /\ RN!Scope(f(s)) = s
  <2> TAKE s \in S
  <2>1. InScope(cs, s) \in SUBSET DOMAIN rnLog /\ InScope(cs, s) # {}
    BY DEF InScope
  <2>2. InScope(cs, s) \in SUBSET Nat /\ w(s) \in Nat
    BY <2>1, LogIsFinite
  <2>3. f(s) \in InScope(cs, s)
    BY <2>1, <2>2, LeastIsMin
  <2>4. f(s) \in Nat
    BY <2>2, <2>3
  <2> QED BY <2>2, <2>3, <2>4 DEF InScope
<1>2. \A s, t \in S : <<s, t>> \in Heavier(cs, S) <=> (w(s) > w(t) \/ (w(s) = w(t) /\ f(s) < f(t)))
  BY DEF Heavier
<1>3. \A s, t \in S : f(s) = f(t) => s = t
  BY <1>1
<1> HIDE DEF w, f
<1>4. \A s \in S : ~(<<s, s>> \in Heavier(cs, S))
  BY <1>1, <1>2
<1>5. \A s, t \in S : s = t \/ <<s, t>> \in Heavier(cs, S) \/ <<t, s>> \in Heavier(cs, S)
  <2> TAKE s, t \in S
  <2>1. w(s) \in Nat /\ w(t) \in Nat /\ f(s) \in Nat /\ f(t) \in Nat
    BY <1>1
  <2>2. f(s) = f(t) => s = t
    BY <1>3
  <2> QED BY <1>2, <2>1, <2>2
<1>6. ASSUME NEW s \in S, NEW t \in S, NEW u \in S,
             <<s, t>> \in Heavier(cs, S), <<t, u>> \in Heavier(cs, S)
      PROVE  <<s, u>> \in Heavier(cs, S)
  <2>1. /\ w(s) \in Nat /\ w(t) \in Nat /\ w(u) \in Nat
        /\ f(s) \in Nat /\ f(t) \in Nat /\ f(u) \in Nat
    BY <1>1
  <2>2. /\ w(s) > w(t) \/ (w(s) = w(t) /\ f(s) < f(t))
        /\ w(t) > w(u) \/ (w(t) = w(u) /\ f(t) < f(u))
    BY <1>2, <1>6
  <2>3. w(s) > w(u) \/ (w(s) = w(u) /\ f(s) < f(u))
    BY <2>1, <2>2
  <2> QED BY <1>2, <2>3
<1> QED BY <1>4, <1>5, <1>6 DEF Orders

\* The highlights are the first in that order.
LEMMA HighlightsAreFirst ==
  ASSUME NEW cs
  PROVE  LET all == {RN!Scope(i) : i \in cs}
             S == {s \in all : ~(s = "identity" /\ "device" \in all)}
         IN  RN!PickHighlights(cs) = FirstOf(Heavier(cs, S), S, Limit)
<1> DEFINE all == {RN!Scope(i) : i \in cs}
           S == {s \in all : ~(s = "identity" /\ "device" \in all)}
           groups == RN!GroupByScope(cs)
           Heavy(s, t) ==
             LET m == RN!Cardinality(groups[s])
                 n == RN!Cardinality(groups[t])
             IN  m > n \/ (m = n /\ RN!Min(groups[s]) < RN!Min(groups[t]))
<1>1. DOMAIN groups = all /\ \A s \in all : groups[s] = InScope(cs, s)
  BY DEF RN!GroupByScope, InScope
<1>2. RN!PickHighlights(cs) = {s \in S : RN!Cardinality({t \in S : Heavy(t, s)}) < Limit}
  <2>1. S = {s \in DOMAIN groups : ~(s = "identity" /\ "device" \in DOMAIN groups)}
    BY <1>1
  <2> HIDE DEF S, groups
  <2> QED BY <2>1, Zenon DEF RN!PickHighlights, RN!First, groups
<1>3. \A s, t \in S : Heavy(t, s) <=> <<t, s>> \in Heavier(cs, S)
  <2> TAKE s, t \in S
  <2>1. groups[s] = InScope(cs, s) /\ groups[t] = InScope(cs, t)
    BY <1>1
  <2> HIDE DEF groups, S
  <2> QED BY <2>1, SameNotesCardinality DEF Heavier
<1> HIDE DEF Heavy, S
<1>4. \A s \in S : {t \in S : Heavy(t, s)} = Below(Heavier(cs, S), S, s)
  BY <1>3 DEF Below
<1>5. RN!PickHighlights(cs) = FirstOf(Heavier(cs, S), S, Limit)
  BY <1>2, <1>4, SameNotesCardinality DEF FirstOf
<1> QED BY <1>5 DEF S

LEMMA HighlightsHeaviest ==
  ASSUME LogInv
  PROVE  RN!HighlightsAreHeaviest
<1> DEFINE cs == RN!OfTypes(RN!FeatureTypes)
           all == {RN!Scope(i) : i \in cs}
           S == {s \in all : ~(s = "identity" /\ "device" \in all)}
           R == Heavier(cs, S)
           chosen == RN!PickHighlights(cs)
           others == (all \ chosen) \ {"identity"}
           Weight(s) == RN!Cardinality({i \in cs : RN!Scope(i) = s})
<1>1. cs \in SUBSET DOMAIN rnLog
  BY DEF RN!OfTypes, RN!LoadCommits
<1> HIDE DEF cs
<1>2. chosen = FirstOf(R, S, Limit)
  BY HighlightsAreFirst
<1>3. S \in SUBSET all /\ others \in SUBSET (S \ chosen)
  OBVIOUS
<1>4. Orders(R, S)
  BY <1>1, <1>3, HeavierOrders
<1>5. IsFiniteSet(S) /\ Limit \in Nat
  <2> DEFINE f == [i \in cs |-> RN!Scope(i)]
  <2>1. f \in Surjection(cs, all)
    BY DEF Surjection
  <2>2. IsFiniteSet(cs)
    BY <1>1, LogIsFinite
  <2>3. IsFiniteSet(all)
    <3> HIDE DEF f, all
    <3> QED BY <2>1, <2>2, FS_Surjection
  <2> QED BY <1>3, <2>3, FS_Subset, MCPagesAssumption
<1> HIDE DEF S, R, chosen, all
<1>6. /\ Cardinality(chosen) <= Limit
      /\ S \ chosen # {} => Cardinality(chosen) = Limit
  BY <1>2, <1>4, <1>5, FirstAreMany
<1>7. ASSUME NEW s \in others, NEW t \in chosen
      PROVE  Weight(s) <= Weight(t)
  <2>1. t \in FirstOf(R, S, Limit) /\ s \in S \ FirstOf(R, S, Limit)
    BY <1>2, <1>3
  <2>2. <<t, s>> \in R
    BY <1>4, <1>5, <2>1, FirstComeFirst
  <2>3. Weight(s) = Cardinality(InScope(cs, s)) /\ Weight(t) = Cardinality(InScope(cs, t))
    BY SameNotesCardinality DEF InScope
  <2>4. Cardinality(InScope(cs, t)) \in Nat /\ Cardinality(InScope(cs, s)) \in Nat
    <3>1. InScope(cs, t) \in SUBSET DOMAIN rnLog /\ InScope(cs, s) \in SUBSET DOMAIN rnLog
      BY <1>1 DEF InScope
    <3> QED BY <3>1, LogIsFinite
  <2>5. \/ Cardinality(InScope(cs, t)) > Cardinality(InScope(cs, s))
        \/ Cardinality(InScope(cs, t)) = Cardinality(InScope(cs, s))
    BY <2>2 DEF R, Heavier
  <2> HIDE DEF Weight
  <2> QED BY <2>3, <2>4, <2>5
<1>8. /\ RN!Cardinality(chosen) <= Limit
      /\ \A s \in others : RN!Cardinality(chosen) = Limit /\ \A t \in chosen : Weight(s) <= Weight(t)
  <2>1. RN!Cardinality(chosen) = Cardinality(chosen)
    BY SameNotesCardinality
  <2> HIDE DEF Weight
  <2>2. others # {} => S \ chosen # {}
    BY <1>3
  <2> HIDE DEF others
  <2> QED BY <1>6, <1>7, <2>1, <2>2
<1> QED BY <1>8, Zenon DEF RN!HighlightsAreHeaviest, chosen, all, cs

------------------------------------------------------------------------------
(* The components side by side                                              *)

PagesInv ==
  MenuInv /\ ThemeInv /\ LanguageInv /\ SelectionInv /\ DragInv /\ MeterInv /\ ListInv
  /\ WritingInv /\ LogInv

\* A step moves one component, and the others stay where they are.
LEMMA OneMoves ==
  ASSUME [SumNext]_sumVars
  PROVE  /\ CM!Next \/ UNCHANGED cmVars
         /\ PF!Next \/ UNCHANGED pfVars
         /\ FS!Next \/ UNCHANGED fsVars
         /\ TM!Next \/ UNCHANGED tmVars
         /\ DL!Next \/ UNCHANGED dlVars
         /\ WS!Next \/ UNCHANGED wsVars
         /\ RN!Next \/ UNCHANGED rnVars
  BY DEF SumNext, Only, sumVars

LEMMA PagesInductive == SumSpec => []PagesInv
<1>1. SumInit => PagesInv
  BY MenuInit, PreferencesInit, SelectionInit, DragInit, MeterInit, ListInit, SaveInit,
     NotesInit
     DEF SumInit, PagesInv
<1>2. PagesInv /\ [SumNext]_sumVars => PagesInv'
  BY OneMoves, MenuNext, ThemeNext, LanguageNext, SelectionNext, DragNext, MeterNext,
     ListNext, SaveNext, NotesNext DEF PagesInv
<1> QED BY <1>1, <1>2, PTL DEF SumSpec

\* However often the switch is used and the application restarted, at whatever
\* moment, the Explorer menu is what the setting and the file say once no call is
\* under way, unless the sync at launch failed or two calls overlapped
\* (context-menu-toggle.tsx).
THEOREM MenuFollowsSetting == SumSpec => []MenuMatchesSetting
<1>1. PagesInv => MenuMatchesSetting
  BY DEF PagesInv, MenuInv, MenuAgrees, MenuMatchesSetting, CM!MenuMatchesSetting, CM!Busy
<1> QED BY <1>1, PagesInductive, PTL

\* Whatever the order of theme changes, changes of the system and their events, and
\* whatever two tabs store, what is shown is what was chosen once no effect and no
\* event is due (AppThemeProvider.tsx, TranslationContext.tsx).
THEOREM ChosenIsShown == SumSpec => []PreferencesAreApplied
<1>1. PagesInv => PreferencesAreApplied
  BY DEF PagesInv, ThemeInv, LanguageInv, PreferencesAreApplied, PF!ThemeIsApplied,
         PF!LanguageIsShown
<1> QED BY <1>1, PagesInductive, PTL

\* For any files and folders, chosen, dropped, removed and asked about in any order:
\* none is selected twice, the media types are those of the selection once it has
\* been answered, and in a browser the zone is highlighted while a file is over
\* it (sender-store.ts, Dropzone.tsx, useDragDrop.ts).
THEOREM SelectionIsKept == SumSpec => []SelectionIsSound
<1>1. SelectionInv /\ DragInv => FS!TypeOK
  BY DEF SelectionInv, DragInv, FS!TypeOK, AskType
<1>2. DragInv => FS!HighlightFollowsPointer
  BY DEF DragInv, FS!HighlightFollowsPointer
<1>3. PagesInv => SelectionIsSound
  BY <1>1, <1>2 DEF PagesInv, SelectionInv, SelectionIsSound
<1> QED BY <1>3, PagesInductive, PTL

\* For any sizes, speeds, number of samples and of bars, and however progress of any
\* transfer, ticks of the interval, ends, stops and announcements follow each other:
\* what is shown was reported since the last announcement, an idle page shows nothing,
\* the average is of the last speeds accepted, the time left is never by zero, and the
\* bars add up to the share (useSender.ts, useReceiver.ts, etaUtils.ts,
\* TransferProgressBar.tsx).
THEOREM MeterShowsTransfer == SumSpec => []MeterIsSound
<1>1. PagesInv => MeterIsSound
  BY BarsShowShare DEF PagesInv, MeterInv, MeterIsSound, TM!ProgressIsFresh, Measured
<1> QED BY <1>1, PagesInductive, PTL

\* For any devices, presence events, listings that come late and sends: the comparator
\* is a total order of the devices on the page, the sorted list has every device once,
\* and a presence event leaves the order of the other devices as it was
\* (comparePairedDevicesForList, patchDevicePresence).
THEOREM ListIsKeptInOrder == SumSpec => ListIsSound
<1>1. PagesInv => (part = "list" => DL!OrderIsTotal)
  BY ListIsOrdered DEF PagesInv
<1>2. PagesInv /\ [SumNext]_sumVars =>
        [DL!Presence /\ dlCounts = dlUsed =>
           \A a, b \in Devices \ {Head(dlEvents).id} :
             DL!Before(dlShown, a, b) => DL!Before(dlShown', a, b)]_(DL!vars)
  BY OthersKeepOrder DEF PagesInv
<1> QED BY <1>1, <1>2, PagesInductive, PTL DEF SumSpec, ListIsSound, DL!OthersStay

\* For any names, sizes and number of files, whatever the folder held, whichever
\* write fails and however many receives run at once: no file of the user is written
\* over, and a received one only by a receive that was writing at the same time; a
\* collection that was alone and whose completion is announced is in the folder file
\* by file under the names reported, and an archive that fits its 32-bit fields leads
\* a reader to every file (writeCollectionToDirectory, resolveWritableFileName,
\* createStoreOnlyZip).
THEOREM ReceivedIsKept == SumSpec => ReceivedIsSaved
<1>1. PagesInv => (part = "save" => WS!CollectionIsSaved /\ WS!ZipReadsBack)
  BY CollectionSaved, ZipIsReadable DEF PagesInv
<1>2. PagesInv /\ [SumNext]_sumVars =>
        [\A n \in DOMAIN wsFolder :
           wsFolder'[n] = wsFolder[n] \/ (wsFolder[n] # WS!Mine /\ wsFolder[n][1] \in wsMet)]_(WS!vars)
  BY OneMoves, NotOverwritten DEF PagesInv
<1> QED BY <1>1, <1>2, PagesInductive, PTL DEF SumSpec, ReceivedIsSaved, WS!NothingIsOverwritten

\* For any log, commits, authors and number of highlights: every fix is named or counted
\* in the line of its scope, a scope that is left out of the highlights has no more
\* commits than one that is in them, and nobody who has committed before under the same
\* login is announced as new (generate-release-notes.js).
THEOREM NotesAgreeWithLog == SumSpec => []NotesMatchLog
<1>1. PagesInv => NotesMatchLog
  BY FixesCounted, HighlightsHeaviest, NewcomersNew DEF PagesInv, NotesMatchLog
<1> QED BY <1>1, PagesInductive, PTL

===============================================================================
