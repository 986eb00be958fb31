--------------------------- MODULE ShareView_proofs ---------------------------
(***************************************************************************)
(* The screens of the send tab, for any number of files, shares, transfers *)
(* and events under way.                                                   *)
(***************************************************************************)
EXTENDS ShareView, TLAPS

\* What holds of every store, whichever updates it has been through.
Sound(s) ==
  /\ s \in Stores
  /\ s.view = "IDLE" => s.ticket = 0

IInv == TypeOK /\ Sound(store)

USE BoundsAssumption

------------------------------------------------------------------------------
(* Types that grow with the engine's numbers                                *)

\* The continuations are told apart by their kind.
LEMMA Kinds ==
  ASSUME NEW c \in Continuations
  PROVE  /\ c.k \in {"send", "sent"} => c.share \in 0..engine.shares
         /\ c.k \in {"stop", "stopped"} => /\ c.n \in 0..engine.stops
                                            /\ c.how \in {"background", "active", "plain"}
         /\ c.k = "finish" => /\ c.of \in 1..engine.transfers
                              /\ c.broadcast \in BOOLEAN /\ c.single \in BOOLEAN
         /\ c.k \in {"size", "relisten"} => c.of \in 1..engine.transfers
  BY DEF Continuations

\* While the engine is left alone the types are the same.
LEMMA SameTypes ==
  ASSUME UNCHANGED engine
  PROVE  Stores' = Stores /\ Refs' = Refs /\ Continuations' = Continuations /\ Messages' = Messages
  BY DEF Metas, Stores, Refs, Continuations, Messages

\* With more shares and transfers there are more tickets, summaries and messages.
LEMMA MoreTypes ==
  ASSUME TypeOK, engine' \in Engines,
         engine'.shares >= engine.shares, engine'.transfers >= engine.transfers,
         engine'.stops >= engine.stops
  PROVE  /\ Stores \subseteq Stores' /\ Refs \subseteq Refs'
         /\ Continuations \subseteq Continuations' /\ Messages \subseteq Messages'
<1>1. 0..engine.shares \subseteq 0..engine'.shares /\ 0..engine.transfers \subseteq 0..engine'.transfers
      /\ 1..engine.transfers \subseteq 1..engine'.transfers
      /\ 0..engine.stops \subseteq 0..engine'.stops
  BY DEF TypeOK, Engines
<1>2. Metas \subseteq Metas'
  BY <1>1 DEF Metas
<1>3. Stores \subseteq Stores'
  BY <1>1, <1>2 DEF Stores
<1>4. Refs \subseteq Refs' /\ Continuations \subseteq Continuations' /\ Messages \subseteq Messages'
  BY <1>1 DEF Refs, Continuations, Messages
<1> QED BY <1>3, <1>4

\* What is left to show of a step of the page or the user.
LEMMA PageStep ==
  ASSUME IInv, UNCHANGED engine, Sound(store'), ref' \in Refs,
         pend' \subseteq Continuations, events' \in Seq(Messages)
  PROVE  IInv'
  BY SameTypes DEF IInv, TypeOK, Sound

\* What is left to show of a step of the engine.
LEMMA EngineStep ==
  ASSUME IInv, engine' \in Engines,
         engine'.shares >= engine.shares, engine'.transfers >= engine.transfers,
         engine'.stops >= engine.stops,
         engine'.live <= engine'.shares, engine'.running \subseteq 1..engine'.transfers,
         Sound(store'), ref' \in Refs, pend' \subseteq Continuations',
         events' \in Seq(Messages')
  PROVE  IInv'
  BY MoreTypes DEF IInv, TypeOK, Sound

------------------------------------------------------------------------------
(* The store                                                                *)

LEMMA NoMetaIsMeta == ASSUME TypeOK PROVE NoMeta \in Metas
  BY DEF TypeOK, Engines, NoMeta, Metas

LEMMA IdleIsSound ==
  ASSUME TypeOK, NEW s \in Stores
  PROVE  Sound(ResetToIdle(s))
<1>1. InitialStore \in Stores
  BY NoMetaIsMeta DEF TypeOK, Engines, InitialStore, Stores, Views
<1>2. ResetToIdle(s) \in Stores
  BY <1>1 DEF ResetToIdle, Stores
<1>3. ResetToIdle(s).view = "IDLE" /\ ResetToIdle(s).ticket = 0
  BY DEF ResetToIdle, InitialStore
<1> QED BY <1>2, <1>3 DEF Sound

LEMMA ListeningIsSound ==
  ASSUME TypeOK, NEW s \in Stores
  PROVE  Sound(ResetForBroadcast(s))
  BY NoMetaIsMeta DEF TypeOK, Engines, Sound, Stores, ResetForBroadcast, Views

\* The first screen.
LEMMA InitInv == Init => IInv
  BY DEF Init, IInv, TypeOK, Sound, InitialStore, NoMeta, Views, Metas, Stores, Refs,
         Continuations, Engines, Messages

------------------------------------------------------------------------------
(* The user                                                                 *)

LEMMA SelectFilesInv == ASSUME IInv, SelectFiles PROVE IInv'
<1>1. Sound(store')
  BY DEF IInv, SelectFiles, Sound, Stores
<1> QED BY <1>1, PageStep DEF IInv, TypeOK, SelectFiles

LEMMA DeselectInv == ASSUME IInv, NEW n \in 0..MaxItems, Deselect(n) PROVE IInv'
<1>1. Sound(store')
  BY DEF IInv, Deselect, Sound, Stores
<1> QED BY <1>1, PageStep DEF IInv, TypeOK, Deselect

\* Everything about an earlier share is dropped, and a new one is asked for.
LEMMA StartSharingInv == ASSUME IInv, StartSharing PROVE IInv'
<1>1. /\ engine' \in Engines /\ engine'.shares = engine.shares + 1
      /\ engine'.transfers = engine.transfers /\ engine'.live = engine.live
      /\ engine'.running = engine.running
      /\ engine.shares \in Nat /\ engine.transfers \in Nat /\ engine.live <= engine.shares
      /\ engine'.stops = engine.stops /\ engine.stops \in Nat
  BY DEF IInv, StartSharing, TypeOK, Engines
<1>2. Sound(store')
  <2>1. store.view = "IDLE"
    BY DEF StartSharing, Screen
  <2> QED BY <2>1, NoMetaIsMeta DEF IInv, StartSharing, Sound, Stores, Views
<1>3. [k |-> "send", share |-> engine.shares + 1] \in Continuations'
  BY <1>1 DEF Continuations
<1>4. ref' \in Refs
  BY DEF IInv, TypeOK, Engines, StartSharing, NoTransfer, Refs
<1>6. Continuations \subseteq Continuations' /\ Messages \subseteq Messages'
  BY <1>1, MoreTypes DEF IInv
<1>7. pend' \subseteq Continuations' /\ events' \in Seq(Messages')
  BY <1>3, <1>6 DEF IInv, TypeOK, StartSharing
<1>8. engine'.live <= engine'.shares
  BY <1>1 DEF IInv, TypeOK, Engines
<1> QED BY <1>1, <1>2, <1>4, <1>7, <1>8, EngineStep DEF IInv, TypeOK

\* stopSharing up to its await.
LEMMA StopSharingInv ==
  ASSUME IInv, NEW closes \in BOOLEAN, StopSharing(closes)
  PROVE  IInv'
<1> DEFINE s == [store EXCEPT !.broadcast = FALSE, !.alert = @ /\ ~closes]
           stoppedMeta == [of |-> ref.started, stopped |-> TRUE, exact |-> FALSE]
           ended == [s EXCEPT !.view = "SUCCESS", !.meta = stoppedMeta]
<1>1. Sound(s)
  BY DEF IInv, Sound, Stores
<1>2. stoppedMeta \in Metas /\ stoppedMeta # NoMeta
  BY DEF IInv, TypeOK, Refs, Metas, NoMeta
<1>3. Sound(ended)
  BY <1>1, <1>2 DEF Sound, Stores, Views
<1>4. Sound(ResetToIdle(s))
  BY <1>1, IdleIsSound DEF IInv, Sound
<1>5. store' \in {s, ended, ResetToIdle(s)}
  BY DEF StopSharing
<1>6. Sound(store')
  BY <1>1, <1>3, <1>4, <1>5
<1>7. ref' \in Refs
  BY DEF IInv, TypeOK, Engines, StopSharing, NoTransfer, Refs
<1>8. /\ engine' \in Engines /\ engine'.stops = engine.stops + 1
      /\ engine'.shares = engine.shares /\ engine'.transfers = engine.transfers
      /\ engine'.live = engine.live /\ engine'.running = engine.running
      /\ engine.shares \in Nat /\ engine.transfers \in Nat /\ engine.stops \in Nat
  BY DEF IInv, StopSharing, TypeOK, Engines
<1>9. Continuations \subseteq Continuations' /\ Messages \subseteq Messages'
  BY <1>8, MoreTypes DEF IInv
<1>10. PICK how \in {"background", "active", "plain"} :
         pend' = pend \cup {[k |-> "stop", n |-> engine.stops + 1, how |-> how]}
  BY DEF StopSharing
<1>11. [k |-> "stop", n |-> engine.stops + 1, how |-> how] \in Continuations'
  BY <1>8 DEF Continuations
<1>12. pend' \subseteq Continuations' /\ events' \in Seq(Messages')
  BY <1>9, <1>10, <1>11 DEF IInv, TypeOK, StopSharing
<1>13. engine'.live <= engine'.shares /\ engine'.running \subseteq 1..engine'.transfers
  BY <1>8 DEF IInv, TypeOK
<1> QED BY <1>6, <1>7, <1>8, <1>12, <1>13, EngineStep

LEMMA CloseAlertInv == ASSUME IInv, CloseAlert PROVE IInv'
<1>1. Sound(store')
  BY DEF IInv, CloseAlert, Sound, Stores
<1> QED BY <1>1, PageStep DEF IInv, TypeOK, CloseAlert

\* The switch is on the card.
LEMMA SetBroadcastInv == ASSUME IInv, NEW on \in BOOLEAN, SetBroadcast(on) PROVE IInv'
<1>1. store.view = "SHARING"
  BY DEF SetBroadcast, TicketShown, Screen, Card
<1>2. Sound(store')
  BY <1>1 DEF IInv, SetBroadcast, Sound, Stores
<1>3. pend' \subseteq Continuations
  BY DEF IInv, TypeOK, SetBroadcast, Continuations
<1> QED BY <1>2, <1>3, PageStep DEF IInv, TypeOK, SetBroadcast

LEMMA UndoInv == ASSUME IInv, UndoBroadcast \/ UndoExpires PROVE IInv'
<1>1. Sound(store')
  BY DEF IInv, UndoBroadcast, UndoExpires, Sound, Stores
<1> QED BY <1>1, PageStep DEF IInv, TypeOK, UndoBroadcast, UndoExpires

------------------------------------------------------------------------------
(* The page                                                                 *)

LEMMA SendAnswerInv == ASSUME IInv, NEW c \in pend, SendAnswer(c) PROVE IInv'
<1>1. c.share \in 0..engine.shares
  BY Kinds DEF IInv, TypeOK, SendAnswer
<1>2. Sound(store')
  BY <1>1 DEF IInv, SendAnswer, Sound, Stores, Views
<1> QED BY <1>2, PageStep DEF IInv, TypeOK, SendAnswer

LEMMA StopAnswerInv ==
  ASSUME IInv, NEW c \in pend, NEW ok \in BOOLEAN, StopAnswer(c, ok)
  PROVE  IInv'
<1> DEFINE alerted == [store EXCEPT !.alert = TRUE]
           cleared == [store EXCEPT !.ticket = 0, !.sel = 0]
<1>1. Sound(alerted)
  BY DEF IInv, Sound, Stores
<1>2. Sound(cleared)
  <2>1. 0 \in 0..engine.shares /\ 0 \in 0..MaxItems
    BY DEF IInv, TypeOK, Engines
  <2> QED BY <2>1 DEF IInv, Sound, Stores
<1>3. Sound(ResetToIdle(store))
  BY IdleIsSound DEF IInv, Sound
<1>4. store' \in {alerted, cleared, ResetToIdle(store)}
  BY DEF StopAnswer
<1>5. Sound(store')
  BY <1>1, <1>2, <1>3, <1>4
<1>6. ref' \in Refs
  BY DEF IInv, TypeOK, Engines, StopAnswer, NoTransfer, Refs
<1> QED BY <1>5, <1>6, PageStep DEF IInv, TypeOK, StopAnswer

\* A transfer that took place has a number: its summary is not the empty one.
LEMMA BegunHasSummary ==
  ASSUME TypeOK, NEW x \in 1..engine.transfers, NEW stopped \in BOOLEAN, NEW exact \in BOOLEAN
  PROVE  /\ [of |-> x, stopped |-> stopped, exact |-> exact] \in Metas
         /\ [of |-> x, stopped |-> stopped, exact |-> exact] # NoMeta
<1>1. x \in 0..engine.transfers /\ x # 0
  BY DEF TypeOK, Engines
<1> QED BY <1>1 DEF Metas, NoMeta

LEMMA FinishInv == ASSUME IInv, NEW c \in pend, Finish(c) PROVE IInv'
<1> DEFINE m == [of |-> c.of, stopped |-> FALSE, exact |-> FALSE]
<1>1. c \in Continuations /\ c.k = "finish"
  BY DEF IInv, TypeOK, Finish
<1>2. c.of \in 1..engine.transfers /\ c.broadcast \in BOOLEAN
  BY <1>1, Kinds
<1>3. m \in Metas /\ m # NoMeta
  BY <1>2, BegunHasSummary DEF IInv
<1>5. store' = [store EXCEPT !.meta = m, !.view = IF c.broadcast THEN @ ELSE "SUCCESS"]
  BY DEF Finish
<1>6. Sound(store')
  BY <1>2, <1>3, <1>5 DEF IInv, Sound, Stores, Views
<1>7. pend' \subseteq Continuations
  BY <1>2 DEF IInv, TypeOK, Finish, Continuations
<1> QED BY <1>6, <1>7, PageStep DEF IInv, TypeOK, Finish

LEMMA SizeAnswerInv ==
  ASSUME IInv, NEW c \in pend, NEW ok \in BOOLEAN, SizeAnswer(c, ok)
  PROVE  IInv'
<1> DEFINE m == [of |-> c.of, stopped |-> FALSE, exact |-> TRUE]
<1>1. c.of \in 1..engine.transfers
  BY Kinds DEF IInv, TypeOK, SizeAnswer
<1>2. m \in Metas /\ m # NoMeta
  BY <1>1, BegunHasSummary DEF IInv
<1>3. store' \in {store, [store EXCEPT !.meta = m]}
  BY DEF SizeAnswer
<1>4. Sound(store')
  BY <1>2, <1>3 DEF IInv, Sound, Stores
<1> QED BY <1>4, PageStep DEF IInv, TypeOK, SizeAnswer

LEMMA RelistenInv == ASSUME IInv, NEW c \in pend, Relisten(c) PROVE IInv'
<1>1. Sound(store')
  BY ListeningIsSound DEF IInv, Sound, Relisten
<1>2. ref' \in Refs
  BY DEF IInv, TypeOK, Engines, Relisten, Refs
<1> QED BY <1>1, <1>2, PageStep DEF IInv, TypeOK, Relisten

\* The oldest event, and what is left.
LEMMA HandleTypes ==
  ASSUME TypeOK, NEW kind, Handle(kind)
  PROVE  Head(events).x \in 1..engine.transfers /\ events' \in Seq(Messages)
<1>1. Head(events) \in Messages /\ Tail(events) \in Seq(Messages)
  BY DEF TypeOK, Handle
<1> QED BY <1>1 DEF Messages, Handle

LEMMA HandleStartedInv == ASSUME IInv, HandleStarted PROVE IInv'
<1>1. Head(events).x \in 1..engine.transfers /\ events' \in Seq(Messages)
  BY HandleTypes DEF IInv, HandleStarted
<1>2. Sound(store')
  BY NoMetaIsMeta DEF IInv, HandleStarted, Sound, Stores, Views
<1>3. ref' \in Refs
  BY <1>1 DEF IInv, TypeOK, Engines, HandleStarted, Refs
<1> QED BY <1>1, <1>2, <1>3, PageStep DEF IInv, TypeOK, HandleStarted

\* The mode is noted when the event is handled.
LEMMA HandleCompletedInv == ASSUME IInv, HandleCompleted PROVE IInv'
<1>1. Head(events).x \in 1..engine.transfers /\ events' \in Seq(Messages)
  BY HandleTypes DEF IInv, HandleCompleted
<1>2. store.broadcast \in BOOLEAN /\ (store.sel <= 1) \in BOOLEAN
  BY DEF IInv, Sound, Stores
<1>3. pend' \subseteq Continuations
  <2>1. [k |-> "finish", of |-> Head(events).x, broadcast |-> store.broadcast,
         single |-> store.sel <= 1] \in Continuations
    BY <1>1, <1>2 DEF Continuations
  <2> QED BY <2>1 DEF IInv, TypeOK, HandleCompleted
<1> QED BY <1>1, <1>3, PageStep DEF IInv, TypeOK, HandleCompleted

LEMMA HandleFailedInv == ASSUME IInv, HandleFailed PROVE IInv'
<1> DEFINE m == [of |-> Head(events).x, stopped |-> TRUE, exact |-> FALSE]
           ended == [store EXCEPT !.view = "SUCCESS", !.meta = m]
<1>1. Head(events).x \in 1..engine.transfers /\ events' \in Seq(Messages)
  BY HandleTypes DEF IInv, HandleFailed
<1>2. m \in Metas /\ m # NoMeta
  BY <1>1, BegunHasSummary DEF IInv
<1>3. Sound(ended)
  BY <1>2 DEF IInv, Sound, Stores, Views
<1>4. Sound(ResetForBroadcast(store))
  BY ListeningIsSound DEF IInv, Sound
<1>5. store' \in {store, ResetForBroadcast(store)} \/ (~store.broadcast /\ store' = ended)
  <2>1. CASE Stale
    BY <2>1 DEF HandleFailed
  <2>2. CASE ~Stale
    BY <2>2 DEF HandleFailed
  <2> QED BY <2>1, <2>2
<1>6. Sound(store')
  BY <1>3, <1>4, <1>5 DEF IInv
<1>7. ref' \in Refs
  BY DEF IInv, TypeOK, Engines, HandleFailed, Refs
<1> QED BY <1>1, <1>6, <1>7, PageStep DEF IInv, TypeOK, HandleFailed

------------------------------------------------------------------------------
(* The engine                                                               *)

LEMMA EngineSharesInv ==
  ASSUME IInv, NEW c \in pend, NEW ok \in BOOLEAN, EngineShares(c, ok)
  PROVE  IInv'
<1>1. c.share \in 0..engine.shares
  BY Kinds DEF IInv, TypeOK, EngineShares
<1>2. /\ engine' \in Engines /\ engine'.live <= engine'.shares
      /\ engine'.shares = engine.shares /\ engine'.transfers = engine.transfers
      /\ engine'.running = engine.running
      /\ engine.shares \in Nat /\ engine.transfers \in Nat
      /\ engine'.stops = engine.stops /\ engine.stops \in Nat
  <2>1. engine \in Engines /\ engine.live <= engine.shares
    BY DEF IInv, TypeOK
  <2>2. /\ engine.shares \in 0..MaxShares /\ engine.shares \in Nat /\ engine.transfers \in Nat
        /\ engine.stops \in Nat
    BY <2>1 DEF Engines
  <2>3. CASE ok /\ engine.live = 0
    <3>1. engine' = [engine EXCEPT !.live = c.share]
      BY <2>3 DEF EngineShares
    <3>2. c.share \in 0..MaxShares /\ c.share <= engine.shares
      BY <1>1, <2>2, BoundsAssumption
    <3>3. engine' \in Engines
      BY <2>1, <3>1, <3>2 DEF Engines
    <3>4. /\ engine'.live = c.share /\ engine'.shares = engine.shares
          /\ engine'.transfers = engine.transfers /\ engine'.running = engine.running
          /\ engine'.stops = engine.stops
      BY <2>1, <3>1 DEF Engines
    <3> QED BY <2>2, <3>2, <3>3, <3>4
  <2>4. CASE ~(ok /\ engine.live = 0)
    <3>1. engine' = engine
      BY <2>4 DEF EngineShares
    <3> QED BY <2>1, <2>2, <3>1
  <2> QED BY <2>3, <2>4
<1>3. Continuations \subseteq Continuations' /\ Messages \subseteq Messages'
  BY <1>2, MoreTypes DEF IInv
<1>4. [k |-> "sent", share |-> c.share, ok |-> ok /\ engine.live = 0] \in Continuations'
  BY <1>1, <1>2 DEF Continuations
<1>5. pend' \subseteq Continuations' /\ events' \in Seq(Messages')
  BY <1>3, <1>4 DEF IInv, TypeOK, EngineShares
<1> QED BY <1>2, <1>5, EngineStep DEF IInv, TypeOK, EngineShares

\* A last transfer-failed is about a transfer that was running.
LEMMA EngineStopsInv ==
  ASSUME IInv, NEW c \in pend, NEW last \in BOOLEAN, EngineStops(c, last)
  PROVE  IInv'
<1>1. c.how \in {"background", "active", "plain"} /\ c.n \in 0..engine.stops
  BY Kinds DEF IInv, TypeOK, EngineStops
<1>2. /\ engine' \in Engines /\ engine'.live <= engine'.shares
      /\ engine'.shares = engine.shares /\ engine'.transfers = engine.transfers
      /\ engine'.running = {}
      /\ engine.shares \in Nat /\ engine.transfers \in Nat
      /\ engine'.stops = engine.stops /\ engine.stops \in Nat
  <2>1. 0 \in 0..MaxShares /\ {} \in SUBSET (1..MaxTransfers)
    OBVIOUS
  <2>2. engine' = [engine EXCEPT !.live = 0, !.running = {}] /\ engine \in Engines
    BY DEF IInv, EngineStops, TypeOK
  <2>3. /\ engine' \in Engines /\ engine'.live = 0 /\ engine'.running = {}
        /\ engine'.shares = engine.shares /\ engine'.transfers = engine.transfers
        /\ engine'.stops = engine.stops
    BY <2>1, <2>2 DEF Engines
  <2>4. engine.shares \in Nat /\ engine.transfers \in Nat /\ engine.stops \in Nat
    BY <2>2 DEF Engines
  <2> QED BY <2>3, <2>4
<1>3. Continuations \subseteq Continuations' /\ Messages \subseteq Messages'
  BY <1>2, MoreTypes DEF IInv
<1>4. [k |-> "stopped", n |-> c.n, how |-> c.how] \in Continuations'
  BY <1>1, <1>2 DEF Continuations
<1>5. pend' \subseteq Continuations'
  BY <1>3, <1>4 DEF IInv, TypeOK, EngineStops
<1>6. events' \in Seq(Messages)
  <2>1. CASE last
    <3> DEFINE x == CHOOSE x \in engine.running : TRUE
    <3>1. x \in 1..engine.transfers
      BY <2>1 DEF IInv, TypeOK, EngineStops
    <3>2. [k |-> "failed", x |-> x] \in Messages
      BY <3>1 DEF Messages
    <3> QED BY <2>1, <3>2 DEF IInv, TypeOK, EngineStops
  <2>2. CASE ~last
    BY <2>2 DEF IInv, TypeOK, EngineStops
  <2> QED BY <2>1, <2>2
<1>7. events' \in Seq(Messages')
  BY <1>3, <1>6
<1> QED BY <1>2, <1>5, <1>7, EngineStep DEF IInv, TypeOK, EngineStops

LEMMA EngineBeginsInv == ASSUME IInv, EngineBegins PROVE IInv'
<1>1. /\ engine' \in Engines /\ engine'.shares = engine.shares /\ engine'.live = engine.live
      /\ engine'.transfers = engine.transfers + 1
      /\ engine'.running = engine.running \cup {engine.transfers + 1}
      /\ engine.shares \in Nat /\ engine.transfers \in Nat
      /\ engine'.stops = engine.stops /\ engine.stops \in Nat
  <2> DEFINE x == engine.transfers + 1
  <2>1. engine \in Engines /\ engine.transfers < MaxTransfers
        /\ engine' = [engine EXCEPT !.transfers = x, !.running = @ \cup {x}]
    BY DEF IInv, EngineBegins, TypeOK
  <2>2. x \in 0..MaxTransfers /\ engine.running \cup {x} \in SUBSET (1..MaxTransfers)
    BY <2>1 DEF Engines
  <2> HIDE DEF x
  <2>3. /\ engine' \in Engines /\ engine'.shares = engine.shares /\ engine'.live = engine.live
        /\ engine'.transfers = x /\ engine'.running = engine.running \cup {x}
        /\ engine'.stops = engine.stops
    BY <2>1, <2>2 DEF Engines
  <2> QED BY <2>1, <2>3 DEF Engines, x
<1>2. engine'.live <= engine'.shares /\ engine'.running \subseteq 1..engine'.transfers
  BY <1>1 DEF IInv, TypeOK
<1>3. Continuations \subseteq Continuations' /\ Messages \subseteq Messages'
  BY <1>1, MoreTypes DEF IInv
<1>4. [k |-> "started", x |-> engine.transfers + 1] \in Messages'
  BY <1>1 DEF Messages
<1>5. pend' \subseteq Continuations' /\ events' \in Seq(Messages')
  BY <1>3, <1>4 DEF IInv, TypeOK, EngineBegins, Emit
<1> QED BY <1>1, <1>2, <1>5, EngineStep DEF IInv, TypeOK, EngineBegins

LEMMA EngineEndsInv ==
  ASSUME IInv, NEW x \in engine.running, NEW kind \in {"completed", "failed"},
         EngineEnds(x, kind)
  PROVE  IInv'
<1>1. /\ engine' \in Engines /\ engine'.shares = engine.shares /\ engine'.live = engine.live
      /\ engine'.transfers = engine.transfers /\ engine'.running \subseteq engine.running
      /\ engine.shares \in Nat /\ engine.transfers \in Nat
      /\ engine'.stops = engine.stops /\ engine.stops \in Nat
  BY DEF IInv, EngineEnds, TypeOK, Engines
<1>2. engine'.live <= engine'.shares /\ engine'.running \subseteq 1..engine'.transfers
  BY <1>1 DEF IInv, TypeOK
<1>3. Continuations \subseteq Continuations' /\ Messages \subseteq Messages'
  BY <1>1, MoreTypes DEF IInv
<1>4. [k |-> kind, x |-> x] \in Messages
  BY DEF IInv, TypeOK, Messages
<1>5. pend' \subseteq Continuations' /\ events' \in Seq(Messages')
  BY <1>3, <1>4 DEF IInv, TypeOK, EngineEnds, Emit
<1> QED BY <1>1, <1>2, <1>5, EngineStep DEF IInv, TypeOK, EngineEnds

------------------------------------------------------------------------------
LEMMA NextInv == IInv /\ [Next]_vars => IInv'
<1>1. ASSUME IInv, UNCHANGED vars PROVE IInv'
  BY <1>1, PageStep DEF IInv, TypeOK, vars
<1>2. ASSUME IInv, User PROVE IInv'
  BY <1>2, SelectFilesInv, DeselectInv, StartSharingInv, StopSharingInv, CloseAlertInv,
     SetBroadcastInv, UndoInv DEF User, StopButton, Done, AlertStop
<1>3. ASSUME IInv, Page PROVE IInv'
  BY <1>3, SendAnswerInv, FinishInv, StopAnswerInv, SizeAnswerInv, UndoInv, RelistenInv,
     HandleStartedInv, HandleCompletedInv, HandleFailedInv DEF Page
<1>4. ASSUME IInv, Engine PROVE IInv'
  BY <1>4, EngineSharesInv, EngineStopsInv, EngineBeginsInv, EngineEndsInv DEF Engine
<1> QED BY <1>1, <1>2, <1>3, <1>4 DEF Next

LEMMA Invariance == Spec => []IInv
  BY InitInv, NextInv, PTL DEF Spec

\* A step but the end of a completion's wait keeps the screen: an update of the store
\* that leaves IDLE, the card or the summary goes to another of them.
LEMMA ScreenStep ==
  ASSUME IInv, [Next]_vars, ~Blank(store), Blank(store')
  PROVE  LateFinish
<1>1. SUFFICES ASSUME ~LateFinish PROVE Blank(store') => Blank(store)
  OBVIOUS
<1>2. store \in Stores
  BY DEF IInv, Sound
<1>3. ASSUME store' = store PROVE Blank(store') => Blank(store)
  BY <1>3
<1>4. \A s \in Stores : ~Blank(ResetToIdle(s)) /\ ~Blank(ResetForBroadcast(s))
  BY DEF Stores, Blank, Card, ResetToIdle, InitialStore, ResetForBroadcast
<1>5. ASSUME SelectFiles \/ CloseAlert \/ \E n \in 0..MaxItems : Deselect(n)
      PROVE  Blank(store') => Blank(store)
  BY <1>2, <1>5 DEF SelectFiles, Deselect, CloseAlert, Stores, Blank, Summary, Card
<1>6. ASSUME StartSharing PROVE Blank(store') => Blank(store)
  BY <1>2, <1>6 DEF StartSharing, Stores, Blank
<1>7. ASSUME NEW closes \in BOOLEAN, StopSharing(closes) PROVE Blank(store') => Blank(store)
  <2> DEFINE s == [store EXCEPT !.broadcast = FALSE, !.alert = @ /\ ~closes]
             m == [of |-> ref.started, stopped |-> TRUE, exact |-> FALSE]
             ended == [s EXCEPT !.view = "SUCCESS", !.meta = m]
  <2>1. s \in Stores /\ (Blank(s) => Blank(store))
    BY <1>2 DEF Stores, Blank, Summary, Card
  <2>2. ~Blank(ended)
    BY <2>1 DEF Stores, Blank, Summary, NoMeta
  <2>3. store' \in {s, ended, ResetToIdle(s)}
    BY <1>7 DEF StopSharing
  <2> QED BY <1>4, <2>1, <2>2, <2>3
<1>8. ASSUME (\E on \in BOOLEAN : SetBroadcast(on)) \/ UndoBroadcast \/ UndoExpires
      PROVE  Blank(store') => Blank(store)
  <2>1. CASE \E on \in BOOLEAN : SetBroadcast(on)
    BY <1>2, <2>1 DEF SetBroadcast, TicketShown, Screen, Stores, Blank, Card, Summary
  <2>2. CASE UndoBroadcast \/ UndoExpires
    BY <1>2, <2>2 DEF UndoBroadcast, UndoExpires, Stores, Blank, Card, Summary
  <2> QED BY <1>8, <2>1, <2>2
<1>9. ASSUME NEW c \in pend, SendAnswer(c) PROVE Blank(store') => Blank(store)
  BY <1>2, <1>9 DEF SendAnswer, Stores, Blank, Card, Summary
<1>10. ASSUME NEW c \in pend, Finish(c) PROVE Blank(store') => Blank(store)
  <2>1. c.k = "finish" /\ c \in Continuations
    BY <1>10 DEF Finish, IInv, TypeOK
  <2>2. c.of \in 1..engine.transfers /\ c.broadcast \in BOOLEAN
    BY <2>1, Kinds
  <2>3. ~c.broadcast => ~store.broadcast
    BY <1>1, <1>10, <2>1 DEF LateFinish
  <2>4. [of |-> c.of, stopped |-> FALSE, exact |-> FALSE] # NoMeta
    BY <2>2, BegunHasSummary DEF IInv
  <2> QED BY <1>2, <1>10, <2>2, <2>3, <2>4 DEF Finish, Stores, Blank, Card, Summary
<1>11. ASSUME NEW c \in pend, Relisten(c) PROVE Blank(store') => Blank(store)
  BY <1>2, <1>4, <1>11 DEF Relisten
<1>12. ASSUME NEW c \in pend, NEW ok \in BOOLEAN, StopAnswer(c, ok)
       PROVE  Blank(store') => Blank(store)
  <2>1. Blank([store EXCEPT !.alert = TRUE]) => Blank(store)
    BY <1>2 DEF Stores, Blank, Card, Summary
  <2>2. Blank([store EXCEPT !.ticket = 0, !.sel = 0]) => Blank(store)
    BY <1>2 DEF Stores, Blank, Card, Summary
  <2> QED BY <1>2, <1>4, <1>12, <2>1, <2>2 DEF StopAnswer
<1>13. ASSUME NEW c \in pend, NEW ok \in BOOLEAN, SizeAnswer(c, ok)
       PROVE  Blank(store') => Blank(store)
  <2>1. c.of \in 1..engine.transfers
    BY <1>13, Kinds DEF IInv, TypeOK, SizeAnswer
  <2>2. [of |-> c.of, stopped |-> FALSE, exact |-> TRUE] # NoMeta
    BY <2>1, BegunHasSummary DEF IInv
  <2> QED BY <1>2, <1>13, <2>2 DEF SizeAnswer, Stores, Blank, Card, Summary
<1>14. ASSUME HandleStarted PROVE Blank(store') => Blank(store)
  BY <1>2, <1>14 DEF HandleStarted, Stores, Blank, Card, Summary
<1>15. ASSUME HandleFailed PROVE Blank(store') => Blank(store)
  <2>1. Head(events).x \in 1..engine.transfers
    BY <1>15, HandleTypes DEF IInv, HandleFailed
  <2>2. [of |-> Head(events).x, stopped |-> TRUE, exact |-> FALSE] # NoMeta
    BY <2>1, BegunHasSummary DEF IInv
  <2>3. CASE Stale
    BY <1>15, <2>3 DEF HandleFailed
  <2>4. CASE ~Stale
    BY <1>2, <1>4, <1>15, <2>2, <2>4 DEF HandleFailed, Stores, Blank, Card, Summary
  <2> QED BY <2>3, <2>4
<1>16. ASSUME HandleCompleted \/ Engine \/ UNCHANGED vars PROVE Blank(store') => Blank(store)
  BY <1>3, <1>16 DEF HandleCompleted, Engine, EngineShares, EngineStops, EngineBegins,
     EngineEnds, vars
<1>17. ASSUME User PROVE Blank(store') => Blank(store)
  BY <1>5, <1>6, <1>7, <1>8, <1>17 DEF User, StopButton, Done, AlertStop
<1>18. ASSUME Page PROVE Blank(store') => Blank(store)
  BY <1>8, <1>9, <1>10, <1>11, <1>12, <1>13, <1>14, <1>15, <1>16, <1>18 DEF Page
<1> QED BY <1>16, <1>17, <1>18 DEF Next

\* For any number of shares, transfers and stops, and whatever answers, events and
\* timers come late or overtake each other: Sender.tsx goes blank only by a completion
\* that goes by the mode it read before its 10 ms wait.
THEOREM BlankIsLate == Spec => BlankOnlyIfLate
<1>1. IInv /\ [Next]_vars => [~Blank(store) /\ Blank(store') => LateFinish]_vars
  BY ScreenStep
<1> QED BY <1>1, Invariance, PTL DEF Spec, BlankOnlyIfLate

\* No late answer of send_items or stop_sharing leaves a ticket behind the file
\* selection.
THEOREM NoHiddenTicket == Spec => []IdleHasNoTicket
<1>1. IInv => IdleHasNoTicket
  BY DEF IInv, Sound, IdleHasNoTicket
<1> QED BY <1>1, Invariance, PTL
===============================================================================
