---------------------------- MODULE Pickers_proofs ----------------------------
(***************************************************************************)
(* How files and events reach the page, for any number of events, runs of  *)
(* an effect, handlers, copies and shares: no listener is left behind, a   *)
(* subscribed handler of a browser is reached, and an open copy dialog has *)
(* a copy that closes it.                                                  *)
(***************************************************************************)
EXTENDS MCPickers, SequenceTheorems, FiniteSetTheorems, TLAPS

------------------------------------------------------------------------------
(* The listeners of the hooks (EventListeners)                              *)

Runs == [disposed : BOOLEAN, at : {"calling", "answered", "ended"}, next : Nat, kept : SUBSET Nat]

ListenTypes ==
  /\ mounted \in BOOLEAN
  /\ runs \in Seq(Runs)
  /\ mounted => runs # <<>>
  /\ heard \subseteq (DOMAIN runs) \X Nat

\* The run on the page is the last one, and no other keeps listeners.  Without it
\* an answer that comes after the clean-up could find its run undisposed.
OnlyLastKeeps ==
  \A r \in DOMAIN runs :
    IF mounted /\ r = Len(runs) THEN ~runs[r].disposed
    ELSE runs[r].disposed /\ runs[r].kept = {}

ListenInv == ListenTypes /\ OnlyLastKeeps /\ ListenersAreOwned

\* The effect has not run yet.
LEMMA ListenInit == Init => ListenInv
<1> SUFFICES ASSUME Init
             PROVE  ListenInv
  OBVIOUS
<1>1. mounted = FALSE /\ runs = <<>> /\ heard = {}
  BY DEF Init
<1>2. /\ runs \in Seq(Runs)
      /\ mounted \in BOOLEAN
  <2>1. runs \in Seq(Runs)
    BY <1>1
  <2>2. mounted \in BOOLEAN
    BY <1>1, Zenon
  <2> QED BY <2>1, <2>2
<1>3. DOMAIN runs = {}
  BY <1>1
<1>4. ListenTypes
  BY <1>1, <1>2 DEF ListenTypes
<1> QED
  BY <1>1, <1>3, <1>4 DEF ListenInv, OnlyLastKeeps, ListenersAreOwned

\* A step of one run leaves the others alone.
LEMMA OneRun ==
  ASSUME NEW rs \in Seq(Runs), NEW n \in DOMAIN rs, NEW run \in Runs
  PROVE  LET new == [rs EXCEPT ![n] = run] IN
         /\ new \in Seq(Runs) /\ Len(new) = Len(rs) /\ DOMAIN new = DOMAIN rs
         /\ \A r \in DOMAIN rs \ {n} : new[r] = rs[r]
         /\ new[n] = run
  OBVIOUS

\* A new run begins with nothing registered, after runs that keep nothing.
LEMMA BegunFacts ==
  ASSUME NEW rs \in Seq(Runs)
  PROVE  /\ Begun(rs) \in Seq(Runs) /\ Len(Begun(rs)) = Len(rs) + 1
         /\ DOMAIN Begun(rs) = DOMAIN rs \cup {Len(rs) + 1}
         /\ \A r \in DOMAIN rs : Begun(rs)[r] = rs[r]
         /\ ~Begun(rs)[Len(rs) + 1].disposed
  <1> DEFINE new == [disposed |-> FALSE, at |-> "calling", next |-> 1, kept |-> {}]
  <1>1. new \in Runs
    BY DEF Runs
  <1>2. new.disposed = FALSE
    OBVIOUS
  <1> HIDE DEF new
  <1>3. Begun(rs) = Append(rs, new)
    BY DEF Begun, new
  <1> QED BY <1>1, <1>2, <1>3

\* The clean-up disposes of the last run and of what it kept, and of nothing else.
LEMMA DisposedFacts ==
  ASSUME NEW rs \in Seq(Runs), rs # <<>>
  PROVE  /\ Disposed(rs) \in Seq(Runs) /\ Len(Disposed(rs)) = Len(rs)
         /\ DOMAIN Disposed(rs) = DOMAIN rs
         /\ \A r \in DOMAIN rs \ {Len(rs)} : Disposed(rs)[r] = rs[r]
         /\ Disposed(rs)[Len(rs)].disposed /\ Disposed(rs)[Len(rs)].kept = {}
         /\ Disposed(rs)[Len(rs)].at = rs[Len(rs)].at
         /\ Disposed(rs)[Len(rs)].next = rs[Len(rs)].next
<1> DEFINE n == Len(rs)
           run == [[rs[n] EXCEPT !.disposed = TRUE] EXCEPT !.kept = {}]
<1>1. n \in DOMAIN rs /\ rs[n] \in Runs
  OBVIOUS
<1>2. /\ run \in Runs /\ run.disposed /\ run.kept = {}
      /\ run.at = rs[n].at /\ run.next = rs[n].next
  BY <1>1 DEF Runs
<1>3. Disposed(rs) = [rs EXCEPT ![n] = run]
  BY <1>1 DEF Disposed
<1> HIDE DEF run
<1> QED
  BY <1>1, <1>2, <1>3, OneRun

\* Going on to the next event changes neither what is kept nor the disposal.
LEMMA GoOnFacts ==
  ASSUME NEW run \in Runs
  PROVE  /\ GoOn(run) \in Runs /\ GoOn(run).kept = run.kept
         /\ GoOn(run).disposed = run.disposed
<1>1. CASE run.next = NEvents
  BY <1>1 DEF GoOn, Runs
<1>2. CASE run.next # NEvents
  <2>1. GoOn(run) = [run EXCEPT !.at = "calling", !.next = @ + 1]
    BY <1>2 DEF GoOn
  <2>2. run.next + 1 \in Nat
    BY DEF Runs
  <2> QED BY <2>1, <2>2 DEF Runs
<1> QED BY <1>1, <1>2

\* Every step of the page, of an effect and of listen() keeps the invariant.
LEMMA ListenNext == ListenInv /\ [Next]_vars => ListenInv'
<1> SUFFICES ASSUME ListenInv, [Next]_vars
             PROVE  ListenInv'
  OBVIOUS
<1>0. ListenTypes /\ OnlyLastKeeps /\ ListenersAreOwned
  BY DEF ListenInv
<1>1. CASE Mount
  <2>1. runs' = Begun(runs) /\ mounted' = TRUE /\ heard' = heard /\ mounted = FALSE
    BY <1>0, <1>1 DEF Mount, ListenTypes
  <2>2. runs \in Seq(Runs)
    BY <1>0 DEF ListenTypes
  <2>3. /\ runs' \in Seq(Runs) /\ Len(runs') = Len(runs) + 1
        /\ DOMAIN runs' = DOMAIN runs \cup {Len(runs) + 1}
        /\ \A r \in DOMAIN runs : runs'[r] = runs[r]
        /\ ~runs'[Len(runs) + 1].disposed
    BY <2>1, <2>2, BegunFacts
  <2>4. Len(runs) + 1 \notin DOMAIN runs /\ runs' # <<>>
    BY <2>2, <2>3
  <2>5. ListenTypes'
    BY <1>0, <2>1, <2>3, <2>4 DEF ListenTypes
  <2>6. OnlyLastKeeps'
    BY <1>0, <2>1, <2>3, <2>4 DEF OnlyLastKeeps
  <2>7. ListenersAreOwned'
    BY <1>0, <2>1, <2>3 DEF ListenersAreOwned, ListenTypes
  <2> QED BY <2>5, <2>6, <2>7 DEF ListenInv
<1>2. ASSUME mounted, heard' = Unheard
      PROVE  \A l \in heard' : runs[l[1]].at = "answered" /\ l[2] = runs[l[1]].next
  BY <1>0, <1>2 DEF ListenersAreOwned, ListenTypes, Unheard
<1>3. CASE Rerun
  <2> DEFINE ds == Disposed(runs)
  <2>1. /\ runs' = Begun(ds) /\ mounted' = mounted /\ mounted = TRUE
        /\ heard' = Unheard /\ heard' \subseteq heard
    BY <1>0, <1>3 DEF Rerun, ListenTypes, Unheard
  <2>2. runs \in Seq(Runs) /\ runs # <<>> /\ Len(runs) \in DOMAIN runs
    BY <1>0, <2>1 DEF ListenTypes
  <2>3. /\ ds \in Seq(Runs) /\ Len(ds) = Len(runs) /\ DOMAIN ds = DOMAIN runs
        /\ \A r \in DOMAIN runs \ {Len(runs)} : ds[r] = runs[r]
        /\ ds[Len(runs)].disposed /\ ds[Len(runs)].kept = {}
        /\ ds[Len(runs)].at = runs[Len(runs)].at
        /\ ds[Len(runs)].next = runs[Len(runs)].next
    BY <2>2, DisposedFacts
  <2> HIDE DEF ds
  <2>4. /\ runs' \in Seq(Runs) /\ Len(runs') = Len(ds) + 1
        /\ DOMAIN runs' = DOMAIN ds \cup {Len(ds) + 1}
        /\ \A r \in DOMAIN ds : runs'[r] = ds[r]
        /\ ~runs'[Len(ds) + 1].disposed
    BY <2>1, <2>3, BegunFacts
  <2>5. ListenTypes'
    BY <1>0, <2>1, <2>3, <2>4 DEF ListenTypes
  <2>6. OnlyLastKeeps'
    BY <1>0, <2>1, <2>2, <2>3, <2>4 DEF OnlyLastKeeps
  <2>7. \A l \in heard' : runs'[l[1]].at = "answered" /\ l[2] = runs'[l[1]].next
    BY <1>0, <1>2, <2>1, <2>2, <2>3, <2>4 DEF ListenTypes
  <2> QED BY <2>5, <2>6, <2>7 DEF ListenInv, ListenersAreOwned
<1>4. CASE Unmount
  <2>1. /\ runs' = Disposed(runs) /\ mounted' = FALSE /\ mounted = TRUE
        /\ heard' = Unheard /\ heard' \subseteq heard
    BY <1>0, <1>4 DEF Unmount, ListenTypes, Unheard
  <2>2. runs \in Seq(Runs) /\ runs # <<>> /\ Len(runs) \in DOMAIN runs
    BY <1>0, <2>1 DEF ListenTypes
  <2>3. /\ runs' \in Seq(Runs) /\ Len(runs') = Len(runs) /\ DOMAIN runs' = DOMAIN runs
        /\ \A r \in DOMAIN runs \ {Len(runs)} : runs'[r] = runs[r]
        /\ runs'[Len(runs)].disposed /\ runs'[Len(runs)].kept = {}
        /\ runs'[Len(runs)].at = runs[Len(runs)].at
        /\ runs'[Len(runs)].next = runs[Len(runs)].next
    BY <2>1, <2>2, DisposedFacts
  <2>4. ListenTypes'
    BY <1>0, <2>1, <2>3 DEF ListenTypes
  <2>5. OnlyLastKeeps'
    BY <1>0, <2>1, <2>2, <2>3 DEF OnlyLastKeeps
  <2>6. \A l \in heard' : runs'[l[1]].at = "answered" /\ l[2] = runs'[l[1]].next
    BY <1>0, <1>2, <2>1, <2>2, <2>3 DEF ListenTypes
  <2> QED BY <2>4, <2>5, <2>6 DEF ListenInv, ListenersAreOwned
<1>5. ASSUME NEW r \in DOMAIN runs, NEW run \in Runs, runs' = [runs EXCEPT ![r] = run],
             run.disposed = runs[r].disposed, mounted' = mounted
      PROVE  /\ runs' \in Seq(Runs) /\ Len(runs') = Len(runs) /\ DOMAIN runs' = DOMAIN runs
             /\ \A q \in DOMAIN runs \ {r} : runs'[q] = runs[q]
             /\ runs'[r] = run
             /\ mounted' => runs' # <<>>
             /\ (run.kept = runs[r].kept \/ ~run.disposed) => OnlyLastKeeps'
  <2>1. runs \in Seq(Runs)
    BY <1>0 DEF ListenTypes
  <2>2. /\ runs' \in Seq(Runs) /\ Len(runs') = Len(runs) /\ DOMAIN runs' = DOMAIN runs
        /\ \A q \in DOMAIN runs \ {r} : runs'[q] = runs[q]
        /\ runs'[r] = run
    BY <1>5, <2>1, OneRun
  <2> QED BY <1>0, <1>5, <2>2 DEF OnlyLastKeeps, ListenTypes
<1>6. ASSUME NEW r \in DOMAIN runs, Registered(r) \/ ListenFails(r)
      PROVE  ListenInv'
  <2>1. PICK a \in {"answered", "ended"} :
          /\ runs' = [runs EXCEPT ![r] = [runs[r] EXCEPT !.at = a]]
          /\ runs[r].at = "calling" /\ mounted' = mounted
          /\ heard' = IF a = "answered" THEN heard \cup {<<r, runs[r].next>>} ELSE heard
    BY <1>6 DEF Registered, ListenFails
  <2> DEFINE run == [runs[r] EXCEPT !.at = a]
  <2>2. /\ run \in Runs /\ run.disposed = runs[r].disposed /\ run.kept = runs[r].kept
        /\ run.at = a /\ run.next = runs[r].next /\ run.next \in Nat
    <3>1. runs[r] \in Runs
      BY <1>0 DEF ListenTypes
    <3> QED BY <3>1 DEF Runs
  <2> HIDE DEF run
  <2>3. /\ runs' \in Seq(Runs) /\ Len(runs') = Len(runs) /\ DOMAIN runs' = DOMAIN runs
        /\ \A q \in DOMAIN runs \ {r} : runs'[q] = runs[q]
        /\ runs'[r] = run /\ (mounted' => runs' # <<>>) /\ OnlyLastKeeps'
    BY <1>5, <2>1, <2>2 DEF run
  <2>4. ListenTypes'
    BY <1>0, <2>1, <2>2, <2>3 DEF ListenTypes
  <2>5. ListenersAreOwned'
    BY <1>0, <2>1, <2>2, <2>3 DEF ListenTypes, ListenersAreOwned
  <2> QED BY <2>3, <2>4, <2>5 DEF ListenInv
<1>7. ASSUME NEW r \in DOMAIN runs, Resolved(r)
      PROVE  ListenInv'
  <2>0. runs[r] \in Runs /\ runs[r].at = "answered" /\ mounted' = mounted
    BY <1>0, <1>7 DEF ListenTypes, Resolved
  <2>1. CASE runs[r].disposed
    <3> DEFINE run == GoOn(runs[r])
    <3>1. run \in Runs /\ run.disposed = runs[r].disposed /\ run.kept = runs[r].kept
      BY <2>0, GoOnFacts
    <3>2. runs' = [runs EXCEPT ![r] = run] /\ heard' = heard \ {<<r, runs[r].next>>}
      BY <1>7, <2>1 DEF Resolved
    <3> HIDE DEF run
    <3>3. /\ runs' \in Seq(Runs) /\ Len(runs') = Len(runs) /\ DOMAIN runs' = DOMAIN runs
          /\ \A q \in DOMAIN runs \ {r} : runs'[q] = runs[q]
          /\ runs'[r] = run /\ (mounted' => runs' # <<>>) /\ OnlyLastKeeps'
      BY <1>5, <2>0, <3>1, <3>2
    <3>4. ListenTypes'
      BY <1>0, <2>0, <3>2, <3>3 DEF ListenTypes
    <3>5. ~(mounted /\ r = Len(runs))
      BY <1>0, <2>1 DEF OnlyLastKeeps
    <3>6. ListenersAreOwned'
      BY <1>0, <2>0, <3>2, <3>3, <3>5 DEF ListenTypes, ListenersAreOwned
    <3> QED BY <3>3, <3>4, <3>6 DEF ListenInv
  <2>2. CASE ~runs[r].disposed
    <3> DEFINE run == GoOn(Kept(runs[r]))
    <3>1. /\ Kept(runs[r]) \in Runs /\ Kept(runs[r]).disposed = runs[r].disposed
          /\ Kept(runs[r]).kept = runs[r].kept \cup {runs[r].next}
      BY <2>0 DEF Runs, Kept
    <3>2. runs' = [runs EXCEPT ![r] = run] /\ heard' = heard
      BY <1>7, <2>2 DEF Resolved
    <3>3. /\ run \in Runs /\ run.disposed = runs[r].disposed
          /\ run.kept = runs[r].kept \cup {runs[r].next}
      BY <3>1, GoOnFacts
    <3> HIDE DEF run
    <3>4. /\ runs' \in Seq(Runs) /\ Len(runs') = Len(runs) /\ DOMAIN runs' = DOMAIN runs
          /\ \A q \in DOMAIN runs \ {r} : runs'[q] = runs[q]
          /\ runs'[r] = run /\ (mounted' => runs' # <<>>) /\ OnlyLastKeeps'
      BY <1>5, <2>0, <2>2, <3>2, <3>3
    <3>5. ListenTypes'
      BY <1>0, <2>0, <3>2, <3>4 DEF ListenTypes
    <3>6. mounted /\ r = Len(runs)
      BY <1>0, <2>2 DEF OnlyLastKeeps
    <3>7. ListenersAreOwned'
      BY <1>0, <2>0, <3>2, <3>3, <3>4, <3>6 DEF ListenTypes, ListenersAreOwned
    <3> QED BY <3>4, <3>5, <3>7 DEF ListenInv
  <2> QED BY <2>1, <2>2
<1>8. CASE UNCHANGED vars
  BY <1>0, <1>8 DEF ListenInv, ListenTypes, OnlyLastKeeps, ListenersAreOwned, vars
<1> QED
  BY <1>1, <1>3, <1>4, <1>6, <1>7, <1>8 DEF Next

\* However often the effect runs again or the page goes, and at whichever await
\* of setupListeners, every listener is kept by the run on the page or about to be
\* looked at by the run that asked for it.
THEOREM NoListenerIsLost == Spec => []ListenersAreOwned
<1>1. ListenInv => ListenersAreOwned
  BY DEF ListenInv
<1> QED
  BY <1>1, ListenInit, ListenNext, PTL DEF Spec
------------------------------------------------------------------------------
(* The handlers of a browser event (WebEventBus)                            *)

BusTypes ==
  /\ weSets \in Seq(SUBSET Handlers)
  /\ weCurrent \in 0..Len(weSets)
  /\ weSubs \in [Handlers -> 0..Len(weSets)]
  /\ \A h \in weGone : weSubs[h] # 0

\* A Set holds the handlers that were added to it and have not unsubscribed.
SetsHoldTheirs ==
  \A i \in DOMAIN weSets : weSets[i] = {h \in Handlers : weSubs[h] = i /\ h \notin weGone}

\* An older Set has become empty before the next one was made, unless an
\* unsubscriber took a Set out of the map that was not its own.
OlderAreEmpty ==
  ~weStale => \A i \in DOMAIN weSets : i # weCurrent => weSets[i] = {}

BusInv == BusTypes /\ SetsHoldTheirs /\ OlderAreEmpty

\* The map is empty.
LEMMA BusInit == WE!Init => BusInv
  BY DEF WE!Init, BusInv, BusTypes, SetsHoldTheirs, OlderAreEmpty

\* The handler goes into the Set in the map, or into a new one.
LEMMA BusSubscribe ==
  ASSUME BusInv, NEW h \in Handlers, WE!SubscribeWebEvent(h)
  PROVE  BusInv'
<1>0. /\ BusTypes /\ SetsHoldTheirs /\ OlderAreEmpty /\ weSubs[h] = 0 /\ h \notin weGone
      /\ weGone' = weGone /\ weStale' = weStale
  BY DEF BusInv, WE!SubscribeWebEvent, BusTypes
<1>1. Len(weSets) \in Nat /\ DOMAIN weSets = 1..Len(weSets)
  BY <1>0 DEF BusTypes
<1>2. CASE weCurrent = 0
  <2>1. /\ weSets' = Append(weSets, {h}) /\ weCurrent' = Len(weSets) + 1
        /\ weSubs' = [weSubs EXCEPT ![h] = Len(weSets) + 1]
    BY <1>2 DEF WE!SubscribeWebEvent
  <2>2. {h} \in SUBSET Handlers
    OBVIOUS
  <2>3. /\ weSets' \in Seq(SUBSET Handlers) /\ Len(weSets') = Len(weSets) + 1
        /\ \A i \in DOMAIN weSets : weSets'[i] = weSets[i]
        /\ weSets'[Len(weSets) + 1] = {h}
        /\ DOMAIN weSets' = 1..(Len(weSets) + 1)
    BY <1>0, <2>1, <2>2 DEF BusTypes
  <2>4. BusTypes'
    BY <1>0, <1>1, <2>1, <2>3 DEF BusTypes
  <2>5. SetsHoldTheirs'
    <3>1. ASSUME NEW i \in DOMAIN weSets
          PROVE  weSets'[i] = {g \in Handlers : weSubs'[g] = i /\ g \notin weGone'}
      BY <1>0, <1>1, <2>1, <2>3 DEF BusTypes, SetsHoldTheirs
    <3>2. weSets'[Len(weSets) + 1] = {g \in Handlers : weSubs'[g] = Len(weSets) + 1 /\ g \notin weGone'}
      BY <1>0, <1>1, <2>1, <2>3 DEF BusTypes
    <3> QED BY <1>1, <2>3, <3>1, <3>2 DEF SetsHoldTheirs
  <2>6. OlderAreEmpty'
    BY <1>0, <1>1, <1>2, <2>1, <2>3 DEF OlderAreEmpty
  <2> QED BY <2>4, <2>5, <2>6 DEF BusInv
<1>3. CASE weCurrent # 0
  <2>1. /\ weSets' = [weSets EXCEPT ![weCurrent] = @ \cup {h}] /\ weCurrent' = weCurrent
        /\ weSubs' = [weSubs EXCEPT ![h] = weCurrent]
    BY <1>3 DEF WE!SubscribeWebEvent
  <2>2. weCurrent \in DOMAIN weSets /\ weSets[weCurrent] \cup {h} \in SUBSET Handlers
    BY <1>0, <1>1, <1>3 DEF BusTypes
  <2>3. /\ weSets' \in Seq(SUBSET Handlers) /\ DOMAIN weSets' = DOMAIN weSets
        /\ Len(weSets') = Len(weSets)
        /\ weSets'[weCurrent] = weSets[weCurrent] \cup {h}
        /\ \A i \in DOMAIN weSets : i # weCurrent => weSets'[i] = weSets[i]
    BY <1>0, <2>1, <2>2 DEF BusTypes
  <2>4. BusTypes'
    BY <1>0, <1>1, <2>1, <2>2, <2>3 DEF BusTypes
  <2>5. SetsHoldTheirs'
    <3>1. ASSUME NEW i \in DOMAIN weSets
          PROVE  weSets'[i] = {g \in Handlers : weSubs'[g] = i /\ g \notin weGone'}
      BY <1>0, <1>1, <2>1, <2>2, <2>3 DEF BusTypes, SetsHoldTheirs
    <3> QED BY <2>3, <3>1 DEF SetsHoldTheirs
  <2>6. OlderAreEmpty'
    BY <1>0, <2>1, <2>3 DEF OlderAreEmpty
  <2> QED BY <2>4, <2>5, <2>6 DEF BusInv
<1> QED BY <1>2, <1>3

\* The handler goes out of its Set, or has gone out of it before.
LEMMA BusUnsubscribe ==
  ASSUME BusInv, NEW h \in Handlers, WE!Unsubscribe(h)
  PROVE  BusInv'
<1> DEFINE k == weSubs[h]
<1>0. BusTypes /\ SetsHoldTheirs /\ OlderAreEmpty /\ k # 0
  BY DEF BusInv, WE!Unsubscribe
<1>1. /\ Len(weSets) \in Nat /\ DOMAIN weSets = 1..Len(weSets)
      /\ k \in DOMAIN weSets /\ weSets[k] \ {h} \in SUBSET Handlers
  BY <1>0 DEF BusTypes
<1>2. /\ weSets' = [weSets EXCEPT ![k] = @ \ {h}]
      /\ weCurrent' = IF weSets'[k] = {} THEN 0 ELSE weCurrent
      /\ weGone' = weGone \cup {h}
      /\ weStale' = (weStale \/ (h \in weGone /\ weCurrent \notin {0, k}))
      /\ weSubs' = weSubs
  BY DEF WE!Unsubscribe, WE!Called
<1>3. /\ weSets' \in Seq(SUBSET Handlers) /\ DOMAIN weSets' = DOMAIN weSets
      /\ Len(weSets') = Len(weSets)
      /\ weSets'[k] = weSets[k] \ {h}
      /\ \A i \in DOMAIN weSets : i # k => weSets'[i] = weSets[i]
  BY <1>0, <1>1, <1>2 DEF BusTypes
<1>4. BusTypes'
  BY <1>0, <1>1, <1>2, <1>3 DEF BusTypes
<1>5. SetsHoldTheirs'
  <2>1. ASSUME NEW i \in DOMAIN weSets
        PROVE  weSets'[i] = {g \in Handlers : weSubs'[g] = i /\ g \notin weGone'}
    BY <1>0, <1>1, <1>2, <1>3 DEF SetsHoldTheirs
  <2> QED BY <1>3, <2>1 DEF SetsHoldTheirs
<1>6. OlderAreEmpty'
  <2> SUFFICES ASSUME ~weStale', NEW i \in DOMAIN weSets, i # weCurrent'
               PROVE  weSets'[i] = {}
    BY <1>3 DEF OlderAreEmpty
  <2>1. ~weStale /\ (h \notin weGone \/ weCurrent \in {0, k})
    BY <1>2
  <2>2. \A x \in DOMAIN weSets : x # weCurrent => weSets[x] = {}
    BY <1>0, <2>1 DEF OlderAreEmpty
  <2>3. h \notin weGone => h \in weSets[k]
    BY <1>0, <1>1 DEF SetsHoldTheirs
  <2>4. weCurrent \in {0, k}
    BY <1>1, <2>1, <2>2, <2>3
  <2> QED BY <1>1, <1>2, <1>3, <2>2, <2>4
<1> QED BY <1>4, <1>5, <1>6 DEF BusInv

\* A step of the bus, or of another component, keeps the invariant.
LEMMA BusNext ==
  ASSUME BusInv, WE!Next \/ UNCHANGED weVars
  PROVE  BusInv'
<1>1. ASSUME UNCHANGED weVars
      PROVE  BusInv'
  BY <1>1 DEF BusInv, BusTypes, SetsHoldTheirs, OlderAreEmpty, weVars
<1> QED
  BY <1>1, BusSubscribe, BusUnsubscribe DEF WE!Next

\* Whoever is subscribed is in the Set it was added to, and that is the one in the map.
LEMMA BusReaches ==
  ASSUME BusInv
  PROVE  WE!HandlersAreReached
<1>0. BusTypes /\ SetsHoldTheirs /\ OlderAreEmpty
  BY DEF BusInv
<1>1. Len(weSets) \in Nat /\ DOMAIN weSets = 1..Len(weSets)
  BY <1>0 DEF BusTypes
<1>2. WE!Reached \subseteq WE!Subscribed
  <2>1. CASE weCurrent = 0
    BY <2>1 DEF WE!Reached
  <2>2. CASE weCurrent # 0
    <3>1. weCurrent \in DOMAIN weSets
      BY <1>0, <1>1, <2>2 DEF BusTypes
    <3> QED BY <1>0, <2>2, <3>1 DEF WE!Reached, WE!Subscribed, SetsHoldTheirs
  <2> QED BY <2>1, <2>2
<1>3. ASSUME ~weStale, NEW h \in WE!Subscribed
      PROVE  h \in WE!Reached
  <2>1. h \in Handlers /\ weSubs[h] # 0 /\ h \notin weGone
    BY DEF WE!Subscribed
  <2>2. weSubs[h] \in DOMAIN weSets
    BY <1>0, <1>1, <2>1 DEF BusTypes
  <2>3. h \in weSets[weSubs[h]]
    BY <1>0, <2>1, <2>2 DEF SetsHoldTheirs
  <2>4. weSubs[h] = weCurrent
    BY <1>0, <1>3, <2>2, <2>3 DEF OlderAreEmpty
  <2> QED BY <2>1, <2>3, <2>4 DEF WE!Reached
<1> QED BY <1>2, <1>3 DEF WE!HandlersAreReached

\* A step moves one component, and the others stay where they are.
LEMMA OneMoves ==
  ASSUME [SumNext]_sumVars
  PROVE  /\ part' = part
         /\ AC!Next \/ UNCHANGED acVars
         /\ WP!Next \/ UNCHANGED wpVars
         /\ WE!Next \/ UNCHANGED weVars
  BY DEF SumNext, Only, sumVars

\* For any number of handlers that come and go, and unsubscribers called any number
\* of times: no handler is reached after it has unsubscribed, and every subscribed one
\* is, until an unsubscriber is called again while the Set of others is in the map
\* (web-event-bus.ts).
THEOREM SubscribedIsReached == SumSpec => []HandlersAreReached
<1>1. SumInit => BusInv
  BY BusInit DEF SumInit
<1>2. BusInv /\ [SumNext]_sumVars => BusInv'
  BY BusNext, OneMoves
<1>3. BusInv => HandlersAreReached
  BY BusReaches DEF HandlersAreReached
<1> QED
  BY <1>1, <1>2, <1>3, PTL DEF SumSpec

------------------------------------------------------------------------------
(* The copies that Android makes (AndroidCopy)                              *)

\* The last message of a copy; that of an empty one opens the dialog again.
Endings == {"complete", "error", "empty"}

\* What the channel of one copy can hold: a start, an end, or one after the other.
Chans == {<<>>, <<"start">>} \cup {<<m>> : m \in Endings} \cup {<<"start", m>> : m \in Endings}

JobStates ==
  [by : {"none", "pick", "share"}, call : {"none", "asked", "cancel", "yes", "no", "back"},
   run : {"none", "new", "on", "done", "off"}, chan : Chans]

CancelCalls == [job : AC!Jobs, for : AC!Jobs \cup {0}, at : {"asked", "joining", "rejected"}]

CopyTypes ==
  /\ acJob \in [AC!Jobs -> JobStates]
  /\ acCopying \in BOOLEAN
  /\ acEmptied \in BOOLEAN
  /\ acCancelRef \in AC!Jobs \cup {0}
  /\ acCancels \subseteq CancelCalls

\* The channel of a copy follows its course: nothing is sent before the copy
\* starts, a start that is the last message is of a copy that runs, a copy that
\* runs has sent nothing but the start, and a call not yet made has no copy.
FollowsCourse(r) ==
  /\ r.chan = <<"start">> => r.run = "on"
  /\ r.run = "on" => r.chan \in {<<>>, <<"start">>}
  /\ r.run = "new" => r.chan = <<>>
  /\ r.call \in {"asked", "cancel"} => r.run = "none" /\ r.chan = <<>>
  /\ r.by = "none" => r = AC!Free

\* A cancel that a run of consumeAndroidShare waits for is the only one it waits
\* for, and the run has not called consume_share_intent yet.
WaitsForOne ==
  \A c \in acCancels :
    c.for # 0 => /\ acJob[c.for].call = "cancel"
                 /\ \A d \in acCancels : d.for = c.for => d = c

\* A copy has to do with the dialog: it still runs, or its last message is to come.
Closes(r) ==
  \/ r.run = "on"
  \/ r.chan # <<>> /\ r.chan[Len(r.chan)] # "start"

SomeCopyCloses == acCopying => acEmptied \/ \E j \in AC!Jobs : Closes(acJob[j])

CopyInv ==
  /\ CopyTypes
  /\ \A j \in AC!Jobs : FollowsCourse(acJob[j])
  /\ WaitsForOne
  /\ SomeCopyCloses

\* Two messages, one after the other.
LEMMA PairFacts ==
  ASSUME NEW a, NEW b
  PROVE  Append(<<a>>, b) = <<a, b>> /\ Tail(<<a, b>>) = <<b>>
<1> DEFINE S == {a, b}
           s == Append(<<a>>, b)
           t == <<a, b>>
<1>1. s \in Seq(S) /\ Len(s) = 2 /\ s[1] = a /\ s[2] = b
  OBVIOUS
<1>2. t \in Seq(S) /\ Len(t) = 2 /\ t[1] = a /\ t[2] = b
  OBVIOUS
<1> DEFINE u == Tail(t)
           v == <<b>>
<1>3. u \in Seq(S) /\ Len(u) = 1 /\ u[1] = b
  OBVIOUS
<1>4. v \in Seq(S) /\ Len(v) = 1 /\ v[1] = b
  OBVIOUS
<1> HIDE DEF s, t, u, v, S
<1>5. s = t
  <2>1. \A i \in 1..Len(s) : s[i] = t[i]
    BY <1>1, <1>2
  <2> QED BY <1>1, <1>2, <2>1, SeqEqual
<1>6. u = v
  <2>1. \A i \in 1..Len(u) : u[i] = v[i]
    BY <1>3, <1>4
  <2> QED BY <1>3, <1>4, <2>1, SeqEqual
<1> QED BY <1>5, <1>6 DEF s, t, u, v

\* The messages one by one.
LEMMA ChanFacts ==
  /\ <<>> \in Chans /\ <<"start">> \in Chans
  /\ Append(<<>>, "start") = <<"start">>
  /\ \A m \in Endings :
       /\ Append(<<>>, m) = <<m>> /\ Append(<<"start">>, m) = <<"start", m>>
       /\ <<m>> \in Chans /\ <<"start", m>> \in Chans
       /\ <<m>> # <<>> /\ <<m>> # <<"start">> /\ <<"start", m>> # <<"start">> /\ <<"start", m>> # <<>>
       /\ <<m>>[Len(<<m>>)] = m /\ <<"start", m>>[Len(<<"start", m>>)] = m
       /\ Head(<<m>>) = m /\ Tail(<<m>>) = <<>>
       /\ Head(<<"start", m>>) = "start" /\ Tail(<<"start", m>>) = <<m>>
       /\ m # "start"
  /\ Head(<<"start">>) = "start" /\ Tail(<<"start">>) = <<>>
  /\ <<"start">>[Len(<<"start">>)] = "start" /\ <<"start">> # <<>>
<1>1. <<>> \in Chans /\ <<"start">> \in Chans
  BY DEF Chans
<1>2. ASSUME NEW m \in Endings
      PROVE  <<m>> \in Chans /\ <<"start", m>> \in Chans
  BY DEF Chans
<1>3. \A m \in Endings : m # "start"
  BY DEF Endings
<1>4. ASSUME NEW m \in Endings
      PROVE  /\ Append(<<>>, m) = <<m>> /\ Append(<<"start">>, m) = <<"start", m>>
             /\ <<m>>[Len(<<m>>)] = m /\ <<"start", m>>[Len(<<"start", m>>)] = m
             /\ Head(<<m>>) = m /\ Tail(<<m>>) = <<>>
             /\ Head(<<"start", m>>) = "start" /\ Tail(<<"start", m>>) = <<m>>
  <2>1. Append(<<>>, m) = <<m>>
    OBVIOUS
  <2>2. Append(<<"start">>, m) = <<"start", m>>
    BY PairFacts
  <2>3. <<m>>[Len(<<m>>)] = m /\ Head(<<m>>) = m
    OBVIOUS
  <2>4. Tail(<<m>>) = <<>>
    OBVIOUS
  <2>5. <<"start", m>>[Len(<<"start", m>>)] = m /\ Head(<<"start", m>>) = "start"
    OBVIOUS
  <2>6. Tail(<<"start", m>>) = <<m>>
    BY PairFacts
  <2> QED BY <2>1, <2>2, <2>3, <2>4, <2>5, <2>6
<1>5. ASSUME NEW m \in Endings
      PROVE  <<m>> # <<>> /\ <<m>> # <<"start">> /\ <<"start", m>> # <<"start">> /\ <<"start", m>> # <<>>
  <2>1. <<m>>[1] = m /\ <<"start">>[1] = "start"
    OBVIOUS
  <2>2. Len(<<m>>) = 1 /\ Len(<<>>) = 0 /\ Len(<<"start">>) = 1 /\ Len(<<"start", m>>) = 2
    OBVIOUS
  <2> QED BY <1>3, <2>1, <2>2
<1>6. /\ Append(<<>>, "start") = <<"start">>
      /\ Head(<<"start">>) = "start" /\ Tail(<<"start">>) = <<>>
      /\ <<"start">>[Len(<<"start">>)] = "start" /\ <<"start">> # <<>>
  OBVIOUS
<1> QED BY <1>1, <1>2, <1>3, <1>4, <1>5, <1>6

\* A slot nobody uses is free, and does not close anything.
LEMMA FreeFacts ==
  /\ AC!Free \in JobStates
  /\ FollowsCourse(AC!Free)
  /\ ~Closes(AC!Free)
  /\ AC!Free.call = "none" /\ AC!Free.by = "none" /\ AC!Free.run = "none" /\ AC!Free.chan = <<>>
  BY ChanFacts DEF AC!Free, JobStates, FollowsCourse, Closes

\* Nothing has been picked or shared.
LEMMA CopyInit == AC!Init => CopyInv
<1> SUFFICES ASSUME AC!Init
             PROVE  CopyInv
  OBVIOUS
<1>1. /\ acJob = [j \in AC!Jobs |-> AC!Free] /\ acCopying = FALSE /\ acEmptied = FALSE
      /\ acCancelRef = 0 /\ acCancels = {}
  BY DEF AC!Init
<1>2. CopyTypes
  BY <1>1, FreeFacts DEF CopyTypes
<1>3. \A j \in AC!Jobs : FollowsCourse(acJob[j])
  BY <1>1, FreeFacts
<1> QED
  BY <1>1, <1>2, <1>3 DEF CopyInv, WaitsForOne, SomeCopyCloses

\* Forgetting copies nobody hears of leaves a course that closes the dialog as
\* much as before, and forgets no run that waits for a cancel.
LEMMA TidyFacts ==
  ASSUME NEW f \in [AC!Jobs -> JobStates], NEW ref, NEW cs,
         \A j \in AC!Jobs : FollowsCourse(f[j])
  PROVE  /\ AC!Tidy(f, ref, cs) \in [AC!Jobs -> JobStates]
         /\ \A j \in AC!Jobs : FollowsCourse(AC!Tidy(f, ref, cs)[j])
         /\ \A j \in AC!Jobs : Closes(f[j]) => AC!Tidy(f, ref, cs)[j] = f[j]
         /\ \A j \in AC!Jobs : f[j].call = "cancel" => AC!Tidy(f, ref, cs)[j] = f[j]
<1> DEFINE g == AC!Tidy(f, ref, cs)
<1>1. g = [j \in AC!Jobs |-> g[j]]
  BY DEF AC!Tidy
<1>2. ASSUME NEW j \in AC!Jobs
      PROVE  g[j] = f[j] \/ (g[j] = AC!Free /\ f[j].call = "back" /\ f[j].run # "on" /\ f[j].chan = <<>>)
  BY <1>2 DEF AC!Tidy
<1> HIDE DEF g
<1>3. \A j \in AC!Jobs : g[j] \in JobStates /\ FollowsCourse(g[j])
  BY <1>2, FreeFacts
<1>4. \A j \in AC!Jobs : Closes(f[j]) => g[j] = f[j]
  BY <1>2 DEF Closes
<1>5. \A j \in AC!Jobs : f[j].call = "cancel" => g[j] = f[j]
  BY <1>2
<1> QED
  BY <1>1, <1>3, <1>4, <1>5 DEF g

\* A step of one copy, tidied up or not: the others stay as they were, as far as
\* closing the dialog and waiting for a cancel are concerned.
LEMMA OneJob ==
  ASSUME CopyInv, NEW j \in AC!Jobs, NEW r \in JobStates, FollowsCourse(r), NEW ref, NEW cs,
         \/ acJob' = [acJob EXCEPT ![j] = r]
         \/ acJob' = AC!Tidy([acJob EXCEPT ![j] = r], ref, cs)
  PROVE  /\ acJob' \in [AC!Jobs -> JobStates]
         /\ \A k \in AC!Jobs : FollowsCourse(acJob'[k])
         /\ \A k \in AC!Jobs \ {j} : /\ Closes(acJob[k]) => Closes(acJob'[k])
                                     /\ acJob[k].call = "cancel" => acJob'[k].call = "cancel"
         /\ Closes(r) => Closes(acJob'[j])
         /\ r.call = "cancel" => acJob'[j].call = "cancel"
<1> DEFINE f == [acJob EXCEPT ![j] = r]
<1>1. /\ f \in [AC!Jobs -> JobStates] /\ f[j] = r
      /\ \A k \in AC!Jobs \ {j} : f[k] = acJob[k]
  BY DEF CopyInv, CopyTypes
<1>2. \A k \in AC!Jobs : FollowsCourse(f[k])
  BY <1>1 DEF CopyInv
<1>3. acJob' = f \/ acJob' = AC!Tidy(f, ref, cs)
  OBVIOUS
<1> HIDE DEF f
<1>4. CASE acJob' = f
  BY <1>1, <1>2, <1>4
<1>5. CASE acJob' = AC!Tidy(f, ref, cs)
  <2>1. /\ acJob' \in [AC!Jobs -> JobStates]
        /\ \A k \in AC!Jobs : FollowsCourse(acJob'[k])
        /\ \A k \in AC!Jobs : Closes(f[k]) => acJob'[k] = f[k]
        /\ \A k \in AC!Jobs : f[k].call = "cancel" => acJob'[k] = f[k]
    BY <1>1, <1>2, <1>5, TidyFacts
  <2> QED BY <1>1, <2>1
<1> QED BY <1>3, <1>4, <1>5

\* A step of one copy that leaves the cancels under way alone: the dialog that it
\* opens or leaves open is closed by this copy or by the one that would have.
LEMMA OneJobInv ==
  ASSUME CopyInv, NEW j \in AC!Jobs, NEW r \in JobStates, FollowsCourse(r), NEW ref, NEW cs,
         \/ acJob' = [acJob EXCEPT ![j] = r]
         \/ acJob' = AC!Tidy([acJob EXCEPT ![j] = r], ref, cs),
         acCancels' = acCancels, acJob[j].call = "cancel" => r.call = "cancel",
         acCancelRef' \in AC!Jobs \cup {0}, acCopying' \in BOOLEAN, acEmptied' \in BOOLEAN,
         acCopying' => \/ acEmptied' \/ Closes(r)
                       \/ acCopying /\ (acEmptied => acEmptied') /\ ~Closes(acJob[j])
  PROVE  CopyInv'
<1>1. /\ acJob' \in [AC!Jobs -> JobStates]
      /\ \A k \in AC!Jobs : FollowsCourse(acJob'[k])
      /\ \A k \in AC!Jobs \ {j} : /\ Closes(acJob[k]) => Closes(acJob'[k])
                                  /\ acJob[k].call = "cancel" => acJob'[k].call = "cancel"
      /\ Closes(r) => Closes(acJob'[j])
      /\ r.call = "cancel" => acJob'[j].call = "cancel"
  BY OneJob
<1>2. CopyTypes'
  BY <1>1 DEF CopyInv, CopyTypes
<1>3. WaitsForOne'
  BY <1>1 DEF CopyInv, CopyTypes, CancelCalls, WaitsForOne
<1>4. SomeCopyCloses'
  BY <1>1 DEF CopyInv, SomeCopyCloses
<1> QED
  BY <1>1, <1>2, <1>3, <1>4 DEF CopyInv

\* A copy that begins takes a slot nobody uses.
LEMMA BeginFacts ==
  ASSUME CopyInv, NEW by \in {"pick", "share"}, NEW call \in {"asked", "cancel"}, AC!Begin(by, call)
  PROVE  LET r == [[AC!Free EXCEPT !.by = by] EXCEPT !.call = call] IN
         /\ AC!Slot \in AC!Jobs /\ acJob[AC!Slot] = AC!Free
         /\ r \in JobStates /\ FollowsCourse(r) /\ r.call = call
         /\ acJob' = [acJob EXCEPT ![AC!Slot] = r]
<1> DEFINE r == [[AC!Free EXCEPT !.by = by] EXCEPT !.call = call]
<1>1. AC!Slot \in AC!Unused
  BY DEF AC!Begin, AC!Slot
<1>2. AC!Slot \in AC!Jobs /\ acJob[AC!Slot] = AC!Free
  <2>1. AC!Slot \in AC!Jobs /\ acJob[AC!Slot].by = "none"
    BY <1>1 DEF AC!Unused
  <2>2. FollowsCourse(acJob[AC!Slot])
    BY <2>1 DEF CopyInv
  <2> QED BY <2>1, <2>2 DEF FollowsCourse
<1>3. AC!Free \in JobStates /\ AC!Free.run = "none" /\ AC!Free.chan = <<>>
  BY FreeFacts
<1>4. r \in JobStates /\ r.by = by /\ r.call = call /\ r.run = "none" /\ r.chan = <<>>
  BY <1>3 DEF JobStates
<1> HIDE DEF r
<1>5. FollowsCourse(r)
  BY <1>4, ChanFacts DEF FollowsCourse
<1>6. acJob' = [acJob EXCEPT ![AC!Slot] = r]
  BY DEF AC!Begin, r
<1> QED BY <1>2, <1>4, <1>5, <1>6 DEF r

\* A copy that runs, or that has sent its end, closes the dialog.
LEMMA ClosesFacts ==
  ASSUME NEW r
  PROVE  /\ r.run = "on" => Closes(r)
         /\ \A m \in Endings : r.chan \in {<<m>>, <<"start", m>>} => Closes(r)
<1>1. ASSUME NEW m \in Endings, r.chan = <<m>>
      PROVE  Closes(r)
  <2>1. r.chan # <<>> /\ r.chan[Len(r.chan)] = m /\ m # "start"
    BY <1>1, ChanFacts
  <2> QED BY <2>1 DEF Closes
<1>2. ASSUME NEW m \in Endings, r.chan = <<"start", m>>
      PROVE  Closes(r)
  <2>1. r.chan # <<>> /\ r.chan[Len(r.chan)] = m /\ m # "start"
    BY <1>2, ChanFacts
  <2> QED BY <2>1 DEF Closes
<1>3. ASSUME r.run = "on"
      PROVE  Closes(r)
  BY <1>3 DEF Closes
<1> QED BY <1>1, <1>2, <1>3

\* The user picks a document or a folder.
LEMMA CopyBrowse ==
  ASSUME CopyInv, AC!Browse
  PROVE  CopyInv'
<1> DEFINE r == [[AC!Free EXCEPT !.by = "pick"] EXCEPT !.call = "asked"]
           j == AC!Slot
<1>1. AC!Begin("pick", "asked") /\ UNCHANGED <<acCancels, acCopying, acEmptied, acCancelRef>>
  BY DEF AC!Browse, AC!page
<1>2. /\ j \in AC!Jobs /\ acJob[j] = AC!Free /\ r \in JobStates /\ FollowsCourse(r)
      /\ acJob' = [acJob EXCEPT ![j] = r]
  BY <1>1, BeginFacts
<1>3. ~Closes(acJob[j]) /\ acJob[j].call # "cancel"
  BY <1>2, FreeFacts
<1> HIDE DEF r, j
<1>4. acCancelRef' \in AC!Jobs \cup {0} /\ acCopying' \in BOOLEAN /\ acEmptied' \in BOOLEAN
  BY <1>1 DEF CopyInv, CopyTypes
<1> QED BY <1>1, <1>2, <1>3, <1>4, OneJobInv

\* A run of consumeAndroidShare, which may have to wait for a cancel.
LEMMA CopyRun ==
  ASSUME CopyInv, AC!Run, UNCHANGED <<acCopying, acEmptied, acCancelRef>>
  PROVE  CopyInv'
<1>1. CASE acSettled
  BY <1>1 DEF AC!Run, CopyInv, CopyTypes, WaitsForOne, SomeCopyCloses
<1>2. CASE ~acSettled /\ acCancelRef = 0
  <2> DEFINE r == [[AC!Free EXCEPT !.by = "share"] EXCEPT !.call = "asked"]
             j == AC!Slot
  <2>1. AC!Begin("share", "asked") /\ acCancels' = acCancels
    BY <1>2 DEF AC!Run
  <2>2. /\ j \in AC!Jobs /\ acJob[j] = AC!Free /\ r \in JobStates /\ FollowsCourse(r)
        /\ acJob' = [acJob EXCEPT ![j] = r]
    BY <2>1, BeginFacts
  <2>3. ~Closes(acJob[j]) /\ acJob[j].call # "cancel"
    BY <2>2, FreeFacts
  <2> HIDE DEF r, j
  <2>4. acCancelRef' \in AC!Jobs \cup {0} /\ acCopying' \in BOOLEAN /\ acEmptied' \in BOOLEAN
    BY DEF CopyInv, CopyTypes
  <2> QED BY <2>1, <2>2, <2>3, <2>4, OneJobInv
<1>3. CASE ~acSettled /\ acCancelRef # 0
  <2> DEFINE r == [[AC!Free EXCEPT !.by = "share"] EXCEPT !.call = "cancel"]
             j == AC!Slot
             c == [job |-> acCancelRef, for |-> j, at |-> "asked"]
  <2>1. AC!Begin("share", "cancel") /\ acCancels' = acCancels \cup {c}
    BY <1>3 DEF AC!Run
  <2>2. /\ j \in AC!Jobs /\ acJob[j] = AC!Free /\ r \in JobStates /\ FollowsCourse(r)
        /\ r.call = "cancel" /\ acJob' = [acJob EXCEPT ![j] = r]
    BY <2>1, BeginFacts
  <2>3. acJob[j].call # "cancel" /\ ~Closes(acJob[j])
    BY <2>2, FreeFacts
  <2>4. c \in CancelCalls /\ c.for = j
    BY <1>3, <2>2 DEF CopyInv, CopyTypes, CancelCalls
  <2> HIDE DEF r, j, c
  <2>5. /\ acJob' \in [AC!Jobs -> JobStates]
        /\ \A k \in AC!Jobs : FollowsCourse(acJob'[k])
        /\ \A k \in AC!Jobs \ {j} : /\ Closes(acJob[k]) => Closes(acJob'[k])
                                    /\ acJob[k].call = "cancel" => acJob'[k].call = "cancel"
        /\ acJob'[j].call = "cancel"
    BY <2>2, OneJob
  <2>6. CopyTypes'
    BY <2>1, <2>4, <2>5 DEF CopyInv, CopyTypes
  <2>7. \A d \in acCancels : d.for # j /\ (d.for # 0 => d.for \in AC!Jobs \ {j})
    <3>1. j # 0
      BY <2>2 DEF AC!Jobs
    <3> QED BY <2>3, <3>1 DEF CopyInv, CopyTypes, CancelCalls, WaitsForOne
  <2>8. WaitsForOne'
    BY <2>1, <2>4, <2>5, <2>7 DEF CopyInv, WaitsForOne
  <2>9. SomeCopyCloses'
    BY <2>3, <2>5 DEF CopyInv, SomeCopyCloses
  <2> QED BY <2>5, <2>6, <2>8, <2>9 DEF CopyInv
<1> QED BY <1>1, <1>2, <1>3

\* The Cancel button.
LEMMA CopyCancel ==
  ASSUME CopyInv, AC!CancelCopy
  PROVE  CopyInv'
<1>1. acJob' = acJob
  BY DEF AC!CancelCopy
<1>2. CASE acCancelRef = 0
  BY <1>1, <1>2 DEF AC!CancelCopy, AC!CloseDialog, CopyInv, CopyTypes, WaitsForOne, SomeCopyCloses
<1>3. CASE acCancelRef # 0
  <2> DEFINE c == [job |-> acCancelRef, for |-> 0, at |-> "asked"]
  <2>1. /\ acCancels' = acCancels \cup {c} /\ acCopying' = acCopying
        /\ acCancelRef' = acCancelRef /\ acEmptied' = acEmptied
    BY <1>3 DEF AC!CancelCopy
  <2>2. c \in CancelCalls /\ c.for = 0
    BY <1>3 DEF CopyInv, CopyTypes, CancelCalls
  <2> HIDE DEF c
  <2> QED BY <1>1, <2>1, <2>2 DEF CopyInv, CopyTypes, WaitsForOne, SomeCopyCloses
<1> QED BY <1>2, <1>3

\* The answer to a cancel closes the dialog, and lets a run that waited go on.
LEMMA CopyCancelAnswer ==
  ASSUME CopyInv, NEW c \in acCancels, AC!CancelAnswer(c)
  PROVE  CopyInv'
<1>1. /\ acCancels' = acCancels \ {c} /\ acCopying' = FALSE /\ acCancelRef' = 0
      /\ acEmptied' = FALSE
      /\ c.for \in AC!Jobs \cup {0}
  BY DEF AC!CancelAnswer, AC!CloseDialog, CopyInv, CopyTypes, CancelCalls
<1>2. SomeCopyCloses'
  BY <1>1 DEF SomeCopyCloses
<1>3. ASSUME /\ acJob' \in [AC!Jobs -> JobStates]
             /\ \A k \in AC!Jobs : FollowsCourse(acJob'[k])
             /\ \A k \in AC!Jobs \ {c.for} : acJob[k].call = "cancel" => acJob'[k].call = "cancel"
      PROVE  CopyInv'
  <2>1. CopyTypes'
    BY <1>1, <1>3 DEF CopyInv, CopyTypes
  <2>2. WaitsForOne'
    BY <1>1, <1>3 DEF CopyInv, CopyTypes, CancelCalls, WaitsForOne
  <2> QED BY <1>2, <1>3, <2>1, <2>2 DEF CopyInv
<1>4. CASE c.for = 0
  <2>1. acJob' = AC!Tidy(acJob, 0, acCancels \ {c})
    BY <1>4 DEF AC!CancelAnswer
  <2>2. acJob \in [AC!Jobs -> JobStates] /\ \A k \in AC!Jobs : FollowsCourse(acJob[k])
    BY DEF CopyInv, CopyTypes
  <2> QED BY <1>3, <2>1, <2>2, TidyFacts
<1>5. CASE c.for # 0
  <2> DEFINE j == c.for
             r == [acJob[j] EXCEPT !.call = IF c.at = "rejected" THEN "back" ELSE "asked"]
  <2>1. acJob' = AC!Tidy([acJob EXCEPT ![j] = r], 0, acCancels \ {c})
    BY <1>5 DEF AC!CancelAnswer
  <2>2. j \in AC!Jobs /\ acJob[j] \in JobStates /\ acJob[j].call = "cancel" /\ FollowsCourse(acJob[j])
    BY <1>1, <1>5 DEF CopyInv, CopyTypes, WaitsForOne
  <2>3. /\ r \in JobStates /\ r.by = acJob[j].by /\ r.run = acJob[j].run /\ r.chan = acJob[j].chan
        /\ r.call \in {"asked", "back"}
    BY <2>2 DEF JobStates
  <2>4. acJob[j].by # "none"
    BY <2>2, FreeFacts DEF FollowsCourse
  <2>5. FollowsCourse(r)
    BY <2>2, <2>3, <2>4 DEF FollowsCourse
  <2> HIDE DEF r
  <2>6. /\ acJob' \in [AC!Jobs -> JobStates]
        /\ \A k \in AC!Jobs : FollowsCourse(acJob'[k])
        /\ \A k \in AC!Jobs \ {j} : acJob[k].call = "cancel" => acJob'[k].call = "cancel"
    BY <2>1, <2>2, <2>3, <2>5, OneJob
  <2> QED BY <1>3, <2>6
<1> QED BY <1>4, <1>5

\* The plug-in's answer to a call arrives.
LEMMA CopyAnswer ==
  ASSUME CopyInv, NEW j \in AC!Jobs, AC!Answer(j)
  PROVE  CopyInv'
<1> DEFINE r == [acJob[j] EXCEPT !.call = "back"]
<1>1. /\ acJob' = AC!Tidy([acJob EXCEPT ![j] = r], acCancelRef', acCancels)
      /\ acCancels' = acCancels /\ acCopying' = acCopying /\ acEmptied' = acEmptied
      /\ acCancelRef' \in {j, acCancelRef} /\ acJob[j].call \in {"yes", "no"}
  BY DEF AC!Answer
<1>2. acJob[j] \in JobStates /\ FollowsCourse(acJob[j])
  BY DEF CopyInv, CopyTypes
<1>3. /\ r \in JobStates /\ r.by = acJob[j].by /\ r.call = "back"
      /\ r.run = acJob[j].run /\ r.chan = acJob[j].chan
  BY <1>2 DEF JobStates
<1>4. acJob[j].by # "none"
  BY <1>1, <1>2, FreeFacts DEF FollowsCourse
<1>5. FollowsCourse(r) /\ (Closes(acJob[j]) <=> Closes(r))
  BY <1>2, <1>3, <1>4 DEF FollowsCourse, Closes
<1>6. acCancelRef' \in AC!Jobs \cup {0} /\ acCopying' \in BOOLEAN /\ acEmptied' \in BOOLEAN
  BY <1>1 DEF CopyInv, CopyTypes
<1> HIDE DEF r
<1> QED BY <1>1, <1>3, <1>5, <1>6, OneJobInv

\* The channel of a copy with a message: the start, of a copy that runs or has
\* its end behind it, or the end.
LEMMA ChanCases ==
  ASSUME NEW r \in JobStates, FollowsCourse(r), r.chan # <<>>
  PROVE  \/ /\ Head(r.chan) = "start" /\ Tail(r.chan) = <<>> /\ r.run = "on"
         \/ /\ Head(r.chan) = "start"
            /\ \E m \in Endings : r.chan = <<"start", m>> /\ Tail(r.chan) = <<m>>
         \/ /\ Head(r.chan) \in Endings /\ Tail(r.chan) = <<>>
<1>1. r.chan \in Chans
  BY DEF JobStates
<1>2. CASE r.chan = <<"start">>
  BY <1>2, ChanFacts DEF FollowsCourse
<1>3. CASE \E m \in Endings : r.chan = <<m>>
  BY <1>3, ChanFacts
<1>4. CASE \E m \in Endings : r.chan = <<"start", m>>
  BY <1>4, ChanFacts
<1> QED BY <1>1, <1>2, <1>3, <1>4 DEF Chans

\* A message of a copy is taken: a start opens the dialog, an end closes it, but for
\* that of an empty copy.
LEMMA CopyMessage ==
  ASSUME CopyInv, NEW j \in AC!Jobs, AC!Message(j)
  PROVE  CopyInv'
<1> DEFINE r == [acJob[j] EXCEPT !.chan = Tail(acJob[j].chan)]
           h == Head(acJob[j].chan)
<1>1. /\ acJob' = AC!Tidy([acJob EXCEPT ![j] = r], acCancelRef', acCancels)
      /\ acCancels' = acCancels /\ acJob[j].chan # <<>>
  BY DEF AC!Message
<1>2. acJob[j] \in JobStates /\ FollowsCourse(acJob[j])
  BY DEF CopyInv, CopyTypes
<1>3. \/ h = "start" /\ Tail(acJob[j].chan) = <<>> /\ acJob[j].run = "on"
      \/ /\ h = "start"
         /\ \E m \in Endings : acJob[j].chan = <<"start", m>> /\ Tail(acJob[j].chan) = <<m>>
      \/ h \in Endings /\ Tail(acJob[j].chan) = <<>>
  BY <1>1, <1>2, ChanCases
<1>4. /\ Tail(acJob[j].chan) \in Chans /\ Tail(acJob[j].chan) # <<"start">>
  BY <1>3, ChanFacts
<1>5. /\ r \in JobStates /\ r.by = acJob[j].by /\ r.call = acJob[j].call
      /\ r.run = acJob[j].run /\ r.chan = Tail(acJob[j].chan)
  BY <1>2, <1>4 DEF JobStates
<1>6. /\ acJob[j].by # "none" /\ acJob[j].call \notin {"asked", "cancel"} /\ acJob[j].run # "new"
  BY <1>1, <1>2, FreeFacts DEF FollowsCourse
<1>7. acJob[j].run = "on" => Tail(acJob[j].chan) = <<>>
  BY <1>1, <1>2, ChanFacts DEF FollowsCourse
<1> HIDE DEF r
<1>8. FollowsCourse(r)
  BY <1>4, <1>5, <1>6, <1>7 DEF FollowsCourse
<1>9. CASE h = "start"
  <2>1. acCopying' = TRUE /\ acCancelRef' = acCancelRef /\ acEmptied' = FALSE
    BY <1>9 DEF AC!Message, AC!Start
  <2>2. Closes(r)
    <3>1. \/ r.run = "on"
          \/ \E m \in Endings : r.chan = <<m>>
      BY <1>3, <1>5, <1>9, ChanFacts
    <3> QED BY <3>1, ClosesFacts
  <2>3. acCancelRef' \in AC!Jobs \cup {0} /\ acCopying' \in BOOLEAN /\ acEmptied' \in BOOLEAN
    BY <2>1 DEF CopyInv, CopyTypes
  <2> QED BY <1>1, <1>5, <1>6, <1>8, <2>2, <2>3, OneJobInv
<1>10. CASE h = "empty"
  <2>1. acCopying' = TRUE /\ acCancelRef' = acCancelRef /\ acEmptied' = TRUE
    BY <1>10 DEF AC!Message, AC!Start
  <2>2. acCancelRef' \in AC!Jobs \cup {0} /\ acCopying' \in BOOLEAN /\ acEmptied' \in BOOLEAN
    BY <2>1 DEF CopyInv, CopyTypes
  <2> QED BY <1>1, <1>5, <1>6, <1>8, <2>1, <2>2, OneJobInv
<1>11. CASE h \in {"complete", "error"}
  <2>1. acCopying' = FALSE /\ acCancelRef' = 0 /\ acEmptied' = FALSE
    BY <1>11 DEF AC!Message, AC!CloseDialog
  <2>2. acCancelRef' \in AC!Jobs \cup {0} /\ acCopying' \in BOOLEAN /\ acEmptied' \in BOOLEAN
    BY <2>1
  <2> QED BY <1>1, <1>5, <1>6, <1>8, <2>1, <2>2, OneJobInv
<1> QED BY <1>3, <1>9, <1>10, <1>11 DEF Endings

\* The plug-in answers, starts a copy, ends it and forgets it.
LEMMA CopyNative ==
  ASSUME CopyInv, NEW j \in AC!Jobs,
         \/ \E yes \in BOOLEAN : AC!NativeAnswers(j, yes)
         \/ AC!NativeStarts(j)
         \/ AC!NativeFails(j)
         \/ \E empty \in BOOLEAN : AC!NativeEnds(j, empty)
         \/ AC!NativeLeaves(j)
  PROVE  CopyInv'
<1>1. acJob[j] \in JobStates /\ FollowsCourse(acJob[j])
  BY DEF CopyInv, CopyTypes
<1>2. ASSUME NEW yes \in BOOLEAN, AC!NativeAnswers(j, yes)
      PROVE  CopyInv'
  <2> DEFINE r == [[acJob[j] EXCEPT !.call = IF yes THEN "yes" ELSE "no"]
                     EXCEPT !.run = IF yes THEN "new" ELSE "none"]
  <2>1. /\ acJob' = [acJob EXCEPT ![j] = r] /\ acJob[j].call = "asked"
        /\ UNCHANGED <<acCancels, acCopying, acEmptied, acCancelRef>>
    BY <1>2 DEF AC!NativeAnswers, AC!page
  <2>2. acJob[j].run = "none" /\ acJob[j].chan = <<>> /\ acJob[j].by # "none"
    BY <1>1, <2>1, FreeFacts DEF FollowsCourse
  <2>3. /\ r \in JobStates /\ r.by = acJob[j].by /\ r.call \in {"yes", "no"}
        /\ r.run \in {"new", "none"} /\ r.chan = <<>>
    BY <1>1, <2>2 DEF JobStates
  <2>4. FollowsCourse(r)
    BY <2>2, <2>3, ChanFacts DEF FollowsCourse
  <2>5. ~Closes(acJob[j])
    BY <2>2 DEF Closes
  <2>6. acCancelRef' \in AC!Jobs \cup {0} /\ acCopying' \in BOOLEAN /\ acEmptied' \in BOOLEAN
    BY <2>1 DEF CopyInv, CopyTypes
  <2> HIDE DEF r
  <2> QED BY <2>1, <2>3, <2>4, <2>5, <2>6, OneJobInv
<1>3. ASSUME AC!NativeStarts(j)
      PROVE  CopyInv'
  <2> DEFINE r == [[acJob[j] EXCEPT !.run = "on"] EXCEPT !.chan = Append(acJob[j].chan, "start")]
  <2>1. /\ acJob' = [acJob EXCEPT ![j] = r] /\ acJob[j].run = "new"
        /\ UNCHANGED <<acCancels, acCopying, acEmptied, acCancelRef>>
    BY <1>3 DEF AC!NativeStarts, AC!page
  <2>2. /\ acJob[j].chan = <<>> /\ acJob[j].by # "none"
        /\ acJob[j].call \notin {"asked", "cancel"}
    BY <1>1, <2>1, FreeFacts DEF FollowsCourse
  <2>3. Append(acJob[j].chan, "start") = <<"start">> /\ <<"start">> \in Chans
    BY <2>2, ChanFacts
  <2>4. /\ r \in JobStates /\ r.by = acJob[j].by /\ r.call = acJob[j].call
        /\ r.run = "on" /\ r.chan = <<"start">>
    BY <1>1, <2>3 DEF JobStates
  <2> HIDE DEF r
  <2>5. FollowsCourse(r) /\ Closes(r)
    <3>1. FollowsCourse(r)
      BY <2>2, <2>4, ChanFacts DEF FollowsCourse
    <3> QED BY <2>4, <3>1, ClosesFacts
  <2>6. acCancelRef' \in AC!Jobs \cup {0} /\ acCopying' \in BOOLEAN /\ acEmptied' \in BOOLEAN
    BY <2>1 DEF CopyInv, CopyTypes
  <2> QED BY <2>1, <2>2, <2>4, <2>5, <2>6, OneJobInv
<1>4. ASSUME NEW m \in Endings, acJob[j].run \in {"new", "on"},
             acJob' = [acJob EXCEPT ![j] = [[acJob[j] EXCEPT !.run = "done"]
                                              EXCEPT !.chan = Append(acJob[j].chan, m)]],
             UNCHANGED <<acCancels, acCopying, acEmptied, acCancelRef>>
      PROVE  CopyInv'
  <2> DEFINE r == [[acJob[j] EXCEPT !.run = "done"] EXCEPT !.chan = Append(acJob[j].chan, m)]
  <2>2. /\ acJob[j].chan \in {<<>>, <<"start">>} /\ acJob[j].by # "none"
        /\ acJob[j].call \notin {"asked", "cancel"}
    BY <1>1, <1>4, FreeFacts DEF FollowsCourse
  <2>3. Append(acJob[j].chan, m) \in {<<m>>, <<"start", m>>} /\ Append(acJob[j].chan, m) \in Chans
    <3>1. CASE acJob[j].chan = <<>>
      BY <3>1, ChanFacts
    <3>2. CASE acJob[j].chan = <<"start">>
      BY <3>2, ChanFacts
    <3> QED BY <2>2, <3>1, <3>2
  <2>4. /\ r \in JobStates /\ r.by = acJob[j].by /\ r.call = acJob[j].call
        /\ r.run = "done" /\ r.chan \in {<<m>>, <<"start", m>>}
    BY <1>1, <2>3 DEF JobStates
  <2>1. acJob' = [acJob EXCEPT ![j] = r] /\ UNCHANGED <<acCancels, acCopying, acEmptied, acCancelRef>>
    BY <1>4
  <2> HIDE DEF r
  <2>5. FollowsCourse(r) /\ Closes(r)
    <3>1. FollowsCourse(r)
      BY <2>2, <2>4, ChanFacts DEF FollowsCourse
    <3> QED BY <2>4, <3>1, ClosesFacts
  <2>6. acCancelRef' \in AC!Jobs \cup {0} /\ acCopying' \in BOOLEAN /\ acEmptied' \in BOOLEAN
    BY <2>1 DEF CopyInv, CopyTypes
  <2> QED BY <2>1, <2>2, <2>4, <2>5, <2>6, OneJobInv
<1>5. ASSUME AC!NativeFails(j)
      PROVE  CopyInv'
  BY <1>4, <1>5 DEF AC!NativeFails, AC!page, Endings
<1>6. ASSUME NEW empty \in BOOLEAN, AC!NativeEnds(j, empty)
      PROVE  CopyInv'
  <2>1. CASE empty
    BY <1>4, <1>6, <2>1 DEF AC!NativeEnds, AC!page, Endings
  <2>2. CASE ~empty
    BY <1>4, <1>6, <2>2 DEF AC!NativeEnds, AC!page, Endings
  <2> QED BY <2>1, <2>2
<1>7. ASSUME AC!NativeLeaves(j)
      PROVE  CopyInv'
  <2> DEFINE r == [acJob[j] EXCEPT !.run = "off"]
  <2>1. /\ acJob' = AC!Tidy([acJob EXCEPT ![j] = r], acCancelRef, acCancels)
        /\ acJob[j].run \in {"new", "done"}
        /\ UNCHANGED <<acCancels, acCopying, acEmptied, acCancelRef>>
    BY <1>7 DEF AC!NativeLeaves, AC!page
  <2>2. /\ acJob[j].by # "none" /\ acJob[j].chan # <<"start">>
        /\ acJob[j].call \notin {"asked", "cancel"}
    BY <1>1, <2>1, FreeFacts DEF FollowsCourse
  <2>3. /\ r \in JobStates /\ r.by = acJob[j].by /\ r.call = acJob[j].call
        /\ r.run = "off" /\ r.chan = acJob[j].chan
    BY <1>1 DEF JobStates
  <2> HIDE DEF r
  <2>4. FollowsCourse(r) /\ (Closes(acJob[j]) => Closes(r))
    BY <2>1, <2>2, <2>3 DEF FollowsCourse, Closes
  <2>6. acCancelRef' \in AC!Jobs \cup {0} /\ acCopying' \in BOOLEAN /\ acEmptied' \in BOOLEAN
    BY <2>1 DEF CopyInv, CopyTypes
  <2> QED BY <2>1, <2>2, <2>3, <2>4, <2>6, OneJobInv
<1> QED BY <1>2, <1>3, <1>5, <1>6, <1>7

\* The plug-in finds the copy that a cancel is about, or rejects the call.
LEMMA CopyNativeCancels ==
  ASSUME CopyInv, NEW c \in acCancels, AC!NativeCancels(c)
  PROVE  CopyInv'
<1> DEFINE found == acJob[c.job].run \in {"new", "on", "done"} /\ ~AC!Cancelled(c.job)
           d == [c EXCEPT !.at = IF found THEN "joining" ELSE "rejected"]
<1>1. /\ acJob' = acJob
      /\ acCancels' = (acCancels \ {c}) \cup {d}
      /\ UNCHANGED <<acCopying, acEmptied, acCancelRef>>
  BY DEF AC!NativeCancels, AC!page
<1>2. c \in CancelCalls
  BY DEF CopyInv, CopyTypes
<1>3. d \in CancelCalls /\ d.for = c.for
  BY <1>2 DEF CancelCalls
<1> HIDE DEF d
<1>4. CopyTypes'
  BY <1>1, <1>3 DEF CopyInv, CopyTypes
<1>5. WaitsForOne'
  BY <1>1, <1>3 DEF CopyInv, WaitsForOne
<1>6. SomeCopyCloses'
  BY <1>1 DEF CopyInv, SomeCopyCloses
<1> QED BY <1>1, <1>4, <1>5, <1>6 DEF CopyInv

\* Every step of the page, the user and the plug-in keeps the invariant.
LEMMA CopyNext ==
  ASSUME CopyInv, AC!Next \/ UNCHANGED acVars
  PROVE  CopyInv'
<1>1. ASSUME UNCHANGED <<acJob, acCopying, acEmptied, acCancelRef, acCancels>>
      PROVE  CopyInv'
  BY <1>1 DEF CopyInv, CopyTypes, WaitsForOne, SomeCopyCloses
<1>2. ASSUME AC!Page
      PROVE  CopyInv'
  <2>1. ASSUME AC!ShareEvent \/ AC!Retry
        PROVE  AC!Run /\ UNCHANGED <<acCopying, acEmptied, acCancelRef>>
    BY <2>1 DEF AC!ShareEvent, AC!Retry, AC!page
  <2> QED
    BY <1>2, <2>1, CopyRun, CopyAnswer, CopyMessage, CopyCancelAnswer DEF AC!Page
<1>3. ASSUME AC!Native
      PROVE  CopyInv'
  BY <1>3, CopyNative, CopyNativeCancels DEF AC!Native
<1>4. ASSUME AC!ShareArrives
      PROVE  CopyInv'
  BY <1>1, <1>4 DEF AC!ShareArrives
<1>5. ASSUME UNCHANGED acVars
      PROVE  CopyInv'
  BY <1>1, <1>5 DEF acVars
<1> QED
  BY <1>2, <1>3, <1>4, <1>5, CopyBrowse, CopyCancel DEF AC!Next, AC!User

\* While the copy dialog is open some copy runs or its last message is on its way,
\* unless what opened it was the last message of an empty copy: for any number of
\* copies, shares, retries and cancels that overtake the messages (useDragDrop.ts,
\* bindCopyChannel, NativeUtils.kt, CopyUtils.kt).
THEOREM DialogIsClosedByCopy == SumSpec => []DialogHasCopy
<1>1. SumInit => CopyInv
  BY CopyInit DEF SumInit
<1>2. CopyInv /\ [SumNext]_sumVars => CopyInv'
  BY CopyNext, OneMoves
<1>3. ASSUME CopyInv
      PROVE  DialogHasCopy
  <2>1. ASSUME acCopying, ~acEmptied
        PROVE  \E j \in AC!Jobs : Closes(acJob[j])
    BY <1>3, <2>1 DEF CopyInv, SomeCopyCloses
  <2>2. AC!DialogHasCopy
    BY <2>1 DEF AC!DialogHasCopy, Closes
  <2> QED BY <2>2 DEF DialogHasCopy
<1> QED
  BY <1>1, <1>2, <1>3, PTL DEF SumSpec

------------------------------------------------------------------------------
(* Files in a browser (WebPlatform)                                         *)

Known == wpFiles \cup wpDirs

\* What a path at the top can stand for: itself, or the files in it.
Of(p) == {p} \cup WP!Under(p)

\* What is selected or being read is at the top and registered.
WebSelection ==
  /\ wpSel \in Seq(WP!Top) /\ WP!IsInjective(wpSel)
  /\ \A i \in 1..Len(wpSel) : wpSel[i] \in Known
  /\ wpReading \subseteq WP!Top \cap Known

\* names holds something for each of the paths that are no longer to do, and for
\* these only, nothing twice.
Gathered(paths, todo, names) ==
  /\ Len(todo) <= Len(paths)
  /\ \A i \in 1..Len(todo) : todo[i] = paths[Len(paths) - Len(todo) + i]
  /\ WP!IsInjective(names)
  /\ \A j \in 1..Len(names) : \E i \in 1..(Len(paths) - Len(todo)) : names[j] \in Of(paths[i])
  /\ \A i \in 1..(Len(paths) - Len(todo)) : \E j \in 1..Len(names) : names[j] \in Of(paths[i])

SendRecord(r) ==
  r \in [at : {"idle", "init", "read", "engine"}, paths : Seq(WP!Top), todo : Seq(WP!Top),
         names : Seq(WP!Paths), about : {r.about}]

\* The call under way: its paths stay registered, and what it has read so far.
WebSend ==
  /\ SendRecord(wpSend)
  /\ wpSend.at # "idle" =>
       /\ wpSend.paths # <<>> /\ WP!IsInjective(wpSend.paths)
       /\ \A i \in 1..Len(wpSend.paths) : wpSend.paths[i] \in Known
       /\ Gathered(wpSend.paths, wpSend.todo, wpSend.names)
  /\ wpSend.at = "engine" => /\ wpSend.todo = <<>>
                             /\ wpSend.about[1].item_count = Len(wpSend.paths)

WebInv == WebSelection /\ WebSend

\* A path at the top is one name; a path below it begins with this name.
LEMMA PathFacts ==
  ASSUME NEW p \in WP!Top
  PROVE  /\ p \in Seq(Names) /\ Len(p) = 1
         /\ \A q \in Of(p) : /\ q \in Seq(Names \cup Inner) /\ Len(q) \in {1, 2} /\ q[1] = p[1]
                             /\ q \in WP!Paths
<1>1. PICK n \in Names : p = <<n>>
  BY DEF WP!Top
<1>2. ASSUME NEW x \in Inner
      PROVE  LET q == p \o <<x>> IN
             q \in Seq(Names \cup Inner) /\ Len(q) = 2 /\ q[1] = p[1]
  <2> DEFINE y == <<x>>
             q == p \o y
  <2>1. /\ p \in Seq(Names \cup Inner) /\ Len(p) = 1
        /\ y \in Seq(Names \cup Inner) /\ Len(y) = 1
    BY <1>1
  <2> HIDE DEF y
  <2>2. /\ q \in Seq(Names \cup Inner) /\ Len(q) = 1 + 1
        /\ \A i \in 1..(1 + 1) : q[i] = IF i <= 1 THEN p[i] ELSE y[i - 1]
    BY <2>1, ConcatProperties
  <2> HIDE DEF q
  <2>3. q \in Seq(Names \cup Inner) /\ Len(q) = 2 /\ q[1] = p[1]
    BY <2>2
  <2> QED BY <2>3 DEF q, y
<1>3. p \in WP!Paths /\ WP!Under(p) \subseteq WP!Paths
  BY DEF WP!Paths
<1>4. ASSUME NEW q \in Of(p)
      PROVE  q \in Seq(Names \cup Inner) /\ Len(q) \in {1, 2} /\ q[1] = p[1] /\ q \in WP!Paths
  <2>1. CASE q = p
    BY <1>1, <1>3, <2>1
  <2>2. CASE q \in WP!Under(p)
    <3>1. PICK x \in Inner : q = p \o <<x>>
      BY <2>2 DEF WP!Under
    <3>2. q \in Seq(Names \cup Inner) /\ Len(q) = 2 /\ q[1] = p[1]
      BY <1>2, <3>1
    <3> QED BY <1>3, <2>2, <3>2
  <2> QED BY <2>1, <2>2 DEF Of
<1> QED BY <1>1, <1>4

\* Two paths at the top have nothing in common.
LEMMA TopsAreApart ==
  ASSUME NEW p \in WP!Top, NEW r \in WP!Top, NEW q \in Of(p), q \in Of(r)
  PROVE  p = r
<1>1. /\ p \in Seq(Names) /\ r \in Seq(Names) /\ Len(p) = 1 /\ Len(r) = 1
      /\ q[1] = p[1] /\ q[1] = r[1]
  BY PathFacts
<1>2. \A i \in 1..Len(p) : p[i] = r[i]
  <2>1. \A i \in 1..1 : i = 1
    OBVIOUS
  <2> QED BY <1>1, <2>1
<1> QED BY <1>1, <1>2, SeqEqual

LEMMA TopIsPrefix ==
  ASSUME NEW p \in WP!Top, NEW q \in Of(p)
  PROVE  WP!IsPrefix(p, q)
<1>1. /\ p \in Seq(Names \cup Inner) /\ Len(p) = 1
      /\ q \in Seq(Names \cup Inner) /\ Len(q) \in {1, 2} /\ q[1] = p[1]
  BY PathFacts
<1>2. /\ SubSeq(p, 1, 1) \in Seq(Names \cup Inner) /\ Len(SubSeq(p, 1, 1)) = 1
      /\ SubSeq(p, 1, 1)[1] = p[1]
  BY <1>1, SubSeqProperties
<1>3. /\ SubSeq(q, 1, 1) \in Seq(Names \cup Inner) /\ Len(SubSeq(q, 1, 1)) = 1
      /\ SubSeq(q, 1, 1)[1] = q[1]
  BY <1>1, SubSeqProperties
<1>4. SubSeq(p, 1, 1) = SubSeq(q, 1, 1)
  BY <1>1, <1>2, <1>3, SeqEqual
<1> QED BY <1>1, <1>4 DEF WP!IsPrefix

\* A folder has finitely many files.
LEMMA OfIsFinite ==
  ASSUME NEW p, NEW S \in SUBSET Of(p)
  PROVE  IsFiniteSet(S)
<1> DEFINE f == [x \in Inner |-> p \o <<x>>]
<1>1. f \in Surjection(Inner, WP!Under(p))
  BY DEF Surjection, WP!Under
<1>2. IsFiniteSet(WP!Under(p))
  BY <1>1, FS_Surjection, MCPickersAssumption
<1>3. IsFiniteSet(Of(p))
  BY <1>2, FS_Union, FS_Singleton DEF Of
<1> QED BY <1>3, FS_Subset

\* WebPlatform counts as this module does.
LEMMA SameCardinality == \A S : WP!Cardinality(S) = Cardinality(S)
  BY Zenon DEF WP!Cardinality, Cardinality

\* A finite set is enumerated without repetition and completely.
LEMMA SetToSeqFacts ==
  ASSUME NEW S, IsFiniteSet(S)
  PROVE  /\ WP!SetToSeq(S) \in Seq(S) /\ WP!IsInjective(WP!SetToSeq(S))
         /\ S # {} => Len(WP!SetToSeq(S)) > 0
<1>1. WP!SetToSeq(S) = CHOOSE f \in [1..WP!Cardinality(S) -> S] : WP!IsInjective(f)
  BY DEF WP!SetToSeq
<1>2. Cardinality(S) \in Nat /\ \E f \in [1..Cardinality(S) -> S] : WP!IsInjective(f)
  BY FS_CardinalityType DEF WP!IsInjective, ExistsBijection, Bijection, Injection, IsInjective
<1>3. WP!SetToSeq(S) \in [1..Cardinality(S) -> S] /\ WP!IsInjective(WP!SetToSeq(S))
  BY <1>1, <1>2, SameCardinality
<1>4. WP!SetToSeq(S) \in Seq(S) /\ Len(WP!SetToSeq(S)) = Cardinality(S)
  BY <1>2, <1>3
<1>5. S # {} => Cardinality(S) > 0
  BY <1>2, FS_EmptySet
<1> QED BY <1>3, <1>4, <1>5

\* The payload of a share begins with everything to do.
LEMMA GatherFirst ==
  ASSUME NEW paths \in Seq(WP!Top)
  PROVE  Gathered(paths, paths, <<>>)
<1>1. Len(paths) \in Nat /\ Len(paths) - Len(paths) = 0 /\ \A i \in 1..Len(paths) : 0 + i = i
  OBVIOUS
<1>2. WP!IsInjective(<<>>) /\ Len(<<>>) = 0
  BY DEF WP!IsInjective
<1> QED BY <1>1, <1>2 DEF Gathered

\* What the next path stands for is new, as the tops are apart.
LEMMA GatherNext ==
  ASSUME NEW paths \in Seq(WP!Top), WP!IsInjective(paths),
         NEW todo \in Seq(WP!Top), todo # <<>>,
         NEW names \in Seq(WP!Paths), Gathered(paths, todo, names),
         NEW found \in SUBSET Of(Head(todo)), found # {}
  PROVE  LET more == names \o WP!SetToSeq(found) IN
         more \in Seq(WP!Paths) /\ Gathered(paths, Tail(todo), more)
<1> DEFINE t == WP!SetToSeq(found)
           more == names \o t
           k == Len(paths) - Len(todo) + 1
<1>1. /\ Len(paths) \in Nat /\ Len(todo) \in Nat \ {0} /\ Len(todo) <= Len(paths)
      /\ Tail(todo) \in Seq(WP!Top) /\ Len(Tail(todo)) = Len(todo) - 1
      /\ \A i \in 1..Len(Tail(todo)) : Tail(todo)[i] = todo[i + 1]
  BY HeadTailProperties, EmptySeq, LenProperties DEF Gathered
<1>2. /\ k \in 1..Len(paths) /\ Head(todo) = paths[k] /\ paths[k] \in WP!Top
      /\ Len(paths) - Len(Tail(todo)) = k /\ Len(paths) - Len(todo) = k - 1
  <2>1. Head(todo) = todo[1] /\ 1 \in 1..Len(todo)
    BY <1>1
  <2>2. todo[1] = paths[Len(paths) - Len(todo) + 1]
    BY <2>1 DEF Gathered
  <2> QED BY <1>1, <2>1, <2>2, ElementOfSeq
<1>3. /\ t \in Seq(found) /\ WP!IsInjective(t) /\ Len(t) > 0
  BY OfIsFinite, SetToSeqFacts
<1> HIDE DEF t, k
<1>4. /\ found \subseteq Of(paths[k]) /\ found \subseteq WP!Paths
      /\ t \in Seq(WP!Paths) /\ Len(t) \in Nat /\ \A j \in 1..Len(t) : t[j] \in Of(paths[k])
  <2>1. found \subseteq Of(paths[k]) /\ found \subseteq WP!Paths
    BY <1>2, PathFacts
  <2> QED BY <1>3, <2>1, SeqMonotonic, ElementOfSeq, LenProperties
<1>5. /\ more \in Seq(WP!Paths) /\ Len(more) = Len(names) + Len(t) /\ Len(names) \in Nat
      /\ \A i \in 1..(Len(names) + Len(t)) : more[i] = IF i <= Len(names) THEN names[i] ELSE t[i - Len(names)]
  BY <1>4, ConcatProperties
<1> HIDE DEF more
<1>6. \A j \in 1..Len(names) : \E i \in 1..(k - 1) : names[j] \in Of(paths[i])
  BY <1>2 DEF Gathered
<1>7. \A i \in 1..(k - 1) : \E j \in 1..Len(names) : names[j] \in Of(paths[i])
  BY <1>2 DEF Gathered
<1>8. \A i \in 1..Len(names), j \in 1..Len(t) : names[i] # t[j]
  <2>1. SUFFICES ASSUME NEW i \in 1..Len(names), NEW j \in 1..Len(t), names[i] = t[j]
                 PROVE  FALSE
    OBVIOUS
  <2>2. PICK m \in 1..(k - 1) : names[i] \in Of(paths[m])
    BY <1>6
  <2>3. names[i] \in Of(paths[k])
    BY <1>4, <2>1
  <2>4. m \in 1..Len(paths) /\ m # k /\ paths[m] \in WP!Top
    BY <1>1, <1>2, ElementOfSeq
  <2>5. paths[m] = paths[k]
    BY <1>2, <2>2, <2>3, <2>4, TopsAreApart
  <2> QED BY <1>2, <2>4, <2>5 DEF WP!IsInjective
<1>9. WP!IsInjective(more)
  <2>1. ASSUME NEW i \in 1..Len(more), NEW j \in 1..Len(more), more[i] = more[j]
        PROVE  i = j
    <3>1. CASE i <= Len(names) /\ j <= Len(names)
      <4>1. i \in DOMAIN names /\ j \in DOMAIN names /\ names[i] = names[j]
        BY <1>5, <2>1, <3>1
      <4> QED BY <4>1 DEF Gathered, WP!IsInjective
    <3>2. CASE i > Len(names) /\ j > Len(names)
      <4>1. i - Len(names) \in 1..Len(t) /\ j - Len(names) \in 1..Len(t)
            /\ t[i - Len(names)] = t[j - Len(names)]
        BY <1>4, <1>5, <2>1, <3>2
      <4>2. i - Len(names) = j - Len(names)
        BY <1>3, <1>4, <4>1 DEF WP!IsInjective
      <4> QED BY <1>5, <4>2
    <3>3. CASE i <= Len(names) /\ j > Len(names)
      <4>1. /\ i \in 1..Len(names) /\ more[i] = names[i]
            /\ j - Len(names) \in 1..Len(t) /\ more[j] = t[j - Len(names)]
        BY <1>4, <1>5, <3>3
      <4> QED BY <1>8, <2>1, <4>1
    <3>4. CASE i > Len(names) /\ j <= Len(names)
      <4>1. /\ j \in 1..Len(names) /\ more[j] = names[j]
            /\ i - Len(names) \in 1..Len(t) /\ more[i] = t[i - Len(names)]
        BY <1>4, <1>5, <3>4
      <4> QED BY <1>8, <2>1, <4>1
    <3> QED BY <1>5, <3>1, <3>2, <3>3, <3>4
  <2> QED BY <1>5, <2>1 DEF WP!IsInjective
<1>10. \A i \in 1..Len(Tail(todo)) : Tail(todo)[i] = paths[k + i]
  <2>1. SUFFICES ASSUME NEW i \in 1..Len(Tail(todo))
                 PROVE  Tail(todo)[i] = paths[k + i]
    OBVIOUS
  <2>2. i + 1 \in 1..Len(todo) /\ Len(paths) - Len(todo) + (i + 1) = k + i
    BY <1>1, <1>2
  <2> QED BY <1>1, <2>2 DEF Gathered
<1>11. \A j \in 1..Len(more) : \E i \in 1..k : more[j] \in Of(paths[i])
  <2>1. SUFFICES ASSUME NEW j \in 1..Len(more)
                 PROVE  \E i \in 1..k : more[j] \in Of(paths[i])
    OBVIOUS
  <2>2. CASE j <= Len(names)
    <3>1. j \in 1..Len(names) /\ more[j] = names[j]
      BY <1>5, <2>2
    <3>2. PICK i \in 1..(k - 1) : names[j] \in Of(paths[i])
      BY <1>6, <3>1
    <3>3. i \in 1..k
      BY <1>2
    <3> QED BY <3>1, <3>2, <3>3
  <2>3. CASE j > Len(names)
    <3>1. j - Len(names) \in 1..Len(t) /\ more[j] = t[j - Len(names)]
      BY <1>4, <1>5, <2>3
    <3>2. k \in 1..k
      BY <1>2
    <3> QED BY <1>4, <3>1, <3>2
  <2> QED BY <1>5, <2>2, <2>3
<1>12. \A i \in 1..k : \E j \in 1..Len(more) : more[j] \in Of(paths[i])
  <2>1. SUFFICES ASSUME NEW i \in 1..k
                 PROVE  \E j \in 1..Len(more) : more[j] \in Of(paths[i])
    OBVIOUS
  <2>2. CASE i = k
    <3>1. 1 \in 1..Len(t) /\ t[1] \in Of(paths[k])
      BY <1>3, <1>4
    <3>2. PICK m \in 1..(Len(names) + Len(t)) : m > Len(names) /\ m - Len(names) = 1
      <4>1. /\ Len(names) + 1 \in 1..(Len(names) + Len(t)) /\ Len(names) + 1 > Len(names)
            /\ (Len(names) + 1) - Len(names) = 1
        BY <1>4, <1>5, <3>1
      <4> QED BY <4>1
    <3>3. more[m] = t[m - Len(names)]
      BY <1>5, <3>2, SMTT(30)
    <3> QED BY <1>5, <2>2, <3>1, <3>2, <3>3
  <2>3. CASE i # k
    <3>1. i \in 1..(k - 1)
      BY <1>2, <2>3
    <3>2. PICK j \in 1..Len(names) : names[j] \in Of(paths[i])
      BY <1>7, <3>1
    <3>3. j \in 1..Len(more) /\ more[j] = names[j]
      BY <1>4, <1>5
    <3> QED BY <3>2, <3>3
  <2> QED BY <2>2, <2>3
<1>13. Gathered(paths, Tail(todo), more)
  <2>1. Len(Tail(todo)) <= Len(paths)
    BY <1>1
  <2> QED BY <1>2, <1>9, <1>10, <1>11, <1>12, <2>1 DEF Gathered
<1> QED BY <1>5, <1>13 DEF more, t

\* What is left when one path is taken out.
LEMMA RemoveFacts ==
  ASSUME NEW s \in Seq(WP!Top), WP!IsInjective(s), NEW k \in DOMAIN s
  PROVE  LET rest == WP!RemoveAt(s, k) IN
         /\ rest \in Seq(WP!Top) /\ WP!IsInjective(rest)
         /\ \A i \in 1..Len(rest) : \E m \in 1..Len(s) : rest[i] = s[m]
<1> DEFINE l == SubSeq(s, 1, k - 1)
           r == SubSeq(s, k + 1, Len(s))
           rest == l \o r
<1>1. Len(s) \in Nat /\ k \in 1..Len(s) /\ DOMAIN s = 1..Len(s) /\ \A i \in 1..Len(s) : s[i] \in WP!Top
  OBVIOUS
<1>2. /\ l \in Seq(WP!Top) /\ Len(l) = k - 1 /\ \A i \in 1..(k - 1) : l[i] = s[i]
  BY <1>1, SubSeqProperties
<1>3. /\ r \in Seq(WP!Top) /\ Len(r) = Len(s) - k /\ \A i \in 1..(Len(s) - k) : r[i] = s[k + i]
  <2>1. \A i \in (k + 1)..Len(s) : s[i] \in WP!Top
    BY <1>1
  <2>2. /\ r \in Seq(WP!Top) /\ Len(r) = IF k + 1 <= Len(s) THEN Len(s) - (k + 1) + 1 ELSE 0
        /\ \A i \in 1..(Len(s) - (k + 1) + 1) : r[i] = s[k + 1 + i - 1]
    BY <1>1, <2>1, SubSeqProperties
  <2> HIDE DEF r
  <2>3. Len(s) - (k + 1) + 1 = Len(s) - k /\ \A i \in 1..(Len(s) - k) : k + 1 + i - 1 = k + i
    BY <1>1
  <2> QED BY <1>1, <2>2, <2>3
<1> HIDE DEF l, r
<1>4. /\ rest \in Seq(WP!Top) /\ Len(rest) = Len(s) - 1
      /\ \A i \in 1..(Len(s) - 1) : rest[i] = IF i < k THEN s[i] ELSE s[i + 1]
  <2>1. /\ rest \in Seq(WP!Top) /\ Len(rest) = Len(l) + Len(r)
        /\ \A i \in 1..(Len(l) + Len(r)) : rest[i] = IF i <= Len(l) THEN l[i] ELSE r[i - Len(l)]
    BY <1>2, <1>3, ConcatProperties
  <2> HIDE DEF rest
  <2>2. ASSUME NEW i \in 1..(Len(s) - 1)
        PROVE  rest[i] = IF i < k THEN s[i] ELSE s[i + 1]
    <3>1. CASE i < k
      BY <1>1, <1>2, <1>3, <2>1, <3>1, SMTT(30)
    <3>2. CASE ~(i < k)
      <4>1. i - (k - 1) \in 1..(Len(s) - k) /\ k + (i - (k - 1)) = i + 1
        BY <1>1, <3>2
      <4>2. rest[i] = r[i - (k - 1)]
        BY <1>1, <1>2, <1>3, <2>1, <3>2
      <4> QED BY <1>3, <3>2, <4>1, <4>2
    <3> QED BY <3>1, <3>2
  <2> QED BY <1>1, <1>2, <1>3, <2>1, <2>2
<1> HIDE DEF rest
<1>5. ASSUME NEW i \in 1..Len(rest), NEW j \in 1..Len(rest), rest[i] = rest[j]
      PROVE  i = j
  <2>1. i \in 1..(Len(s) - 1) /\ j \in 1..(Len(s) - 1)
    BY <1>4
  <2>2. \A m, n \in 1..Len(s) : s[m] = s[n] => m = n
    BY <1>1 DEF WP!IsInjective
  <2> QED BY <1>1, <1>4, <1>5, <2>1, <2>2
<1>6. WP!IsInjective(rest)
  BY <1>4, <1>5 DEF WP!IsInjective
<1>7. \A i \in 1..Len(rest) : \E m \in 1..Len(s) : rest[i] = s[m]
  <2>1. SUFFICES ASSUME NEW i \in 1..Len(rest)
                 PROVE  \E m \in 1..Len(s) : rest[i] = s[m]
    OBVIOUS
  <2>2. i \in 1..Len(s) /\ i + 1 \in 1..Len(s) /\ i \in 1..(Len(s) - 1)
    BY <1>1, <1>4
  <2> QED BY <1>4, <2>2
<1> QED BY <1>4, <1>6, <1>7 DEF WP!RemoveAt, rest, l, r

\* No call is under way.
LEMMA NoSendFacts ==
  /\ SendRecord(WP!NoSend) /\ WP!NoSend.at = "idle"
  /\ \A paths \in Seq(WP!Top) :
       LET r == [WP!NoSend EXCEPT !.at = "init", !.paths = paths, !.todo = paths] IN
       /\ SendRecord(r) /\ r.at = "init" /\ r.paths = paths /\ r.todo = paths /\ r.names = <<>>
<1>1. <<>> \in Seq(WP!Top) /\ <<>> \in Seq(WP!Paths)
  BY EmptySeq
<1>2. SendRecord(WP!NoSend) /\ WP!NoSend.at = "idle"
  BY <1>1 DEF SendRecord, WP!NoSend
<1>3. ASSUME NEW paths \in Seq(WP!Top)
      PROVE  LET r == [WP!NoSend EXCEPT !.at = "init", !.paths = paths, !.todo = paths] IN
             /\ SendRecord(r) /\ r.at = "init" /\ r.paths = paths /\ r.todo = paths
             /\ r.names = <<>>
  <2>1. WP!NoSend.names = <<>>
    BY DEF WP!NoSend
  <2> QED BY <1>2, <2>1 DEF SendRecord
<1> QED BY <1>2, <1>3

LEMMA WebInit ==
  ASSUME WP!Init
  PROVE  WebInv
<1>1. wpSel = <<>> /\ wpReading = {} /\ wpSend = WP!NoSend
  BY DEF WP!Init
<1>2. WP!IsInjective(<<>>) /\ <<>> \in Seq(WP!Top) /\ Len(<<>>) = 0
  BY DEF WP!IsInjective
<1>3. WebSelection
  BY <1>1, <1>2 DEF WebSelection
<1>4. WebSend
  BY <1>1, NoSendFacts DEF WebSend
<1> QED BY <1>3, <1>4 DEF WebInv

\* A registered path stays registered, as a file or as a folder: a call under way
\* keeps what it needs.
LEMMA SendUndisturbed ==
  ASSUME WebSend, Known \subseteq Known', UNCHANGED wpSend
  PROVE  WebSend'
  BY DEF WebSend, Known

LEMMA SendEnds ==
  ASSUME wpSend' = WP!NoSend
  PROVE  WebSend'
  BY NoSendFacts DEF WebSend

\* A path is added once.
LEMMA AddFacts ==
  ASSUME WebSelection, NEW p \in WP!Top, WP!Add(p), p \in Known', Known \subseteq Known',
         wpReading' \subseteq wpReading
  PROVE  WebSelection'
<1>0. /\ wpSel \in Seq(WP!Top) /\ WP!IsInjective(wpSel) /\ Len(wpSel) \in Nat
      /\ \A i \in 1..Len(wpSel) : wpSel[i] \in Known'
      /\ wpReading' \subseteq WP!Top \cap Known'
  BY DEF WebSelection
<1>1. CASE p \in WP!ToSet(wpSel)
  <2>1. wpSel' = wpSel
    BY <1>1 DEF WP!Add
  <2> QED BY <1>0, <2>1 DEF WebSelection
<1>2. CASE p \notin WP!ToSet(wpSel)
  <2>1. wpSel' = Append(wpSel, p)
    BY <1>2 DEF WP!Add
  <2>2. /\ wpSel' \in Seq(WP!Top) /\ Len(wpSel') = Len(wpSel) + 1
        /\ \A i \in 1..Len(wpSel) : wpSel'[i] = wpSel[i]
        /\ wpSel'[Len(wpSel) + 1] = p
    BY <1>0, <2>1
  <2>3. \A i \in 1..Len(wpSel) : wpSel[i] # p
    BY <1>2 DEF WP!ToSet
  <2>4. \A i, j \in 1..Len(wpSel) : wpSel[i] = wpSel[j] => i = j
    BY <1>0 DEF WP!IsInjective
  <2>5. \A i \in 1..Len(wpSel') : i \in 1..Len(wpSel) \/ i = Len(wpSel) + 1
    BY <1>0, <2>2
  <2>6. WP!IsInjective(wpSel')
    <3>1. \A i, j \in 1..Len(wpSel') : wpSel'[i] = wpSel'[j] => i = j
      BY <2>2, <2>3, <2>4, <2>5
    <3>2. DOMAIN wpSel' = 1..Len(wpSel')
      BY <2>2
    <3> QED BY <3>1, <3>2 DEF WP!IsInjective
  <2>7. \A i \in 1..Len(wpSel') : wpSel'[i] \in Known'
    BY <1>0, <2>2, <2>5
  <2> QED BY <1>0, <2>2, <2>6, <2>7 DEF WebSelection
<1> QED BY <1>1, <1>2

\* Files and folders are handed over.
LEMMA WebHanded ==
  ASSUME WebInv,
         \/ \E p \in WP!Top : \/ WP!PickFile(p) \/ WP!DropFolder(p)
                              \/ \E inside \in SUBSET WP!Under(p) : WP!PickFolder(p, inside)
         \/ WP!Reads
  PROVE  WebInv'
<1>0. WebSelection /\ WebSend
  BY DEF WebInv
<1>1. ASSUME NEW p \in WP!Top, WP!PickFile(p)
      PROVE  WebInv'
  <2>1. /\ Known \subseteq Known' /\ p \in Known' /\ WP!Add(p)
        /\ wpReading' = wpReading /\ wpSend' = wpSend
    BY <1>1 DEF WP!PickFile, WP!RegisterWebFiles, WP!engine, Known
  <2> QED BY <1>0, <2>1, AddFacts, SendUndisturbed DEF WebInv
<1>2. ASSUME NEW p \in WP!Top, NEW inside \in SUBSET WP!Under(p), WP!PickFolder(p, inside)
      PROVE  WebInv'
  <2>1. /\ Known \subseteq Known' /\ p \in Known' /\ WP!Add(p)
        /\ wpReading' = wpReading /\ wpSend' = wpSend
    BY <1>2 DEF WP!PickFolder, WP!engine, Known
  <2> QED BY <1>0, <2>1, AddFacts, SendUndisturbed DEF WebInv
<1>3. ASSUME NEW p \in WP!Top, WP!DropFolder(p)
      PROVE  WebInv'
  <2>1. /\ Known \subseteq Known' /\ p \in Known' /\ wpSel' = wpSel
        /\ wpReading' = {p} /\ wpSend' = wpSend
    BY <1>3 DEF WP!DropFolder, WP!RegisterWebDirectory, WP!engine, Known
  <2>2. WebSelection'
    BY <1>0, <2>1 DEF WebSelection
  <2> QED BY <1>0, <2>1, <2>2, SendUndisturbed DEF WebInv
<1>4. ASSUME NEW p \in wpReading, NEW ok \in BOOLEAN, NEW inside \in SUBSET WP!Under(p),
             WP!FolderRead(p, inside, ok)
      PROVE  WebInv'
  <2>1. p \in WP!Top /\ p \in Known
    BY <1>0 DEF WebSelection
  <2>2. Known \subseteq Known' /\ wpReading' = {} /\ wpSend' = wpSend
    BY <1>4 DEF WP!FolderRead, WP!RegisterWebFiles, WP!engine, Known
  <2>3. CASE ok
    <3>1. WP!Add(p)
      BY <1>4, <2>3 DEF WP!FolderRead
    <3> QED BY <1>0, <2>1, <2>2, <3>1, AddFacts, SendUndisturbed DEF WebInv
  <2>4. CASE ~ok
    <3>1. wpSel' = wpSel
      BY <1>4, <2>4 DEF WP!FolderRead
    <3>2. WebSelection'
      BY <1>0, <2>2, <3>1 DEF WebSelection
    <3> QED BY <1>0, <2>2, <3>2, SendUndisturbed DEF WebInv
  <2> QED BY <2>3, <2>4
<1> QED BY <1>1, <1>2, <1>3, <1>4 DEF WP!Reads

\* A path is taken out of the selection, not out of a call under way.
LEMMA WebRemoved ==
  ASSUME WebInv, NEW i \in DOMAIN wpSel, WP!RemoveSelectedPath(i)
  PROVE  WebInv'
<1>0. /\ WebSelection /\ WebSend /\ wpSel \in Seq(WP!Top) /\ WP!IsInjective(wpSel)
      /\ \A j \in 1..Len(wpSel) : wpSel[j] \in Known
  BY DEF WebInv, WebSelection
<1>1. /\ wpSel' = WP!RemoveAt(wpSel, i) /\ wpReading' = wpReading /\ Known' = Known /\ wpSend' = wpSend
  BY DEF WP!RemoveSelectedPath, WP!engine, Known
<1>2. wpSel' \in Seq(WP!Top) /\ WP!IsInjective(wpSel')
  BY <1>0, <1>1, RemoveFacts
<1>3. \A j \in 1..Len(wpSel') : \E m \in 1..Len(wpSel) : wpSel'[j] = wpSel[m]
  BY <1>0, <1>1, RemoveFacts
<1>4. WebSelection'
  BY <1>0, <1>1, <1>2, <1>3 DEF WebSelection
<1> QED BY <1>0, <1>1, <1>4, SendUndisturbed DEF WebInv

\* A call begins with the selection of this moment.
LEMMA WebSendItems ==
  ASSUME WebInv, WP!SendItems
  PROVE  WebInv'
<1>0. /\ WebSelection /\ wpSel \in Seq(WP!Top) /\ WP!IsInjective(wpSel) /\ wpSel # <<>>
      /\ \A j \in 1..Len(wpSel) : wpSel[j] \in Known
  BY DEF WebInv, WebSelection, WP!SendItems
<1>1. /\ wpSend' = [WP!NoSend EXCEPT !.at = "init", !.paths = wpSel, !.todo = wpSel]
      /\ wpSel' = wpSel /\ wpReading' = wpReading /\ Known' = Known
  BY DEF WP!SendItems, WP!store, Known
<1>2. /\ SendRecord(wpSend') /\ wpSend'.at = "init" /\ wpSend'.paths = wpSel
      /\ wpSend'.todo = wpSel /\ wpSend'.names = <<>>
  BY <1>0, <1>1, NoSendFacts
<1>3. Gathered(wpSel, wpSel, <<>>)
  BY <1>0, GatherFirst
<1>4. WebSelection'
  BY <1>0, <1>1 DEF WebSelection
<1>5. Gathered(wpSend.paths, wpSend.todo, wpSend.names)'
  BY <1>2, <1>3
<1>6. SendRecord(wpSend)'
  BY <1>2
<1>7. WebSend'
  BY <1>0, <1>1, <1>2, <1>5, <1>6 DEF WebSend
<1> QED BY <1>4, <1>7 DEF WebInv

\* The metadata counts every path, as all of them are still registered.
LEMMA MetadataFacts ==
  ASSUME NEW paths \in Seq(WP!Top), paths # <<>>,
         \A i \in 1..Len(paths) : paths[i] \in Known,
         WP!BuildWebSendMetadata(paths) # <<>>
  PROVE  WP!BuildWebSendMetadata(paths)[1].item_count = Len(paths)
<1> DEFINE of == IF Len(paths) > 1 THEN "collection"
                 ELSE IF paths[1] \in wpDirs THEN "directory" ELSE "file"
           count == IF Len(paths) > 1 THEN WP!Cardinality(WP!BuildPreviewItems(paths)) ELSE 1
           about == [type |-> of, item_count |-> count, size |-> WP!TotalSizeForPaths(paths)]
<1>1. WP!BuildWebSendMetadata(paths) = <<about>>
  BY DEF WP!BuildWebSendMetadata
<1>2. WP!BuildWebSendMetadata(paths)[1] = about
  BY <1>1
<1>3. about.item_count = count
  OBVIOUS
<1>4. Len(paths) \in Nat \ {0} /\ DOMAIN paths = 1..Len(paths)
  BY EmptySeq, LenProperties
<1>5. WP!BuildPreviewItems(paths) = 1..Len(paths)
  BY <1>4 DEF WP!BuildPreviewItems, Known
<1>6. Cardinality(1..Len(paths)) = Len(paths)
  BY <1>4, FS_Interval
<1>7. count = Len(paths)
  BY <1>4, <1>5, <1>6, SameCardinality
<1> HIDE DEF about, count
<1> QED BY <1>2, <1>3, <1>7

\* One more path is read, or the metadata is made, or the call ends.
LEMMA WebCollect ==
  ASSUME WebInv, WP!Collect
  PROVE  WebInv'
<1>0. /\ WebSelection /\ WebSend /\ SendRecord(wpSend) /\ wpSend.at \in {"init", "read"}
      /\ wpSend.paths \in Seq(WP!Top) /\ wpSend.todo \in Seq(WP!Top) /\ wpSend.names \in Seq(WP!Paths)
      /\ wpSend.paths # <<>> /\ WP!IsInjective(wpSend.paths)
      /\ \A i \in 1..Len(wpSend.paths) : wpSend.paths[i] \in Known
      /\ Gathered(wpSend.paths, wpSend.todo, wpSend.names)
  BY DEF WebInv, WebSend, SendRecord, WP!Collect
<1>1. wpSel' = wpSel /\ wpReading' = wpReading /\ Known' = Known
  BY DEF WP!Collect, WP!store, Known
<1>2. WebSelection'
  BY <1>0, <1>1 DEF WebSelection
<1>3. CASE wpSend' = WP!NoSend
  BY <1>2, <1>3, SendEnds DEF WebInv
<1>4. ASSUME wpSend.todo = <<>>, wpSend' # WP!NoSend
      PROVE  WebSend'
  <2> DEFINE about == WP!BuildWebSendMetadata(wpSend.paths)
  <2>1. about # <<>> /\ wpSend' = [wpSend EXCEPT !.at = "engine", !.about = about]
    BY <1>4 DEF WP!Collect, WP!Describe
  <2>2. about[1].item_count = Len(wpSend.paths)
    BY <1>0, <2>1, MetadataFacts
  <2> HIDE DEF about
  <2>3. /\ SendRecord(wpSend') /\ wpSend'.at = "engine" /\ wpSend'.paths = wpSend.paths
        /\ wpSend'.todo = wpSend.todo /\ wpSend'.names = wpSend.names /\ wpSend'.about = about
    BY <1>0, <2>1 DEF SendRecord
  <2>4. SendRecord(wpSend)' /\ Gathered(wpSend.paths, wpSend.todo, wpSend.names)'
    BY <1>0, <2>3
  <2> QED BY <1>0, <1>1, <1>4, <2>2, <2>3, <2>4 DEF WebSend
<1>5. ASSUME wpSend.todo # <<>>, wpSend' # WP!NoSend
      PROVE  WebSend'
  <2> DEFINE found == WP!Entries(Head(wpSend.todo))
             more == wpSend.names \o WP!SetToSeq(found)
  <2>1. /\ found # {}
        /\ wpSend' = [wpSend EXCEPT !.at = "read", !.todo = Tail(@),
                                    !.names = @ \o WP!SetToSeq(found)]
    BY <1>5 DEF WP!Collect
  <2>2. found \in SUBSET Of(Head(wpSend.todo))
    BY DEF WP!Entries, Of
  <2> HIDE DEF found
  <2>3. more \in Seq(WP!Paths) /\ Gathered(wpSend.paths, Tail(wpSend.todo), more)
    BY <1>0, <1>5, <2>1, <2>2, GatherNext
  <2>4. wpSend' = [wpSend EXCEPT !.at = "read", !.todo = Tail(wpSend.todo), !.names = more]
    BY <2>1
  <2> HIDE DEF more
  <2>5. Tail(wpSend.todo) \in Seq(WP!Top)
    BY <1>0, <1>5
  <2>6. /\ SendRecord(wpSend') /\ wpSend'.at = "read" /\ wpSend'.paths = wpSend.paths
        /\ wpSend'.todo = Tail(wpSend.todo) /\ wpSend'.names = more
    BY <1>0, <2>3, <2>4, <2>5 DEF SendRecord
  <2>7. SendRecord(wpSend)' /\ Gathered(wpSend.paths, wpSend.todo, wpSend.names)'
    BY <2>3, <2>6
  <2> QED BY <1>0, <1>1, <2>6, <2>7 DEF WebSend
<1> QED BY <1>2, <1>3, <1>4, <1>5 DEF WebInv

\* Every step of the user, the page and the browser.
LEMMA WebNext ==
  ASSUME WebInv, WP!Next \/ UNCHANGED wpVars
  PROVE  WebInv'
<1>1. ASSUME UNCHANGED <<wpSel, wpReading, wpFiles, wpDirs>>, wpSend' \in {wpSend, WP!NoSend}
      PROVE  WebInv'
  <2>1. WebSelection' /\ Known' = Known
    BY <1>1 DEF WebInv, WebSelection, Known
  <2> QED BY <1>1, <2>1, SendUndisturbed, SendEnds DEF WebInv
<1>2. ASSUME \/ \E ok \in BOOLEAN : WP!BridgeLoaded(ok) \/ WP!EngineAnswers(ok)
             \/ WP!StopSharing
             \/ UNCHANGED wpVars
      PROVE  WebInv'
  <2>1. UNCHANGED <<wpSel, wpReading, wpFiles, wpDirs>> /\ wpSend' \in {wpSend, WP!NoSend}
    BY <1>2 DEF WP!BridgeLoaded, WP!EngineAnswers, WP!StopSharing, WP!store, wpVars
  <2> QED BY <1>1, <2>1
<1> QED
  BY <1>2, WebHanded, WebRemoved, WebSendItems, WebCollect DEF WP!Next, WP!User, WP!Page

\* For any files and folders, handed over at any moment, also while a share is being
\* put together: a selected path stays known, and the engine is given something for
\* each path that was selected, nothing twice, with metadata that counts them all
\* (web-file-store.ts, web-send-items.ts, web-send-metadata.ts).
THEOREM PayloadIsComplete == SumSpec => []PayloadIsSound
<1>1. SumInit => WebInv
  BY WebInit DEF SumInit
<1>2. WebInv /\ [SumNext]_sumVars => WebInv'
  BY WebNext, OneMoves
<1>3. ASSUME WebInv
      PROVE  PayloadIsSound
  <2>1. WP!SelectedIsKnown
    BY <1>3 DEF WebInv, WebSelection, WP!SelectedIsKnown, WP!ToSet, Known
  <2>2. ASSUME wpSend.at = "engine"
        PROVE  /\ wpSend.about[1].item_count = Len(wpSend.paths)
               /\ \A p \in WP!ToSet(wpSend.paths) :
                    \E q \in WP!ToSet(wpSend.names) : WP!IsPrefix(p, q)
               /\ WP!IsInjective(wpSend.names)
    <3>1. /\ wpSend.paths \in Seq(WP!Top) /\ wpSend.names \in Seq(WP!Paths) /\ wpSend.todo = <<>>
          /\ Gathered(wpSend.paths, <<>>, wpSend.names)
          /\ wpSend.about[1].item_count = Len(wpSend.paths)
      BY <1>3, <2>2 DEF WebInv, WebSend, SendRecord
    <3>2. /\ Len(wpSend.paths) - Len(<<>>) = Len(wpSend.paths)
          /\ DOMAIN wpSend.paths = 1..Len(wpSend.paths) /\ DOMAIN wpSend.names = 1..Len(wpSend.names)
      BY <3>1
    <3>3. ASSUME NEW p \in WP!ToSet(wpSend.paths)
          PROVE  \E q \in WP!ToSet(wpSend.names) : WP!IsPrefix(p, q)
      <4>1. PICK i \in 1..Len(wpSend.paths) : p = wpSend.paths[i]
        BY <3>2 DEF WP!ToSet
      <4>2. PICK j \in 1..Len(wpSend.names) : wpSend.names[j] \in Of(p)
        BY <3>1, <3>2, <4>1 DEF Gathered
      <4>3. p \in WP!Top /\ wpSend.names[j] \in WP!ToSet(wpSend.names)
        BY <3>1, <3>2, <4>1, ElementOfSeq DEF WP!ToSet
      <4> QED BY <4>2, <4>3, TopIsPrefix
    <3> QED BY <3>1, <3>3 DEF Gathered
  <2> QED BY <2>1, <2>2 DEF PayloadIsSound, WP!PayloadIsComplete
<1> QED
  BY <1>1, <1>2, <1>3, PTL DEF SumSpec

===============================================================================
