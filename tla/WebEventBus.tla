------------------------------ MODULE WebEventBus ------------------------------
(***************************************************************************)
(* lib/web-event-bus.ts: the handlers of one event in a browser.  They are  *)
(* kept in a Set, which is taken out of the map when it has become empty;   *)
(* who subscribed keeps the Set it was added to, and a function that takes  *)
(* it out of there again, as often as it is called.                         *)
(*                                                                         *)
(* The callers of listen make a function for each subscription, so that a   *)
(* handler subscribes once.                                                *)
(***************************************************************************)
EXTENDS Naturals, Sequences

CONSTANT Handlers   \* listeners of the event

VARIABLES
  sets,     \* handlers of each Set the bus has made
  current,  \* index of the Set in the map, 0 when there is none
  subs,     \* the Set each handler was added to, 0 before
  gone,     \* history: handlers whose unsubscriber was called
  stale     \* history: one was called again while another Set was in the map

vars == <<sets, current, subs, gone, stale>>

Init ==
  /\ sets = <<>> /\ current = 0 /\ subs = [h \in Handlers |-> 0]
  /\ gone = {} /\ stale = FALSE

\* subscribeWebEvent: the Set is looked up, or made.
SubscribeWebEvent(h) ==
  /\ subs[h] = 0
  /\ LET i == IF current = 0 THEN Len(sets) + 1 ELSE current IN
       /\ sets' = IF current = 0 THEN Append(sets, {h}) ELSE [sets EXCEPT ![i] = @ \cup {h}]
       /\ current' = i
       /\ subs' = [subs EXCEPT ![h] = i]
  /\ UNCHANGED <<gone, stale>>

\* The unsubscriber of h was called, for the first time or again.
Called(h) ==
  /\ gone' = gone \cup {h}
  /\ stale' = (stale \/ (h \in gone /\ current \notin {0, subs[h]}))

\* Mutant of Unsubscribe: the event is taken out of the map in any case.
Unsubscribe_Drops(h) ==
  /\ subs[h] # 0
  /\ sets' = [sets EXCEPT ![subs[h]] = @ \ {h}]
  /\ current' = 0
  /\ Called(h)
  /\ UNCHANGED subs

\* What subscribeWebEvent returned, called at any time: when the Set it keeps is
\* empty, now or since long, the one in the map is taken out of it.
Unsubscribe(h) ==
  /\ subs[h] # 0
  /\ sets' = [sets EXCEPT ![subs[h]] = @ \ {h}]
  /\ current' = IF sets'[subs[h]] = {} THEN 0 ELSE current
  /\ Called(h)
  /\ UNCHANGED subs

Next ==
  \/ \E h \in Handlers : SubscribeWebEvent(h)
  \/ \E h \in Handlers : Unsubscribe(h)

Spec == Init /\ [][Next]_vars

Subscribed == {h \in Handlers : subs[h] # 0} \ gone

\* The handlers dispatchWebEvent calls.
Reached == IF current = 0 THEN {} ELSE sets[current]

\* No handler is called once it has unsubscribed, and every subscribed one is,
\* although each keeps the Set it was added to; a handler is lost only after an
\* unsubscriber was called again while the Set of others was in the map.
HandlersAreReached ==
  /\ Reached \subseteq Subscribed
  /\ ~stale => Reached = Subscribed
===============================================================================
