----------------------------- MODULE ShareReport -----------------------------
(***************************************************************************)
(* What the sender's page may rely on of the events of a share, whatever   *)
(* the provider does: the abstract specification that ProvideProgress      *)
(* implements.  A request begins and ends once; its progress only grows;   *)
(* an end of the transfer is told while no request is being served, and a  *)
(* good one once.                                                          *)
(***************************************************************************)
EXTENDS Naturals

CONSTANTS
  Requests,   \* payload requests
  Total       \* bytes of the share

VARIABLES
  serving,   \* requests being served
  ended,     \* requests that have ended, well or not
  progress,  \* bytes last told of each request
  told,      \* the end told last
  good       \* transfer-completed was told

vars == <<serving, ended, progress, told, good>>

Init ==
  /\ serving = {}
  /\ ended = {}
  /\ progress = [r \in Requests |-> 0]
  /\ told = "none"
  /\ good = FALSE

Begin(r) ==
  /\ r \notin serving \cup ended
  /\ serving' = serving \cup {r}
  /\ UNCHANGED <<ended, progress, told, good>>

TellProgress(r, bytes) ==
  /\ r \in serving
  /\ bytes >= progress[r]
  /\ progress' = [progress EXCEPT ![r] = bytes]
  /\ UNCHANGED <<serving, ended, told, good>>

\* The last request to end may tell that the transfer has failed.
End(r) ==
  /\ r \in serving
  /\ serving' = serving \ {r}
  /\ ended' = ended \cup {r}
  /\ told' \in {told} \cup (IF serving' = {} THEN {"failed"} ELSE {})
  /\ UNCHANGED <<progress, good>>

TellGoodEnd ==
  /\ serving = {} /\ ended # {}
  /\ ~good
  /\ good' = TRUE
  /\ told' = "completed"
  /\ UNCHANGED <<serving, ended, progress>>

Next ==
  \/ \E r \in Requests : Begin(r) \/ End(r)
  \/ \E r \in Requests, bytes \in 0..Total : TellProgress(r, bytes)
  \/ TellGoodEnd

Spec == Init /\ [][Next]_vars
==============================================================================
