---------------------------- MODULE EventListeners ----------------------------
(***************************************************************************)
(* How the hooks of the transfer page listen to the engine (useSender.ts,  *)
(* useReceiver.ts, usePairedDeviceEvents.ts): an effect registers one      *)
(* listener after the other, awaiting each, and its clean-up, which may    *)
(* come while one is being registered, takes away those it knows of.  An   *)
(* effect runs again whenever something it depends on has changed.         *)
(*                                                                         *)
(* External: listen() of Tauri, which registers a listener some time       *)
(* before its promise is resolved, or fails.                               *)
(***************************************************************************)
EXTENDS Naturals, Sequences

CONSTANTS
  NEvents,   \* events an effect listens to
  MaxRuns    \* bound: runs of the effect

VARIABLES
  mounted,   \* the component is on the page; its effect is the last one
  runs,      \* runs of the effect
  heard      \* external: listeners registered, by run and event

vars == <<mounted, runs, heard>>

Init == mounted = FALSE /\ runs = <<>> /\ heard = {}

------------------------------------------------------------------------------
\* The effect begins: setupListeners calls listen for the first event.
Begun(rs) ==
  Append(rs, [disposed |-> FALSE, at |-> "calling", next |-> 1, kept |-> {}])

\* Its clean-up: what was kept is unlistened.
Disposed(rs) == [rs EXCEPT ![Len(rs)].disposed = TRUE, ![Len(rs)].kept = {}]
Unheard == heard \ {<<Len(runs), e>> : e \in runs[Len(runs)].kept}

Mount ==
  /\ ~mounted /\ Len(runs) < MaxRuns
  /\ mounted' = TRUE
  /\ runs' = Begun(runs)
  /\ UNCHANGED heard

\* A dependency has changed: the clean-up, then the effect once more.
Rerun ==
  /\ mounted /\ Len(runs) < MaxRuns
  /\ runs' = Begun(Disposed(runs))
  /\ heard' = Unheard
  /\ UNCHANGED mounted

Unmount ==
  /\ mounted
  /\ mounted' = FALSE
  /\ runs' = Disposed(runs)
  /\ heard' = Unheard

\* The listener is registered; the answer is on its way.
Registered(r) ==
  /\ runs[r].at = "calling"
  /\ heard' = heard \cup {<<r, runs[r].next>>}
  /\ runs' = [runs EXCEPT ![r].at = "answered"]
  /\ UNCHANGED mounted

\* listen fails, and setupListeners with it: the rest is not registered.
ListenFails(r) ==
  /\ runs[r].at = "calling"
  /\ runs' = [runs EXCEPT ![r].at = "ended"]
  /\ UNCHANGED <<mounted, heard>>

\* The unlistener is remembered for the clean-up.
Kept(run) == [run EXCEPT !.kept = @ \cup {run.next}]

\* setupListeners goes on to the next event, also in a run that is disposed.
GoOn(run) ==
  IF run.next = NEvents THEN [run EXCEPT !.at = "ended"]
  ELSE [run EXCEPT !.at = "calling", !.next = @ + 1]

\* Mutant of Resolved: the listener is kept without looking at disposed.
Resolved_Unchecked(r) ==
  /\ runs[r].at = "answered"
  /\ runs' = [runs EXCEPT ![r] = GoOn(Kept(@))]
  /\ UNCHANGED <<mounted, heard>>

\* The await ends: the listener is kept, or taken away at once.
Resolved(r) ==
  /\ runs[r].at = "answered"
  /\ IF runs[r].disposed
     THEN /\ heard' = heard \ {<<r, runs[r].next>>}
          /\ runs' = [runs EXCEPT ![r] = GoOn(@)]
     ELSE /\ runs' = [runs EXCEPT ![r] = GoOn(Kept(@))]
          /\ UNCHANGED heard
  /\ UNCHANGED mounted

------------------------------------------------------------------------------
Next ==
  \/ Mount \/ Rerun \/ Unmount
  \/ \E r \in DOMAIN runs : Registered(r)
  \/ \E r \in DOMAIN runs : ListenFails(r)
  \/ \E r \in DOMAIN runs : Resolved(r)

Spec == Init /\ [][Next]_vars

------------------------------------------------------------------------------
(* Properties                                                               *)

\* Every listener is one that the run on the page has kept and will take away,
\* or one whose registration is still being answered: none is left behind by a
\* clean-up that came during the await (`if (disposed) unlisten()`).
ListenersAreOwned ==
  \A l \in heard :
    LET run == runs[l[1]] IN
      \/ mounted /\ l[1] = Len(runs) /\ l[2] \in run.kept
      \/ run.at = "answered" /\ l[2] = run.next
===============================================================================
