----------------------------- MODULE ContextMenu -----------------------------
(***************************************************************************)
(* The Explorer context menu on Windows (context-menu-toggle.tsx): the     *)
(* persisted setting, the switch that changes it, and the sync at launch.  *)
(*                                                                         *)
(* The switch is disabled while a change is under way, but that flag lives *)
(* in the page: leaving the settings and coming back gives a switch that is*)
(* enabled while the earlier call still runs.  External: toggle_context_menu*)
(* writes the registry, or fails (no elevation, or the user refuses it).   *)
(***************************************************************************)
EXTENDS Naturals, FiniteSets

CONSTANTS
  Slots,       \* bound: toggle_context_menu calls under way
  MaxToggles,  \* bound: uses of the switch
  MaxStarts    \* bound: restarts of the application

VARIABLES
  saved,     \* windowsContextMenu in settings.json
  setting,   \* windowsContextMenu in the store; the default TRUE until hydrated
  hydrated,  \* persist.hasHydrated()
  menu,      \* external: the verb is registered
  calls,     \* calls under way: by whom, with which value, how far,
             \* and whether the page it was made from is still mounted
  page,      \* the settings: is the page open, pending, error shown
  clean,     \* history: no call failed at launch and no two calls overlapped
  toggles, starts

vars == <<saved, setting, hydrated, menu, calls, page, clean, toggles, starts>>

NoCall == [by |-> "none", value |-> FALSE, state |-> "none", mounted |-> FALSE]
Busy == {c \in Slots : calls[c].by # "none"}
Closed == [open |-> FALSE, pending |-> FALSE, error |-> FALSE]

Init ==
  /\ saved \in BOOLEAN
  /\ setting = TRUE
  /\ hydrated = FALSE
  /\ menu \in BOOLEAN
  /\ calls = [c \in Slots |-> NoCall]
  /\ page = Closed
  /\ clean = TRUE
  /\ toggles = 0
  /\ starts = 0

\* setWindowsContextMenu: the store and, through persist, the file.
SetEnabled(value) == setting' = value /\ saved' = value

\* applyContextMenu in a free slot; it overlaps any other call under way.
Apply(by, value) ==
  /\ \E c \in Slots : /\ calls[c].by = "none"
                      /\ calls' = [calls EXCEPT ![c] = [by |-> by, value |-> value,
                                                           state |-> "sent", mounted |-> TRUE]]
  /\ clean' = (clean /\ Busy = {})

\* WindowsContextMenuSync: once the settings are read, quietly.
FinishHydration ==
  /\ ~hydrated
  /\ hydrated' = TRUE
  /\ setting' = saved
  /\ Apply("sync", saved)
  /\ UNCHANGED <<saved, menu, page, toggles, starts>>

OpenSettings ==
  /\ hydrated /\ ~page.open
  /\ page' = [page EXCEPT !.open = TRUE]
  /\ UNCHANGED <<saved, setting, hydrated, menu, calls, clean, toggles, starts>>

\* Unmounting forgets pending and error; an answer finds no page to set them.
LeaveSettings ==
  /\ page.open
  /\ page' = Closed
  /\ calls' = [c \in Slots |-> [calls[c] EXCEPT !.mounted = FALSE]]
  /\ UNCHANGED <<saved, setting, hydrated, menu, clean, toggles, starts>>

HandleChange ==
  /\ page.open /\ ~page.pending
  /\ toggles < MaxToggles
  /\ toggles' = toggles + 1
  /\ page' = [page EXCEPT !.pending = TRUE, !.error = FALSE]
  /\ SetEnabled(~setting)
  /\ Apply("switch", ~setting)
  /\ UNCHANGED <<hydrated, menu, starts>>

\* External: the command writes the registry, or fails.
ToggleContextMenu(c) ==
  /\ calls[c].state = "sent"
  /\ \/ menu' = calls[c].value /\ calls' = [calls EXCEPT ![c].state = "ok"]
     \/ UNCHANGED menu /\ calls' = [calls EXCEPT ![c].state = "failed"]
  /\ UNCHANGED <<saved, setting, hydrated, page, clean, toggles, starts>>

\* Mutant of ToggleAnswer: the optimistic value is kept when the call failed.
ToggleAnswer_KeepsValue(c) ==
  /\ calls[c].by = "switch" /\ calls[c].state \in {"ok", "failed"}
  /\ page' = IF calls[c].mounted
             THEN [page EXCEPT !.pending = FALSE, !.error = calls[c].state = "failed"]
             ELSE page
  /\ calls' = [calls EXCEPT ![c] = NoCall]
  /\ UNCHANGED <<setting, saved, hydrated, menu, clean, toggles, starts>>

\* handleChange after the await: the optimistic value is taken back.
ToggleAnswer(c) ==
  /\ calls[c].by = "switch" /\ calls[c].state \in {"ok", "failed"}
  /\ IF calls[c].state = "failed" THEN SetEnabled(~calls[c].value)
                                  ELSE UNCHANGED <<setting, saved>>
  /\ page' = IF calls[c].mounted
             THEN [page EXCEPT !.pending = FALSE, !.error = calls[c].state = "failed"]
             ELSE page
  /\ calls' = [calls EXCEPT ![c] = NoCall]
  /\ UNCHANGED <<hydrated, menu, clean, toggles, starts>>

\* The sync logs a failure and leaves it at that.
SyncAnswer(c) ==
  /\ calls[c].by = "sync" /\ calls[c].state \in {"ok", "failed"}
  /\ clean' = (clean /\ calls[c].state = "ok")
  /\ calls' = [calls EXCEPT ![c] = NoCall]
  /\ UNCHANGED <<saved, setting, hydrated, menu, page, toggles, starts>>

\* The application is closed at any time; a call under way is lost, carried out
\* or not.  The next launch syncs from the file.
Restart ==
  /\ starts < MaxStarts
  /\ starts' = starts + 1
  /\ setting' = TRUE
  /\ hydrated' = FALSE
  /\ calls' = [c \in Slots |-> NoCall]
  /\ page' = Closed
  /\ clean' = TRUE
  /\ UNCHANGED <<saved, menu, toggles>>

Next ==
  \/ FinishHydration
  \/ OpenSettings
  \/ LeaveSettings
  \/ HandleChange
  \/ \E c \in Slots : ToggleContextMenu(c) \/ ToggleAnswer(c) \/ SyncAnswer(c)
  \/ Restart

Spec == Init /\ [][Next]_vars

------------------------------------------------------------------------------
\* Once nothing is under way, the menu is what the setting says: after every
\* success and every refused change of the switch, and across restarts at any
\* moment, as long as the sync at launch worked and no two calls overlapped.
MenuMatchesSetting ==
  hydrated /\ Busy = {} /\ clean => menu = setting /\ saved = setting
==============================================================================
