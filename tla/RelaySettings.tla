---------------------------- MODULE RelaySettings ----------------------------
(***************************************************************************)
(* The relay settings: the persisted part of store/app-setting.ts, the     *)
(* page that edits and tests them (relay-settings.tsx), the guard that asks*)
(* before the settings are left (relay-change-guard.tsx), the status button*)
(* in the footer (RelayStatusButton.tsx) and the argument every command of *)
(* the engine is given (lib/relay-config.ts).                              *)
(*                                                                         *)
(* A URL is one of four kinds, which is all that validation tells apart:   *)
(* "blank" (only spaces), "https", "http" (loopback, in cleartext) and     *)
(* "bad" (no URL, credentials in it, another scheme, or cleartext to       *)
(* another host).  External: the engine, which answers verify_relays and   *)
(* get_relay_status and keeps the relay of the device node.                *)
(***************************************************************************)
EXTENDS Naturals, Sequences, SequencesExt

CONSTANTS
  Webs,       \* subset of BOOLEAN: is the page the web build (IS_WEB)
  MaxUrls,    \* bound: rows of URLs
  MaxEdits    \* bound: edits of a setting in a behaviour

Kinds == {"blank", "https", "http", "bad"}
Modes == {"default", "custom", "disabled"}
Fallbacks == {"strict", "public"}

VARIABLES
  web,        \* IS_WEB; never changes
  app,        \* relayMode, relayUrls, relayAuthToken (set or not), relayFallback
  page,       \* the settings: open, blocked, mode and fallback on arrival
  testing,    \* isTesting, and what the test under way was started with
  verdict,    \* verifyResults, per kind of URL
  status,     \* the status button: isLoading, status is that of the settings
  asked,      \* get_relay_status calls under way: TRUE for one not cancelled
  nodeRelay,  \* external: what the device node was last configured with
  edits       \* bound: edits made

vars == <<web, app, page, testing, verdict, status, asked, nodeRelay, edits>>

------------------------------------------------------------------------------
(* lib/relay-config.ts and lib/relay-url-validation.ts                      *)

IsValidRelayUrl(kind) == kind \in {"https", "http"}

Trimmed(urls) == SelectSeq(urls, LAMBDA u : u # "blank")

EffectiveRelayMode(mode) == IF web /\ mode = "disabled" THEN "default" ELSE mode

\* URLs and token are for custom mode only; the web cannot do without relays.
BuildRelayConfigArg(a) ==
  LET mode == EffectiveRelayMode(a.mode)
      custom == mode = "custom"
  IN  [mode |-> mode, urls |-> IF custom THEN Trimmed(a.urls) ELSE <<>>,
       token |-> custom /\ a.token, fallback |-> a.fallback]

NoTest == [busy |-> FALSE, custom |-> FALSE, urls |-> {}, token |-> FALSE]

\* The application starts with what was persisted, on the start page.
Init ==
  /\ web \in Webs
  /\ app \in [mode : Modes, urls : {<<>>}, token : {FALSE}, fallback : Fallbacks]
  /\ page = [open |-> FALSE, blocked |-> FALSE, mode |-> app.mode, fallback |-> app.fallback]
  /\ testing = NoTest
  /\ verdict = [k \in Kinds |-> "none"]
  /\ status = [loading |-> TRUE, current |-> FALSE]
  /\ asked = {TRUE}
  /\ nodeRelay = BuildRelayConfigArg(app)
  /\ edits = 0

------------------------------------------------------------------------------
(* Editing                                                                  *)

\* Any change of a setting makes the status button ask again; the effect's
\* clean-up cancels the call under way.
Change(a) ==
  /\ app' = a
  /\ status' = [loading |-> TRUE, current |-> FALSE]
  /\ asked' = {FALSE : b \in asked} \cup {TRUE}

Edit(a) ==
  /\ page.open /\ ~page.blocked /\ edits < MaxEdits /\ a # app
  /\ Change(a)
  /\ edits' = edits + 1
  /\ UNCHANGED <<web, page, testing, verdict, nodeRelay>>

\* The modes on the page.
ModesOffered == IF web THEN Modes \ {"disabled"} ELSE Modes

\* handleModeChange: custom starts with one empty row.
HandleModeChange(mode) ==
  /\ mode \in ModesOffered
  /\ Edit([app EXCEPT !.mode = mode,
                      !.urls = IF mode = "custom" /\ @ = <<>> THEN <<"blank">> ELSE @])

\* The rest is on the page in custom mode only.
HandleFallbackChange(value) == app.mode = "custom" /\ Edit([app EXCEPT !.fallback = value])
SetRelayAuthToken(b) == app.mode = "custom" /\ Edit([app EXCEPT !.token = b])
UpdateUrl(i, kind) == app.mode = "custom" /\ Edit([app EXCEPT !.urls[i] = kind])
AddUrl == app.mode = "custom" /\ Len(app.urls) < MaxUrls
            /\ Edit([app EXCEPT !.urls = Append(@, "blank")])

\* removeUrl: the last row is emptied, not removed.
RemoveUrl(i) ==
  /\ app.mode = "custom"
  /\ ~(Len(app.urls) = 1 /\ app.urls[i] = "blank")
  /\ Edit([app EXCEPT !.urls = IF Len(@) <= 1 THEN <<"blank">> ELSE RemoveAt(@, i)])

------------------------------------------------------------------------------
(* Testing the connection                                                   *)

\* The button of handleTestConnection.
CanTest == page.open /\ ~page.blocked /\ ~testing.busy /\ app.mode # "disabled"

\* verifyCustomRelays up to its calls, one per distinct URL: none without a URL,
\* with an invalid one, or with a token and a URL in cleartext.
VerifyCustomRelays ==
  LET urls == ToSet(Trimmed(app.urls))
  IN  /\ CanTest /\ app.mode = "custom"
      /\ urls # {}
      /\ \A u \in urls : IsValidRelayUrl(u)
      /\ app.token => "http" \notin urls
      /\ testing' = [busy |-> TRUE, custom |-> TRUE, urls |-> urls, token |-> app.token]
      /\ verdict' = [k \in Kinds |-> IF k \in urls THEN "checking" ELSE verdict[k]]
      /\ UNCHANGED <<web, app, page, status, asked, nodeRelay, edits>>

\* Mutant of VerifyAnswer: the first call that fails ends the test.
VerifyAnswer_FailFast(good) ==
  /\ testing.busy /\ testing.custom /\ good \subseteq testing.urls
  /\ testing' = NoTest
  /\ verdict' = IF good = testing.urls
                THEN [k \in Kinds |-> IF k \in good THEN "ok" ELSE verdict[k]] ELSE verdict
  /\ UNCHANGED <<web, app, page, status, asked, nodeRelay, edits>>

\* The rest: all calls have ended, each well or not.
VerifyAnswer(good) ==
  /\ testing.busy /\ testing.custom /\ good \subseteq testing.urls
  /\ testing' = NoTest
  /\ verdict' = [k \in Kinds |-> IF k \in good THEN "ok"
                                 ELSE IF k \in testing.urls THEN "failed" ELSE verdict[k]]
  /\ UNCHANGED <<web, app, page, status, asked, nodeRelay, edits>>

\* handleTestConnection in default mode.
TestDefault ==
  /\ CanTest /\ app.mode = "default"
  /\ testing' = [NoTest EXCEPT !.busy = TRUE]
  /\ UNCHANGED <<web, app, page, verdict, status, asked, nodeRelay, edits>>

\* Mutant of TestAnswer: setIsTesting(false) is left to the custom branch.
TestAnswer_KeepsBusy(ok) ==
  /\ testing.busy /\ ~testing.custom
  /\ testing' = testing
  /\ UNCHANGED <<web, app, page, verdict, status, asked, nodeRelay, edits>>

TestAnswer(ok) ==
  /\ testing.busy /\ ~testing.custom
  /\ testing' = NoTest
  /\ UNCHANGED <<web, app, page, verdict, status, asked, nodeRelay, edits>>

\* What a row is marked with: the verdict on its URL, whichever row that was in
\* when it was tested; an invalid URL is marked as failed, an empty row not at all.
RowMark(i) ==
  IF IsValidRelayUrl(app.urls[i]) THEN verdict[app.urls[i]]
  ELSE IF app.urls[i] = "blank" THEN "none" ELSE "failed"

------------------------------------------------------------------------------
(* Entering and leaving the settings                                        *)

\* The guard is mounted with the settings and remembers how they were; an effect
\* of the page takes "disabled" away on the web.
Enter ==
  /\ ~page.open
  /\ page' = [open |-> TRUE, blocked |-> FALSE, mode |-> app.mode, fallback |-> app.fallback]
  /\ IF web /\ app.mode = "disabled"
     THEN Change([app EXCEPT !.mode = "default"])
     ELSE UNCHANGED <<app, status, asked>>
  /\ UNCHANGED <<web, testing, verdict, nodeRelay, edits>>

\* getRelayChangeWarningType # null
Warns ==
  IF app.mode # page.mode THEN app.mode \in {"disabled", "custom"}
  ELSE app.mode = "custom" /\ app.fallback # page.fallback

Left ==
  /\ page' = [page EXCEPT !.open = FALSE, !.blocked = FALSE]
  /\ testing' = NoTest
  /\ verdict' = [k \in Kinds |-> "none"]

\* Leaving without a warning is not looked at; otherwise the blocker asks.
Leave ==
  /\ page.open /\ ~page.blocked
  /\ IF Warns THEN page' = [page EXCEPT !.blocked = TRUE] /\ UNCHANGED <<testing, verdict>>
     ELSE Left
  /\ UNCHANGED <<web, app, status, asked, nodeRelay, edits>>

CancelLeave ==
  /\ page.blocked
  /\ page' = [page EXCEPT !.blocked = FALSE]
  /\ UNCHANGED <<web, app, testing, verdict, status, asked, nodeRelay, edits>>

\* confirmLeave: the node is reconfigured, if there is one and it is ready.
ConfirmLeave(ready) ==
  /\ page.blocked
  /\ Left
  /\ IF ready /\ ~web
     THEN nodeRelay' = BuildRelayConfigArg(app)
     ELSE UNCHANGED nodeRelay
  /\ UNCHANGED <<web, app, status, asked, edits>>

------------------------------------------------------------------------------
(* The status button                                                        *)

\* Mutant of StatusAnswer: a cancelled call still sets the status.
StatusAnswer_Any(fresh) ==
  /\ fresh \in asked
  /\ asked' = asked \ {fresh}
  /\ status' = [loading |-> FALSE, current |-> fresh]
  /\ UNCHANGED <<web, app, page, testing, verdict, nodeRelay, edits>>

\* get_relay_status answers, well or not.
StatusAnswer(fresh) ==
  /\ fresh \in asked
  /\ asked' = asked \ {fresh}
  /\ status' = IF fresh THEN [loading |-> FALSE, current |-> TRUE] ELSE status
  /\ UNCHANGED <<web, app, page, testing, verdict, nodeRelay, edits>>

------------------------------------------------------------------------------

Next ==
  \/ \E m \in Modes : HandleModeChange(m)
  \/ \E f \in Fallbacks : HandleFallbackChange(f)
  \/ \E b \in BOOLEAN : SetRelayAuthToken(b) \/ TestAnswer(b) \/ StatusAnswer(b) \/ ConfirmLeave(b)
  \/ \E i \in 1..Len(app.urls) : RemoveUrl(i) \/ \E k \in Kinds : UpdateUrl(i, k)
  \/ AddUrl
  \/ VerifyCustomRelays
  \/ \E good \in SUBSET testing.urls : VerifyAnswer(good)
  \/ TestDefault
  \/ Enter \/ Leave \/ CancelLeave

Spec == Init /\ [][Next]_vars

\* The engine answers a test.
Answers ==
  \/ \E good \in SUBSET testing.urls : VerifyAnswer(good)
  \/ \E ok \in BOOLEAN : TestAnswer(ok)

Fairness == WF_vars(Answers)

FairSpec == Spec /\ Fairness

------------------------------------------------------------------------------
(* Properties                                                               *)

\* A status that is not greyed out is that of the settings as they are, although
\* every keystroke asks anew and answers come in any order.
StatusIsCurrent == ~status.loading => status.current

\* A row that is marked as being checked is part of a test under way: one relay
\* that fails, or an edit during the test, leaves no row spinning.
CheckingIsUnderWay ==
  \A i \in DOMAIN app.urls : RowMark(i) = "checking" => testing.busy /\ app.urls[i] \in testing.urls

\* A test ends and the button is released.
TestEnds == testing.busy ~> ~testing.busy

==============================================================================
