----------------------------- MODULE Preferences -----------------------------
(***************************************************************************)
(* Theme and language: store/theme-store.ts, types/app.ts and              *)
(* AppThemeProvider.tsx with the switches that set a theme; i18n/setup.ts, *)
(* TranslationContext.tsx and LanguageSwitcher.tsx.                        *)
(*                                                                         *)
(* A theme is applied by an effect, after the render that follows a change;*)
(* the media query's event is delivered later than the change of the       *)
(* system's preference.  The language is kept in three places: the i18n    *)
(* object, localStorage (shared by the tabs of the web build) and the state*)
(* of the provider, whose change re-renders the pages.                     *)
(***************************************************************************)
EXTENDS Naturals

CONSTANTS
  Webs,       \* subset of BOOLEAN: IS_WEB
  Languages,  \* languages there are resources of
  Unknown,    \* a stored language without resources
  MaxChanges  \* bound: changes of the theme, the system or the language

Themes == {"auto", "light", "dark", "paper", "midnight"}
NamedThemes == {"paper", "midnight"}
DarkBaseThemes == {"dark", "midnight"}

VARIABLES
  theme,      \* activeTheme
  prefers,    \* external: the system prefers dark
  root,       \* the document: dark class, data-theme
  isDark,     \* isDark of the store
  effect,     \* the effect of AppThemeProvider is due
  listening,  \* the handler of the media query is registered
  changed,    \* external: a change event is on its way
  language,   \* i18nInstance.language
  stored,     \* altsendme-language
  rendered,   \* language of the TranslationProvider
  storage,    \* another tab wrote: a storage event is on its way
  changes

themeVars == <<theme, prefers, root, isDark, effect, listening, changed>>
languageVars == <<language, stored, rendered, storage>>
vars == <<themeVars, languageVars, changes>>

\* persist's migrate: the web build has no automatic theme.
Migrated(web, saved) == IF web /\ saved = "auto" THEN "light" ELSE saved

Init ==
  /\ \E web \in Webs, saved \in Themes : theme = Migrated(web, saved)
  /\ prefers \in BOOLEAN
  /\ root = [dark |-> FALSE, named |-> "none"]
  /\ isDark = FALSE
  /\ effect = TRUE
  /\ listening = FALSE
  /\ changed = FALSE
  /\ stored \in Languages \cup {Unknown}
  /\ language = stored
  /\ rendered = stored
  /\ storage = FALSE
  /\ changes = 0

Change == changes < MaxChanges /\ changes' = changes + 1

------------------------------------------------------------------------------
(* Theme                                                                    *)

ResolveColorMode(t) == IF t = "auto" THEN prefers ELSE t \in DarkBaseThemes

ApplyTheme(t) ==
  /\ root' = [dark |-> ResolveColorMode(t), named |-> IF t \in NamedThemes THEN t ELSE "none"]
  /\ isDark' = ResolveColorMode(t)

SetTheme(t) ==
  /\ theme' = t
  /\ effect' = (effect \/ t # theme)
  /\ UNCHANGED <<prefers, root, isDark, listening, changed>>

\* The radio cards and the select of the settings.
SelectTheme == Change /\ \E t \in Themes : SetTheme(t) /\ UNCHANGED languageVars

\* The switch in the footer goes by what is shown.
ToggleTheme ==
  /\ Change
  /\ SetTheme(IF isDark THEN "light" ELSE "dark")
  /\ UNCHANGED languageVars

\* Mutant of RunEffect: the handler of an earlier theme is not removed.
RunEffect_NoCleanup ==
  /\ effect
  /\ effect' = FALSE
  /\ ApplyTheme(theme)
  /\ listening' = (listening \/ theme = "auto")
  /\ UNCHANGED <<theme, prefers, changed, languageVars, changes>>

\* Cleanup of the last effect, then the effect.
RunEffect ==
  /\ effect
  /\ effect' = FALSE
  /\ ApplyTheme(theme)
  /\ listening' = (theme = "auto")
  /\ UNCHANGED <<theme, prefers, changed, languageVars, changes>>

\* External: the system's preference changes.
SystemChanges ==
  /\ Change
  /\ prefers' = ~prefers
  /\ changed' = TRUE
  /\ UNCHANGED <<theme, root, isDark, effect, listening, languageVars>>

\* The event finds the handler, if there is one by then.
MediaEvent ==
  /\ changed
  /\ changed' = FALSE
  /\ IF listening THEN ApplyTheme("auto") ELSE UNCHANGED <<root, isDark>>
  /\ UNCHANGED <<theme, prefers, effect, listening, languageVars, changes>>

------------------------------------------------------------------------------
(* Language                                                                 *)

\* handleLanguageChange: reads the storage, and follows it.
HandleLanguageChange(inst, saved) ==
  /\ rendered' = saved
  /\ language' = IF saved # rendered /\ saved \in Languages THEN saved ELSE inst

\* Mutant of ChangeLanguage: nobody is told.
ChangeLanguage_Silent(lng) ==
  /\ stored' = lng
  /\ language' = lng
  /\ UNCHANGED rendered

\* LanguageSwitcher: changeLanguage stores it, and the event is handled at once.
ChangeLanguage(lng) ==
  /\ stored' = lng
  /\ HandleLanguageChange(lng, lng)

SelectLanguage ==
  /\ Change
  /\ \E lng \in Languages : ChangeLanguage(lng)
  /\ UNCHANGED <<themeVars, storage>>

\* The same in another tab.
OtherTab ==
  /\ Change
  /\ stored' \in Languages
  /\ storage' = TRUE
  /\ UNCHANGED <<themeVars, language, rendered>>

StorageEvent ==
  /\ storage
  /\ storage' = FALSE
  /\ HandleLanguageChange(language, stored)
  /\ UNCHANGED <<themeVars, stored, changes>>

Next ==
  \/ SelectTheme
  \/ ToggleTheme
  \/ RunEffect
  \/ SystemChanges
  \/ MediaEvent
  \/ SelectLanguage
  \/ OtherTab
  \/ StorageEvent

Spec == Init /\ [][Next]_vars

------------------------------------------------------------------------------
\* When no effect and no media event is due, the document and the switch show
\* the chosen theme, whatever the order of theme changes, changes of the system
\* and their events was.
ThemeIsApplied ==
  ~effect /\ ~changed =>
    /\ root.dark = ResolveColorMode(theme)
    /\ isDark = root.dark
    /\ root.named = IF theme \in NamedThemes THEN theme ELSE "none"

\* When no storage event is due, the pages are rendered in the language the i18n
\* object translates to, and it is the stored one, also after two tabs changed it.
LanguageIsShown == ~storage => rendered = language /\ stored = language
==============================================================================
