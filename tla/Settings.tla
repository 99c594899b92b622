------------------------------- MODULE Settings -------------------------------
(***************************************************************************)
(* The settings panel of the chat page (ui/components/SettingsPanel.tsx)   *)
(* and what a new document takes of it (ui/components/ThemeInit.tsx).      *)
(***************************************************************************)
EXTENDS BrowserTab

\* What a document without any settings looks like.  touched is history: the switches
\* used since the document was loaded.
Plain == [theme |-> DefaultTheme, animations |-> TRUE, compact |-> FALSE, touched |-> {}]

Or(value, default) == IF value = None THEN default ELSE value

\* initTheme, when a document is loaded: the theme, and only the theme.
initTheme == [Plain EXCEPT !.theme = Or(stored.prefs.theme, DefaultTheme)]

\* The panel, when the chat page is mounted: all three.
Panel ==
    [theme      |-> Or(stored.prefs.theme, DefaultTheme),
     animations |-> Or(stored.prefs.animations, TRUE),
     compact    |-> Or(stored.prefs.compact, FALSE)]

OnPanel == page.at = "chat" /\ "settings" \in bound.displays

UnchangedBySettings == UNCHANGED <<wire, route, tangled, bound>>

SelectTheme(t) ==
    /\ OnPanel
    /\ page' = [page EXCEPT !.panel.theme = t]
    /\ look' = [look EXCEPT !.theme = t]
    /\ stored' = [stored EXCEPT !.prefs.theme = t]
    /\ UnchangedBySettings

ToggleAnimations ==
    /\ OnPanel
    /\ LET val == ~page.panel.animations
       IN  /\ page' = [page EXCEPT !.panel.animations = val]
           /\ look' = [look EXCEPT !.animations = val, !.touched = @ \cup {"animations"}]
           /\ stored' = [stored EXCEPT !.prefs.animations = val]
    /\ UnchangedBySettings

ToggleCompact ==
    /\ OnPanel
    /\ LET val == ~page.panel.compact
       IN  /\ page' = [page EXCEPT !.panel.compact = val]
           /\ look' = [look EXCEPT !.compact = val, !.touched = @ \cup {"compact"}]
           /\ stored' = [stored EXCEPT !.prefs.compact = val]
    /\ UnchangedBySettings

\* Mutant: the classes of the document stay.
ResetSettingsKeeps ==
    /\ OnPanel
    /\ page' = [page EXCEPT !.panel = [theme |-> DefaultTheme, animations |-> TRUE,
                                       compact |-> FALSE]]
    /\ look' = [look EXCEPT !.theme = DefaultTheme]
    /\ stored' = [stored EXCEPT !.prefs = [NoPrefs EXCEPT !.theme = DefaultTheme]]
    /\ UnchangedBySettings

\* Reset All Settings removes the keys, and its selectTheme writes the theme's again.
ResetSettings ==
    /\ OnPanel
    /\ page' = [page EXCEPT !.panel = [theme |-> DefaultTheme, animations |-> TRUE,
                                       compact |-> FALSE]]
    /\ look' = [Plain EXCEPT !.touched = {"animations", "compact"}]
    /\ stored' = [stored EXCEPT !.prefs = [NoPrefs EXCEPT !.theme = DefaultTheme]]
    /\ UnchangedBySettings

SettingsNext ==
    \/ \E t \in Themes : SelectTheme(t)
    \/ ToggleAnimations \/ ToggleCompact \/ ResetSettings
===============================================================================
