------------------------------- MODULE Themes -------------------------------
(***************************************************************************)
(* The colour themes of the window (hooks/useZedThemes.js, lib/            *)
(* zedThemes.js, ThemeSelectorPanel.jsx).  The icon themes are the same    *)
(* program over other families (useZedIconThemes.js, zedIconThemes.js,     *)
(* IconThemeSelectorPanel.jsx), with one built-in family that cannot fail. *)
(*                                                                         *)
(* A family is [name, themes], its themes a sequence of ids; what a theme  *)
(* looks like is data.  A folder installed holds one family; writing the   *)
(* id of a theme, unlike writing families, is taken to find room.          *)
(***************************************************************************)
EXTENDS Naturals, Sequences, SequencesExt, FiniteSets

CONSTANTS
    BuiltIn,        \* BUILT_IN_THEME_SOURCES, a sequence of families
    Fallback,       \* FALLBACK_THEME_FAMILY, for when none of them loads
    MayFail,        \* built-in families whose request may fail
    Packs,          \* families on the user's disk, in the order of their names
    OneDark, Dark   \* themes named DEFAULT_THEME_NAME; themes that are dark

\* Families and their themes come in an order, and one without themes is no valid one.
ASSUME ThemesAssumption ==
    /\ BuiltIn \in Seq(ToSet(BuiltIn)) /\ Packs \in Seq(ToSet(Packs))
    /\ \A f \in ToSet(BuiltIn) \cup {Fallback} \cup ToSet(Packs) : f.themes \in Seq(STRING)
    /\ \A f \in ToSet(Packs) : ToSet(f.themes) # {}

VARIABLES
    store,          \* localStorage: [active, installed]
    page,           \* the hook: [builtIn, installed, active, preview, ready]
    selector,       \* the selector is open
    reading,        \* packs chosen whose files are being read
    chosen,         \* history: what the user last applied and no render lacked
    left,           \* history: another panel replaced the selector over a preview
    kept,           \* history: packs installed since the page was loaded
    unsaved         \* history: the last write of the installed families failed

themeVars == <<store, page, selector, reading, chosen, left, kept, unsaved>>

NoTheme == ""

\* The elements of s that are in S, in their order.
Those(s, S) == FlattenSeq([i \in DOMAIN s |-> IF s[i] \in S THEN <<s[i]>> ELSE <<>>])

FamilyThemes(families) == FlattenSeq([i \in DOMAIN families |-> families[i].themes])

\* flattenThemeSources over the built-in families, then the installed ones by name.
ThemesOf(p) ==
    FamilyThemes(p.builtIn \o Those(Packs, p.installed))

ThemeIds(p) == UNION {ToSet(f.themes) : f \in ToSet(p.builtIn) \cup p.installed}

Has(p, id) == id \in ThemeIds(p)

\* selectDefaultTheme
Default(themes) ==
    LET named == Those(themes, OneDark)
        dark == Those(themes, Dark)
    IN  Head(named \o dark \o themes)

ActiveTheme(p) == IF Has(p, p.active) THEN p.active ELSE Default(ThemesOf(p))
Selected(p) == IF Has(p, p.preview) THEN p.preview ELSE ActiveTheme(p)

\* The two effects that run after a render with other themes or another active id: a
\* missing choice is made good in memory only, one that names no theme of the render is
\* replaced in the storage too.
Settled(p, s) ==
    LET missing == ThemeIds(p) # {} /\ ~Has(p, p.active)
        stale == missing /\ p.active # NoTheme
        other == Default(ThemesOf(p))
    IN  [page |-> IF missing
                  THEN [p EXCEPT !.active = other, !.preview = IF stale THEN NoTheme ELSE @]
                  ELSE p,
         store |-> IF stale THEN [s EXCEPT !.active = other] ELSE s]

Render(p, s) ==
    /\ page' = Settled(p, s).page
    /\ store' = Settled(p, s).store
    /\ chosen' = IF ThemeIds(p) = {} \/ Has(p, chosen) THEN chosen ELSE NoTheme

\* useState of a page just loaded.
FreshPage(s) ==
    [builtIn |-> <<>>, installed |-> s.installed, active |-> s.active,
     preview |-> NoTheme, ready |-> FALSE]

ThemeInit ==
    /\ store = [active |-> NoTheme, installed |-> {}]
    /\ page = FreshPage(store)
    /\ selector = FALSE /\ reading = {}
    /\ chosen = NoTheme /\ left = FALSE /\ kept = {} /\ unsaved = FALSE

ReloadThemes ==
    /\ Render(FreshPage(store), store)
    /\ selector' = FALSE /\ reading' = {} /\ left' = FALSE /\ kept' = {} /\ unsaved' = FALSE

\* loadBuiltInThemeSources: those that load, or the fallback.
LoadBuiltIn(lost) ==
    LET loaded == Those(BuiltIn, ToSet(BuiltIn) \ lost)
    IN  /\ ~page.ready
        /\ Render([page EXCEPT !.ready = TRUE,
                               !.builtIn = IF loaded = <<>> THEN <<Fallback>> ELSE loaded],
                  store)
        /\ UNCHANGED <<selector, reading, left, kept, unsaved>>

-----------------------------------------------------------------------------
(* The selector                                                            *)

OpenSelector ==
    /\ ~selector /\ selector' = TRUE
    /\ UNCHANGED <<store, page, reading, chosen, left, kept, unsaved>>

\* A row hovered, focused or clicked, or reached with an arrow key.
Preview(t) ==
    /\ selector /\ Has(page, t)
    /\ page' = [page EXCEPT !.preview = t]
    /\ UNCHANGED <<store, selector, reading, chosen, left, kept, unsaved>>

\* Mutant: the theme previewed stays applied when the selector is dismissed.
CancelKeeping ==
    /\ selector /\ selector' = FALSE /\ left' = FALSE
    /\ UNCHANGED <<store, page, reading, chosen, kept, unsaved>>

\* Escape, or a press beside the selector.
CancelPreview ==
    /\ selector /\ selector' = FALSE
    /\ page' = [page EXCEPT !.preview = NoTheme]
    /\ left' = FALSE
    /\ UNCHANGED <<store, reading, chosen, kept, unsaved>>

\* A menu or a button of the bottom bar shows another panel in the centre.
Replaced ==
    /\ selector /\ selector' = FALSE
    /\ left' = (left \/ page.preview # NoTheme)
    /\ UNCHANGED <<store, page, reading, chosen, kept, unsaved>>

\* applyThemeById
ApplyById(t) ==
    /\ Has(page, t)
    /\ page' = [page EXCEPT !.active = t, !.preview = NoTheme]
    /\ store' = [store EXCEPT !.active = t]
    /\ chosen' = t /\ left' = FALSE

\* Enter
Apply ==
    /\ selector /\ selector' = FALSE
    /\ \/ ThemeIds(page) # {} /\ ApplyById(Selected(page))
       \/ ThemeIds(page) = {} /\ UNCHANGED <<store, page, chosen, left>>
    /\ UNCHANGED <<reading, kept, unsaved>>

\* A double click, which leaves the selector open.
ApplyRow(t) ==
    /\ selector /\ ApplyById(t)
    /\ UNCHANGED <<selector, reading, kept, unsaved>>

-----------------------------------------------------------------------------
(* Installing families                                                     *)

\* The button is disabled while its own panel installs; a selector opened anew has a
\* button of its own.
InstallStart(f) ==
    /\ selector /\ f \notin reading
    /\ reading' = reading \cup {f}
    /\ UNCHANGED <<store, page, selector, chosen, left, kept, unsaved>>

\* mergeInstalledSources: one family of a name.
Merged(current, next) == {g \in current : g.name # next.name} \cup {next}

\* The files are read and the families in memory by then replaced; writing them may
\* fail for want of room.
InstallDone(f, written) ==
    LET merged == Merged(page.installed, f)
    IN  /\ f \in reading /\ reading' = reading \ {f}
        /\ Render([page EXCEPT !.installed = merged],
                  IF written THEN [store EXCEPT !.installed = merged] ELSE store)
        /\ kept' = Merged(kept, f) /\ unsaved' = ~written
        /\ UNCHANGED <<selector, left>>

\* No file holds a valid family.
InstallFailed(f) ==
    /\ f \in reading /\ reading' = reading \ {f}
    /\ UNCHANGED <<store, page, selector, chosen, left, kept, unsaved>>

AllThemes == ToSet(FamilyThemes(BuiltIn \o <<Fallback>> \o Packs))

ThemeNext ==
    \/ ReloadThemes
    \/ \E lost \in SUBSET MayFail : LoadBuiltIn(lost)
    \/ OpenSelector \/ CancelPreview \/ Replaced \/ Apply
    \/ \E t \in AllThemes : Preview(t) \/ ApplyRow(t)
    \/ \E f \in ToSet(Packs) : InstallStart(f) \/ InstallFailed(f)
    \/ \E f \in ToSet(Packs), written \in BOOLEAN : InstallDone(f, written)

ThemeSpec == ThemeInit /\ [][ThemeNext]_themeVars

-----------------------------------------------------------------------------
(* Properties                                                              *)

ThemeTypeOK ==
    /\ store.active \in AllThemes \cup {NoTheme} /\ store.installed \subseteq ToSet(Packs)
    /\ page.active \in AllThemes \cup {NoTheme} /\ page.preview \in AllThemes \cup {NoTheme}
    /\ page.installed \subseteq ToSet(Packs) /\ reading \subseteq ToSet(Packs)
    /\ {selector, left, unsaved, page.ready} \subseteq BOOLEAN

(* What the user applied stays the active theme and the stored one, through loads,
   installs and previews, until a render has themes and that one is not among them; and
   it is what is shown once a selector was closed by its own means.
   [useZedThemes.js:54-89 and applyThemeById, cancelPreview] *)
ChoiceKept ==
    chosen # NoTheme =>
        /\ store.active = chosen /\ page.active = chosen
        /\ page.preview # NoTheme => selector \/ left

(* A family installed stays among the families, whatever other install ends before or
   after it, and the storage has them all unless the last write failed.
   [useZedThemes.js: installThemeFiles, mergeInstalledSources] *)
InstallsKept ==
    /\ kept \subseteq page.installed
    /\ unsaved \/ store.installed = page.installed

(* The two together: what the user chose and what the user installed.
   [useZedThemes.js] *)
ThemesKept == ChoiceKept /\ InstallsKept
=============================================================================
