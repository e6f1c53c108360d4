----------------------------- MODULE WindowProofs -----------------------------
(***************************************************************************)
(* Proofs about the parts that MCWindow puts side by side: the themes, the *)
(* binary of the remote server, the backups of the projects that one       *)
(* window has had open, the key strokes, the terminal, the project tree    *)
(* and the pane of the editor; and that all of them keep their types in    *)
(* the window, tokens and text (TextProofs) included.                      *)
(***************************************************************************)
EXTENDS MCWindow, TextProofs, FiniteSetTheorems, TLAPS

-----------------------------------------------------------------------------
(* Themes                                                                  *)

Pages(p) ==
    p \in [builtIn : {p.builtIn}, installed : {p.installed}, active : {p.active},
           preview : {p.preview}, ready : BOOLEAN]
Stored(s) == s \in [active : {s.active}, installed : {s.installed}]

\* A render may have no themes while nothing is loaded; nothing can be previewed in it, or
\* Enter would close the selector with the preview on.
ThemeInv ==
    /\ Pages(page) /\ Stored(store)
    /\ reading \subseteq ToSet(Packs)
    /\ selector \in BOOLEAN /\ left \in BOOLEAN
    /\ unsaved \in BOOLEAN
    /\ ~page.ready => page.builtIn = <<>>
    /\ page.preview # NoTheme => ThemeIds(page) # {}
    /\ ChoiceKept /\ InstallsKept

\* What a render does to a page: the choice is kept if it is among the themes or there
\* are none.
LEMMA RenderKeeps ==
    ASSUME NEW p, NEW s, Pages(p), Stored(s), Render(p, s),
           chosen # NoTheme => p.active = chosen /\ s.active = chosen,
           p.preview # NoTheme => ThemeIds(p) # {}
    PROVE  /\ Pages(page') /\ Stored(store')
           /\ page'.installed = p.installed /\ store'.installed = s.installed
           /\ page'.builtIn = p.builtIn /\ page'.ready = p.ready
           /\ page'.preview \in {p.preview, NoTheme}
           /\ page'.preview # NoTheme => ThemeIds(page') # {}
           /\ chosen' # NoTheme => chosen' = chosen
           /\ chosen' # NoTheme => page'.active = chosen' /\ store'.active = chosen'
  <1>1. CASE ThemeIds(p) = {} \/ Has(p, p.active)
    <2>1. page' = p /\ store' = s
      BY <1>1 DEF Render, Settled
    <2>2. chosen' # NoTheme => chosen' = chosen
      BY DEF Render
    <2> QED BY <2>1, <2>2
  <1>2. CASE ~(ThemeIds(p) = {} \/ Has(p, p.active)) /\ p.active = NoTheme
    <2>1. page' = [p EXCEPT !.active = Default(ThemesOf(p))] /\ store' = s
      BY <1>2 DEF Render, Settled, Pages
    <2>2. chosen' = NoTheme
      BY <1>2 DEF Render
    <2>3. ThemeIds(page') = ThemeIds(p)
      BY <2>1 DEF ThemeIds, Pages
    <2> QED BY <2>1, <2>2, <2>3 DEF Pages
  <1>3. CASE ~(ThemeIds(p) = {} \/ Has(p, p.active)) /\ p.active # NoTheme
    <2>1. /\ page' = [p EXCEPT !.active = Default(ThemesOf(p)), !.preview = NoTheme]
          /\ store' = [s EXCEPT !.active = Default(ThemesOf(p))]
      BY <1>3 DEF Render, Settled
    <2>2. chosen' = NoTheme
      BY <1>3 DEF Render
    <2> QED BY <2>1, <2>2 DEF Pages, Stored
  <1> QED BY <1>1, <1>2, <1>3

LEMMA ThemeInitInv == ThemeInit => ThemeInv
  <1> SUFFICES ASSUME ThemeInit PROVE ThemeInv
    OBVIOUS
  <1>1. /\ page = [builtIn |-> <<>>, installed |-> {}, active |-> NoTheme,
                   preview |-> NoTheme, ready |-> FALSE]
        /\ store = [active |-> NoTheme, installed |-> {}]
    BY DEF ThemeInit, FreshPage
  <1>2. Pages(page) /\ Stored(store)
    BY <1>1 DEF Pages, Stored
  <1>3. ChoiceKept /\ InstallsKept
    <2>1. chosen = NoTheme /\ kept = {}
      BY DEF ThemeInit
    <2>2. store.installed = {} /\ page.installed = {}
      BY <1>1
    <2> QED BY <2>1, <2>2 DEF ChoiceKept, InstallsKept
  <1>4. reading \subseteq ToSet(Packs) /\ selector \in BOOLEAN /\ left \in BOOLEAN
    BY DEF ThemeInit
  <1>5. unsaved \in BOOLEAN
    BY DEF ThemeInit
  <1> QED BY <1>1, <1>2, <1>3, <1>4, <1>5 DEF ThemeInv

LEMMA ThemeLoads ==
    ASSUME ThemeInv,
           \/ ReloadThemes
           \/ \E lost \in SUBSET MayFail : LoadBuiltIn(lost)
    PROVE  ThemeInv'
  <1>1. CASE ReloadThemes
    <2> DEFINE p == FreshPage(store)
    <2>1. /\ Render(p, store) /\ Pages(p) /\ p.preview = NoTheme /\ p.active = store.active
          /\ p.installed = store.installed /\ p.builtIn = <<>> /\ p.ready = FALSE
      BY <1>1 DEF ReloadThemes, FreshPage, Pages
    <2>2. Stored(store) /\ (chosen # NoTheme => store.active = chosen)
      BY DEF ThemeInv, ChoiceKept
    <2> HIDE DEF p
    <2> QED BY <1>1, <2>1, <2>2, RenderKeeps DEF ThemeInv, ReloadThemes, ChoiceKept, InstallsKept
  <1>2. ASSUME NEW lost \in SUBSET MayFail, LoadBuiltIn(lost) PROVE ThemeInv'
    <2>1. PICK loaded : Render([page EXCEPT !.ready = TRUE, !.builtIn = loaded], store)
      BY <1>2 DEF LoadBuiltIn
    <2> DEFINE p == [page EXCEPT !.ready = TRUE, !.builtIn = loaded]
    <2>2. /\ Pages(p) /\ p.preview = page.preview /\ p.active = page.active
          /\ p.installed = page.installed /\ p.builtIn = loaded /\ p.ready = TRUE
      <3> DEFINE r == [page EXCEPT !.ready = TRUE]
      <3>1. /\ Pages(r) /\ r.preview = page.preview /\ r.active = page.active
            /\ r.installed = page.installed /\ r.ready = TRUE
        BY DEF ThemeInv, Pages
      <3>2. p = [r EXCEPT !.builtIn = loaded]
        OBVIOUS
      <3> HIDE DEF r, p
      <3> QED BY <3>1, <3>2 DEF Pages
    <2>3. page.preview # NoTheme => ThemeIds(p) # {}
      <3> SUFFICES ASSUME page.preview # NoTheme PROVE ThemeIds(p) # {}
        OBVIOUS
      <3>1. PICK f \in ToSet(page.builtIn) \cup page.installed : ToSet(f.themes) # {}
        BY DEF ThemeInv, ThemeIds
      <3>2. page.builtIn = <<>>
        BY <1>2 DEF ThemeInv, LoadBuiltIn
      <3>3. ToSet(<<>>) = {}
        BY DEF ToSet
      <3> QED BY <3>1, <3>2, <3>3, <2>2 DEF ThemeIds
    <2>4. Stored(store) /\ (chosen # NoTheme => page.active = chosen /\ store.active = chosen)
      BY DEF ThemeInv, ChoiceKept
    <2>5. Render(p, store)
      BY <2>1
    <2> HIDE DEF p
    <2>6. /\ Pages(page') /\ Stored(store')
          /\ page'.installed = page.installed /\ store'.installed = store.installed
          /\ page'.ready = TRUE /\ page'.preview \in {page.preview, NoTheme}
          /\ page'.preview # NoTheme => ThemeIds(page') # {}
          /\ chosen' # NoTheme => chosen' = chosen
          /\ chosen' # NoTheme => page'.active = chosen' /\ store'.active = chosen'
      BY <2>2, <2>3, <2>4, <2>5, RenderKeeps
    <2>7. UNCHANGED <<selector, reading, left, kept, unsaved>>
      BY <1>2 DEF LoadBuiltIn
    <2>8. ChoiceKept'
      BY <2>6, <2>7 DEF ThemeInv, ChoiceKept
    <2>9. InstallsKept'
      BY <2>6, <2>7 DEF ThemeInv, InstallsKept
    <2> QED BY <2>6, <2>7, <2>8, <2>9 DEF ThemeInv
  <1> QED BY <1>1, <1>2

LEMMA ThemeSelects ==
    ASSUME ThemeInv,
           \/ OpenSelector \/ CancelPreview \/ Replaced \/ Apply
           \/ \E t \in AllThemes : Preview(t) \/ ApplyRow(t)
    PROVE  ThemeInv'
  <1>1. CASE OpenSelector \/ CancelPreview \/ Replaced
    BY <1>1 DEF OpenSelector, CancelPreview, Replaced, ThemeInv, Pages, Stored, ChoiceKept,
                InstallsKept, ThemeIds
  <1>2. ASSUME NEW t, Preview(t) PROVE ThemeInv'
    <2>1. ThemeIds(page') = ThemeIds(page) /\ ThemeIds(page) # {}
      BY <1>2 DEF Preview, Has, ThemeIds, ThemeInv, Pages
    <2> QED BY <1>2, <2>1 DEF Preview, ThemeInv, Pages, Stored, ChoiceKept, InstallsKept
  <1>3. ASSUME NEW t, ApplyById(t), selector' \in BOOLEAN, UNCHANGED <<reading, kept, unsaved>>
        PROVE  ThemeInv'
    BY <1>3 DEF ApplyById, ThemeInv, Pages, Stored, ChoiceKept, InstallsKept
  <1>4. CASE Apply /\ ThemeIds(page) = {}
    BY <1>4 DEF Apply, ApplyById, ThemeInv, Pages, Stored, ChoiceKept, InstallsKept
  <1>5. Apply => selector' \in BOOLEAN
    BY DEF Apply
  <1>6. \A t : ApplyRow(t) => selector' \in BOOLEAN
    BY DEF ApplyRow, ThemeInv
  <1> QED BY <1>1, <1>2, <1>3, <1>4, <1>5, <1>6 DEF Apply, ApplyRow

LEMMA ThemeInstalls ==
    ASSUME ThemeInv,
           NEW f \in ToSet(Packs),
           InstallStart(f) \/ InstallFailed(f) \/ \E written \in BOOLEAN : InstallDone(f, written)
    PROVE  ThemeInv'
  <1>1. CASE InstallStart(f) \/ InstallFailed(f)
    BY <1>1 DEF InstallStart, InstallFailed, ThemeInv, ChoiceKept, InstallsKept
  <1>2. ASSUME NEW written \in BOOLEAN, InstallDone(f, written) PROVE ThemeInv'
    <2> DEFINE merged == Merged(page.installed, f)
               p == [page EXCEPT !.installed = merged]
               s == IF written THEN [store EXCEPT !.installed = merged] ELSE store
    <2>1. /\ Render(p, s)
          /\ reading' = reading \ {f} /\ kept' = Merged(kept, f) /\ unsaved' = ~written
          /\ UNCHANGED <<selector, left>>
      BY <1>2 DEF InstallDone
    <2>2. /\ Pages(p) /\ p.preview = page.preview /\ p.active = page.active
          /\ p.installed = merged /\ p.builtIn = page.builtIn /\ p.ready = page.ready
      BY DEF ThemeInv, Pages
    <2>3. Stored(s) /\ s.active = store.active /\ (written => s.installed = merged)
      BY DEF ThemeInv, Stored
    <2>4. f \in merged /\ Merged(kept, f) \subseteq merged
      BY DEF Merged, ThemeInv, InstallsKept
    <2>5. ThemeIds(p) # {}
      <3>1. ToSet(f.themes) # {}
        BY ThemesAssumption
      <3> QED BY <2>2, <2>4, <3>1 DEF ThemeIds
    <2> HIDE DEF p, s, merged
    <2>6. chosen # NoTheme => p.active = chosen /\ s.active = chosen
      BY <2>2, <2>3 DEF ThemeInv, ChoiceKept
    <2>7. /\ Pages(page') /\ Stored(store')
          /\ page'.installed = merged /\ (written => store'.installed = merged)
          /\ page'.builtIn = page.builtIn /\ page'.ready = page.ready
          /\ page'.preview \in {page.preview, NoTheme}
          /\ page'.preview # NoTheme => ThemeIds(page') # {}
          /\ chosen' # NoTheme => chosen' = chosen
          /\ chosen' # NoTheme => page'.active = chosen' /\ store'.active = chosen'
      BY <2>1, <2>2, <2>3, <2>5, <2>6, RenderKeeps
    <2>8. ChoiceKept'
      BY <2>1, <2>7 DEF ThemeInv, ChoiceKept
    <2>9. InstallsKept'
      BY <2>1, <2>4, <2>7 DEF ThemeInv, InstallsKept
    <2> QED BY <2>1, <2>7, <2>8, <2>9 DEF ThemeInv
  <1> QED BY <1>1, <1>2

LEMMA ThemeInvKept == ThemeInv /\ [ThemeNext]_themeVars => ThemeInv'
  <1>1. ThemeInv /\ UNCHANGED themeVars => ThemeInv'
    BY DEF themeVars, ThemeInv, ChoiceKept, InstallsKept
  <1> QED BY <1>1, ThemeLoads, ThemeSelects, ThemeInstalls DEF ThemeNext

LEMMA ThemeInvGives == ThemeInv => ThemesKept
  BY DEF ThemeInv, ThemesKept

\* What the user chose stays chosen and what the user installed stays installed, for any
\* families, while pages load, selectors preview and installs end in any order
\* (useZedThemes.js).
THEOREM ChoicesStay == ThemeSpec => []ThemesKept
  <1> QED BY ThemeInvKept, ThemeInvGives, ThemeInitInv, PTL DEF ThemeSpec

-----------------------------------------------------------------------------
(* The types of the themes                                                 *)

\* What may be loaded or installed.
Families == ToSet(BuiltIn) \cup {Fallback} \cup ToSet(Packs)

LEMMA ThoseAre ==
    ASSUME NEW T, NEW s \in Seq(T), NEW S
    PROVE  Those(s, S) \in Seq(T) /\ ToSet(Those(s, S)) = ToSet(s) \cap S
<1> DEFINE one(i) == IF s[i] \in S THEN <<s[i]>> ELSE <<>>
           w == [i \in DOMAIN s |-> one(i)]
<1>1. DOMAIN s = 1..Len(s) /\ Len(s) \in Nat /\ \A i \in 1..Len(s) : s[i] \in T
    OBVIOUS
<1>2. \A i \in 1..Len(s) : one(i) \in Seq(T) /\ ToSet(one(i)) = {s[i]} \cap S
    <2>1. \A x : ToSet(<<x>>) = {x}
        BY DEF ToSet
    <2>2. ToSet(<<>>) = {}
        BY DEF ToSet
    <2> QED BY <1>1, <2>1, <2>2
<1> HIDE DEF one
<1>3. w \in Seq(Seq(T)) /\ DOMAIN w = DOMAIN s
    <2> DEFINE V == Seq(T)
    <2>1. w \in [1..Len(s) -> V]
        BY <1>1, <1>2
    <2> HIDE DEF V, w
    <2>2. w \in Seq(V) /\ DOMAIN w = 1..Len(s)
        BY <1>1, <2>1, FunctionIsSeq
    <2> QED BY <1>1, <2>2 DEF V
<1>4. Those(s, S) = FlattenSeq(w)
    BY DEF Those, one
<1>5. ToSet(w) = {one(i) : i \in DOMAIN s}
    BY DEF ToSet
<1> HIDE DEF w
<1>6. UNION {ToSet(x) : x \in ToSet(w)} = ToSet(s) \cap S
    <2>1. \A x : x \in ToSet(s) \cap S <=> \E i \in 1..Len(s) : x \in {s[i]} \cap S
        BY <1>1 DEF ToSet
    <2>2. \A x : x \in UNION {ToSet(y) : y \in ToSet(w)} <=> \E i \in 1..Len(s) : x \in ToSet(one(i))
        BY <1>1, <1>5
    <2> QED BY <1>2, <2>1, <2>2
<1> QED BY <1>3, <1>4, <1>6, FlattenType, FlattenHolds

LEMMA FamilyThemesAre ==
    ASSUME NEW fs \in Seq(Families)
    PROVE  /\ FamilyThemes(fs) \in Seq(STRING)
           /\ ToSet(FamilyThemes(fs)) = UNION {ToSet(f.themes) : f \in ToSet(fs)}
<1> DEFINE w == [i \in DOMAIN fs |-> fs[i].themes]
           V == Seq(STRING)
<1>1. DOMAIN fs = 1..Len(fs) /\ Len(fs) \in Nat /\ \A i \in 1..Len(fs) : fs[i] \in Families
    OBVIOUS
<1>2. \A i \in 1..Len(fs) : fs[i].themes \in V
    BY <1>1, ThemesAssumption DEF Families
<1> HIDE DEF V
<1>3. w \in Seq(V)
    <2>1. w \in [1..Len(fs) -> V]
        BY <1>1, <1>2
    <2> HIDE DEF w
    <2> QED BY <1>1, <2>1, FunctionIsSeq
<1>4. ToSet(w) = {f.themes : f \in ToSet(fs)}
    BY DEF ToSet
<1>5. FamilyThemes(fs) = FlattenSeq(w)
    BY DEF FamilyThemes
<1> HIDE DEF w
<1>6. FlattenSeq(w) \in Seq(STRING) /\ ToSet(FlattenSeq(w)) = UNION {ToSet(x) : x \in ToSet(w)}
    BY <1>3, FlattenType, FlattenHolds DEF V
<1>7. UNION {ToSet(x) : x \in {f.themes : f \in ToSet(fs)}} = UNION {ToSet(f.themes) : f \in ToSet(fs)}
    OBVIOUS
<1> QED BY <1>4, <1>5, <1>6, <1>7

LEMMA AllThemesAre == \A f \in Families : ToSet(f.themes) \subseteq AllThemes
<1> DEFINE b == BuiltIn
           p == Packs
           one == <<Fallback>>
           F == Families
<1>1. b \in Seq(F) /\ p \in Seq(F) /\ one \in Seq(F)
    BY ThemesAssumption DEF Families
<1>2. ToSet(one) = {Fallback}
    BY DEF ToSet
<1> HIDE DEF b, p, one, F
<1>3. \A x, y \in Seq(F) : x \o y \in Seq(F) /\ ToSet(x \o y) = ToSet(x) \cup ToSet(y)
    BY ConcatHolds, ConcatProperties
<1>4. /\ (b \o one) \o p \in Seq(F)
      /\ ToSet((b \o one) \o p) = (ToSet(b) \cup ToSet(one)) \cup ToSet(p)
    <2> DEFINE bo == b \o one
    <2>1. bo \in Seq(F) /\ ToSet(bo) = ToSet(b) \cup ToSet(one)
        BY <1>1, <1>3
    <2> HIDE DEF bo
    <2>2. bo \o p \in Seq(F) /\ ToSet(bo \o p) = ToSet(bo) \cup ToSet(p)
        BY <1>1, <1>3, <2>1
    <2> QED BY <2>1, <2>2 DEF bo
<1>5. ToSet((b \o one) \o p) = Families
    BY <1>2, <1>4 DEF Families, b, p
<1>6. AllThemes = ToSet(FamilyThemes((b \o one) \o p))
    BY DEF AllThemes, b, p, one
<1> DEFINE all == (b \o one) \o p
<1>7. all \in Seq(Families) /\ ToSet(all) = Families /\ AllThemes = ToSet(FamilyThemes(all))
    BY <1>4, <1>5, <1>6 DEF F
<1> HIDE DEF all
<1>8. AllThemes = UNION {ToSet(f.themes) : f \in Families}
    BY <1>7, FamilyThemesAre
<1> QED BY <1>8

LEMMA DefaultAmong ==
    ASSUME NEW ts \in Seq(STRING), ToSet(ts) # {}
    PROVE  Default(ts) \in ToSet(ts)
<1> DEFINE named == Those(ts, OneDark)
           dark == Those(ts, Dark)
           all == (named \o dark) \o ts
<1>1. /\ named \in Seq(STRING) /\ dark \in Seq(STRING)
      /\ ToSet(named) \subseteq ToSet(ts) /\ ToSet(dark) \subseteq ToSet(ts)
    BY ThoseAre
<1>2. Default(ts) = Head(all)
    BY DEF Default
<1> HIDE DEF named, dark
<1>3. \A x, y \in Seq(STRING) :
        x \o y \in Seq(STRING) /\ ToSet(x \o y) = ToSet(x) \cup ToSet(y)
    BY ConcatHolds, ConcatProperties
<1>4. all \in Seq(STRING) /\ ToSet(all) = (ToSet(named) \cup ToSet(dark)) \cup ToSet(ts)
    <2> DEFINE nd == named \o dark
    <2>1. nd \in Seq(STRING) /\ ToSet(nd) = ToSet(named) \cup ToSet(dark)
        BY <1>1, <1>3
    <2> HIDE DEF nd
    <2>2. nd \o ts \in Seq(STRING) /\ ToSet(nd \o ts) = ToSet(nd) \cup ToSet(ts)
        BY <1>1, <1>3, <2>1
    <2> QED BY <2>1, <2>2 DEF nd
<1>5. ToSet(all) = ToSet(ts)
    BY <1>1, <1>4
<1> HIDE DEF all
<1>6. all # <<>>
    <2>1. ToSet(<<>>) = {}
        BY DEF ToSet
    <2> QED BY <1>5, <2>1
<1>7. Head(all) \in ToSet(all)
    BY <1>4, <1>6 DEF ToSet
<1> QED BY <1>2, <1>5, <1>7

\* What a page holds of themes and families.
PageTypes(p) ==
    /\ p.builtIn \in Seq(Families) /\ p.installed \subseteq ToSet(Packs)
    /\ p.active \in AllThemes \cup {NoTheme} /\ p.preview \in AllThemes \cup {NoTheme}
    /\ p.ready \in BOOLEAN

StoreTypes(s) ==
    s.active \in AllThemes \cup {NoTheme} /\ s.installed \subseteq ToSet(Packs)

ThemeTypes ==
    /\ PageTypes(page) /\ StoreTypes(store) /\ Pages(page) /\ Stored(store)
    /\ reading \subseteq ToSet(Packs) /\ {selector, left, unsaved} \subseteq BOOLEAN

\* The themes of a page are the families' it has, and the default is one of them.
LEMMA PageThemes ==
    ASSUME NEW p, PageTypes(p)
    PROVE  /\ ThemeIds(p) \subseteq AllThemes
           /\ ThemeIds(p) # {} => Default(ThemesOf(p)) \in AllThemes
<1> DEFINE b == p.builtIn
           i == Those(Packs, p.installed)
           fs == b \o i
<1>1. b \in Seq(Families) /\ p.installed \subseteq ToSet(Packs)
    BY DEF PageTypes
<1>2. i \in Seq(Families) /\ ToSet(i) = p.installed
    <2>1. Packs \in Seq(ToSet(Packs)) /\ ToSet(Packs) \subseteq Families
        BY ThemesAssumption DEF Families
    <2>2. Packs \in Seq(Families)
        BY <2>1, SeqMonotonic
    <2>3. i \in Seq(Families) /\ ToSet(i) = ToSet(Packs) \cap p.installed
        BY <2>2, ThoseAre
    <2> HIDE DEF i
    <2> QED BY <1>1, <2>3
<1> HIDE DEF b, i
<1>3. fs \in Seq(Families) /\ ToSet(fs) = ToSet(b) \cup p.installed
    BY <1>1, <1>2, ConcatHolds, ConcatProperties
<1>4. ThemesOf(p) = FamilyThemes(fs)
    BY DEF ThemesOf, b, i
<1> HIDE DEF fs
<1>5. /\ ThemesOf(p) \in Seq(STRING)
      /\ ToSet(ThemesOf(p)) = UNION {ToSet(f.themes) : f \in ToSet(fs)}
    BY <1>3, <1>4, FamilyThemesAre
<1>6. ThemeIds(p) = ToSet(ThemesOf(p))
    BY <1>3, <1>5 DEF ThemeIds, b
<1>7. ToSet(fs) \subseteq Families
    BY <1>3 DEF ToSet
<1>8. ThemeIds(p) \subseteq AllThemes
    BY <1>5, <1>6, <1>7, AllThemesAre
<1> QED BY <1>5, <1>6, <1>8, DefaultAmong

LEMMA RenderTypes ==
    ASSUME NEW p, NEW s, PageTypes(p), Pages(p), StoreTypes(s), Stored(s), Render(p, s)
    PROVE  PageTypes(page') /\ StoreTypes(store') /\ Pages(page') /\ Stored(store')
<1> DEFINE other == Default(ThemesOf(p))
<1>1. ThemeIds(p) # {} => other \in AllThemes
    BY PageThemes
<1> HIDE DEF other
<1>2. page' = p \/ /\ ThemeIds(p) # {}
                   /\ \E v \in {NoTheme, p.preview} :
                        page' = [p EXCEPT !.active = other, !.preview = v]
    BY DEF Render, Settled, other
<1>3. store' = s \/ (ThemeIds(p) # {} /\ store' = [s EXCEPT !.active = other])
    BY DEF Render, Settled, other
<1>4. PageTypes(page') /\ Pages(page')
    BY <1>1, <1>2 DEF PageTypes, Pages
<1>5. StoreTypes(store') /\ Stored(store')
    BY <1>1, <1>3 DEF StoreTypes, Stored
<1> QED BY <1>4, <1>5

LEMMA ThemeStart == ThemeInit => ThemeTypes
<1> SUFFICES ASSUME ThemeInit PROVE ThemeTypes
    OBVIOUS
<1>1. /\ page = [builtIn |-> <<>>, installed |-> {}, active |-> NoTheme,
                 preview |-> NoTheme, ready |-> FALSE]
      /\ store = [active |-> NoTheme, installed |-> {}]
    BY DEF ThemeInit, FreshPage
<1>2. page.builtIn \in Seq(Families)
    BY <1>1
<1>3. Pages(page) /\ Stored(store)
    BY <1>1 DEF Pages, Stored
<1>4. PageTypes(page) /\ StoreTypes(store)
    BY <1>1, <1>2 DEF PageTypes, StoreTypes
<1>5. reading \subseteq ToSet(Packs) /\ {selector, left, unsaved} \subseteq BOOLEAN
    BY DEF ThemeInit
<1> QED BY <1>3, <1>4, <1>5 DEF ThemeTypes

LEMMA ThemeTypesKept == ThemeTypes /\ [ThemeNext]_themeVars => ThemeTypes'
<1> SUFFICES ASSUME ThemeTypes, [ThemeNext]_themeVars PROVE ThemeTypes'
    OBVIOUS
<1>1. CASE ReloadThemes
    <2> DEFINE p == FreshPage(store)
    <2>1. PageTypes(p) /\ Pages(p)
        <3>1. <<>> \in Seq(Families)
            OBVIOUS
        <3> QED BY <3>1 DEF FreshPage, PageTypes, Pages, ThemeTypes, StoreTypes
    <2> HIDE DEF p
    <2>2. Render(p, store)
        BY <1>1 DEF ReloadThemes, p
    <2> QED BY <1>1, <2>1, <2>2, RenderTypes DEF ReloadThemes, ThemeTypes
<1>2. ASSUME NEW lost \in SUBSET MayFail, LoadBuiltIn(lost) PROVE ThemeTypes'
    <2> DEFINE those == Those(BuiltIn, ToSet(BuiltIn) \ lost)
               loaded == IF those = <<>> THEN <<Fallback>> ELSE those
               p == [page EXCEPT !.ready = TRUE, !.builtIn = loaded]
    <2>1. those \in Seq(Families)
        <3>1. BuiltIn \in Seq(ToSet(BuiltIn)) /\ ToSet(BuiltIn) \subseteq Families
            BY ThemesAssumption DEF Families
        <3>2. BuiltIn \in Seq(Families)
            BY <3>1, SeqMonotonic
        <3> QED BY <3>2, ThoseAre
    <2>2. Render(p, store) /\ UNCHANGED <<selector, reading, left, unsaved>>
        BY <1>2 DEF LoadBuiltIn
    <2> HIDE DEF those
    <2>3. loaded \in Seq(Families)
        BY <2>1 DEF Families
    <2> HIDE DEF loaded
    <2>4. PageTypes(p) /\ Pages(p)
        BY <2>3 DEF ThemeTypes, PageTypes, Pages
    <2> HIDE DEF p
    <2> QED BY <2>2, <2>4, RenderTypes DEF ThemeTypes
<1>3. CASE OpenSelector \/ CancelPreview \/ Replaced
    BY <1>3 DEF OpenSelector, CancelPreview, Replaced, ThemeTypes, PageTypes, StoreTypes, Pages, Stored
<1>4. ASSUME NEW t \in AllThemes, ApplyById(t)
      PROVE  PageTypes(page') /\ StoreTypes(store') /\ Pages(page') /\ Stored(store') /\ left' = FALSE
    BY <1>4 DEF ApplyById, ThemeTypes, PageTypes, StoreTypes, Pages, Stored
<1>5. CASE Apply
    <2>1. CASE ThemeIds(page) # {} /\ ApplyById(Selected(page))
        <3>1. Has(page, Selected(page))
            BY <2>1 DEF ApplyById
        <3>2. Selected(page) \in AllThemes
            BY <3>1, PageThemes DEF Has, ThemeTypes
        <3> QED BY <1>4, <1>5, <2>1, <3>2 DEF Apply, ThemeTypes
    <2>2. CASE ThemeIds(page) = {} /\ UNCHANGED <<store, page, chosen, left>>
        BY <1>5, <2>2 DEF Apply, ThemeTypes
    <2> QED BY <1>5, <2>1, <2>2 DEF Apply
<1>6. ASSUME NEW t \in AllThemes, Preview(t) \/ ApplyRow(t) PROVE ThemeTypes'
    <2>1. CASE Preview(t)
        BY <2>1 DEF Preview, ThemeTypes, PageTypes, StoreTypes, Pages, Stored
    <2>2. CASE ApplyRow(t)
        BY <1>4, <2>2 DEF ApplyRow, ThemeTypes
    <2> QED BY <1>6, <2>1, <2>2
<1>7. ASSUME NEW f \in ToSet(Packs), InstallStart(f) \/ InstallFailed(f) PROVE ThemeTypes'
    BY <1>7 DEF InstallStart, InstallFailed, ThemeTypes, PageTypes, StoreTypes, Pages, Stored
<1>8. ASSUME NEW f \in ToSet(Packs), NEW written \in BOOLEAN, InstallDone(f, written)
      PROVE  ThemeTypes'
    <2> DEFINE merged == Merged(page.installed, f)
               p == [page EXCEPT !.installed = merged]
               s == IF written THEN [store EXCEPT !.installed = merged] ELSE store
    <2>1. merged \subseteq ToSet(Packs)
        BY DEF Merged, ThemeTypes, PageTypes
    <2>2. /\ Render(p, s) /\ reading' \subseteq reading /\ unsaved' = ~written
          /\ UNCHANGED <<selector, left>>
        BY <1>8 DEF InstallDone
    <2> HIDE DEF merged
    <2>3. PageTypes(p) /\ Pages(p) /\ StoreTypes(s) /\ Stored(s)
        BY <2>1 DEF ThemeTypes, PageTypes, Pages, StoreTypes, Stored
    <2> HIDE DEF p, s
    <2> QED BY <2>2, <2>3, RenderTypes DEF ThemeTypes
<1>9. CASE UNCHANGED themeVars
    BY <1>9 DEF themeVars, ThemeTypes, PageTypes, StoreTypes, Pages, Stored
<1> QED BY <1>1, <1>2, <1>3, <1>5, <1>6, <1>7, <1>8, <1>9 DEF ThemeNext

LEMMA ThemeTypesOK == ThemeTypes => ThemeTypeOK
BY DEF ThemeTypes, PageTypes, StoreTypes, ThemeTypeOK

-----------------------------------------------------------------------------
(* The binary of the remote server                                         *)

Kinds == {"release", "wrapper", "other"}
BinaryFiles == [there : BOOLEAN, kinds : SUBSET Kinds, writer : Starts \cup {Nothing},
          whole : BOOLEAN, exec : BOOLEAN]
StartSteps == {"over", "look", "download", "create", "fill", "mode", "ask", "copy", "copying",
          "chmod", "start"}

BinaryTypes ==
    /\ step \in [Starts -> StartSteps] /\ bytes \in [Starts -> Kinds \cup {Nothing}]
    /\ cache \in BinaryFiles /\ remote \in BinaryFiles /\ source \in [Starts -> BinaryFiles]
    /\ copying \in SUBSET Starts /\ disturbed \in BOOLEAN /\ ranHalf \in BOOLEAN
    /\ \A t \in Starts : step[t] \in {"create", "fill"} => bytes[t] \in Kinds

\* What is not the release does not get beyond the digest.
Verified ==
    /\ "other" \notin cache.kinds /\ "other" \notin remote.kinds
    /\ \A t \in Starts :
        /\ "other" \notin source[t].kinds
        /\ step[t] \in {"create", "fill"} => bytes[t] # "other"

OneWriter(f) == f.there /\ f.whole /\ \E b \in Kinds : f.kinds = {b}
Busy1(t) == step[t] # "over" \/ t \in copying

\* Until the remote file is complete there is one start at most, so each file is in the
\* making by that one, complete, or not there.
Undisturbed ==
    /\ ~Runnable(remote) => \A t, u \in Starts : Busy1(t) /\ Busy1(u) => t = u
    /\ remote.whole => remote.there
    /\ remote.there => cache.there
    /\ cache.there => OneWriter(cache) \/ \E t \in Starts : step[t] = "fill"
    /\ copying = {} => (remote.there => OneWriter(remote))
    /\ \A t \in copying :
        /\ step[t] \in {"over", "copying"}
        /\ source[t] = cache /\ OneWriter(cache)
        /\ remote.kinds = {} /\ remote.writer = t /\ ~remote.whole /\ remote.there
    /\ \A t \in Starts :
        /\ step[t] \in {"download", "create"} => ~cache.there
        /\ step[t] = "fill" => /\ cache.there /\ ~remote.there
                               /\ cache.kinds = {} /\ cache.writer = t
        /\ step[t] \in {"mode", "ask", "copy"} => OneWriter(cache)
        /\ step[t] = "copy" => ~(remote.there /\ remote.exec)
        /\ step[t] = "copying" => t \in copying
        /\ step[t] = "chmod" => OneWriter(remote)
        /\ step[t] = "start" => Runnable(remote)

BinaryInv ==
    /\ BinaryTypes
    /\ Published => Verified
    /\ ~disturbed => Undisturbed
    /\ ~ranHalf

LEMMA OneRuns == \A f : OneWriter(f) /\ f.exec => Runnable(f)
  BY FS_Singleton DEF OneWriter, Runnable

LEMMA HalfRunsNot == \A f : Runnable(f) => f.whole /\ f.exec
  BY DEF Runnable

LEMMA BinaryInitInv == BinaryInit => BinaryInv
  <1> SUFFICES ASSUME BinaryInit PROVE BinaryInv
    OBVIOUS
  <1>1. NoFile \in BinaryFiles /\ NoFile.kinds = {} /\ ~NoFile.there /\ ~NoFile.whole
    BY DEF NoFile, BinaryFiles
  <1>2. BinaryTypes
    BY <1>1 DEF BinaryInit, BinaryTypes, StartSteps
  <1>3. Verified
    BY <1>1 DEF BinaryInit, Verified
  <1>4. Undisturbed
    BY <1>1 DEF BinaryInit, Undisturbed, Busy1
  <1> QED BY <1>2, <1>3, <1>4 DEF BinaryInv, BinaryInit

LEMMA FileOps ==
    ASSUME NEW f \in BinaryFiles, NEW t \in Starts, NEW exec \in BOOLEAN, NEW whole \in BOOLEAN,
           NEW kinds \in SUBSET Kinds
    PROVE  /\ Created(f, t, exec) \in BinaryFiles /\ Created(f, t, exec).kinds = {}
           /\ Created(f, t, exec).there /\ ~Created(f, t, exec).whole
           /\ Created(f, t, exec).writer = t
           /\ Filled(f, t, kinds, whole) \in BinaryFiles
           /\ Filled(f, t, kinds, whole).kinds = f.kinds \cup kinds
           /\ Filled(f, t, kinds, whole).there = f.there
           /\ f.writer = t => Filled(f, t, kinds, whole).whole = whole
  <1>1. Created(f, t, exec) \in BinaryFiles
    BY DEF Created, BinaryFiles
  <1>2. Filled(f, t, kinds, whole) \in BinaryFiles
    BY DEF Filled, BinaryFiles
  <1> QED BY <1>1, <1>2 DEF Created, Filled, BinaryFiles

LEMMA BinaryTypesKept == ASSUME BinaryTypes, BinaryNext PROVE BinaryTypes'
  <1> SUFFICES ASSUME NEW t \in Starts,
                      \/ \E b \in {"release", "wrapper"} : BeginStart(t, b)
                      \/ \E b \in {"release", "other"} : Download(t, b)
                      \/ Fail(t) \/ Look(t) \/ CreateFile(t) \/ FillFile(t) \/ FillBreaks(t)
                      \/ SetMode(t) \/ AskRemote(t) \/ CopyStarts(t) \/ CopyEnds(t)
                      \/ CopyBreaks(t) \/ CopyTimesOut(t) \/ Chmod(t) \/ StartProxy(t)
               PROVE  BinaryTypes'
    BY DEF BinaryNext
  <1>1. ASSUME NEW b \in {"release", "wrapper"}, BeginStart(t, b) PROVE BinaryTypes'
    BY <1>1 DEF BeginStart, Goto, Disturbs, BinaryTypes, StartSteps, Kinds
  <1>2. ASSUME NEW b \in {"release", "other"}, Download(t, b) PROVE BinaryTypes'
    BY <1>2 DEF Download, Goto, BinaryTypes, StartSteps, Kinds
  <1>3. CASE Fail(t) \/ FillBreaks(t) \/ CopyTimesOut(t) \/ StartProxy(t) \/ AskRemote(t)
    BY <1>3 DEF Fail, FillBreaks, CopyTimesOut, StartProxy, AskRemote, Goto, BinaryTypes, StartSteps
  <1>4. CASE Look(t)
    <2>1. \/ bytes' = [bytes EXCEPT ![t] = Nothing] /\ step' = [step EXCEPT ![t] = "ask"]
          \/ bytes[t] = "wrapper" /\ step' = [step EXCEPT ![t] = "create"] /\ bytes' = bytes
          \/ step' = [step EXCEPT ![t] = "download"] /\ bytes' = bytes
      BY <1>4 DEF Look, Goto, BinaryTypes
    <2>2. UNCHANGED <<cache, remote, source, copying, disturbed, ranHalf>>
      BY <1>4 DEF Look
    <2> QED BY <2>1, <2>2 DEF BinaryTypes, StartSteps, Kinds
  <1>5. CASE CreateFile(t)
    <2>1. Created(cache, t, FALSE) \in BinaryFiles
      BY FileOps DEF BinaryTypes
    <2> QED BY <1>5, <2>1 DEF CreateFile, Goto, BinaryTypes, StartSteps
  <1>6. CASE FillFile(t)
    <2>1. {bytes[t]} \in SUBSET Kinds
      BY <1>6 DEF FillFile, Goto, BinaryTypes
    <2>2. Filled(cache, t, {bytes[t]}, TRUE) \in BinaryFiles
      BY <2>1, FileOps DEF BinaryTypes
    <2> QED BY <1>6, <2>2 DEF FillFile, Goto, BinaryTypes, StartSteps
  <1>7. CASE SetMode(t) \/ Chmod(t)
    BY <1>7 DEF SetMode, Chmod, Goto, BinaryTypes, StartSteps, BinaryFiles
  <1>8. CASE CopyStarts(t)
    <2>1. cache.exec \in BOOLEAN
      BY DEF BinaryTypes, BinaryFiles
    <2>2. Created(remote, t, cache.exec) \in BinaryFiles
      BY <2>1, FileOps DEF BinaryTypes
    <2> QED BY <1>8, <2>2 DEF CopyStarts, Goto, BinaryTypes, StartSteps
  <1>9. CASE CopyEnds(t) \/ CopyBreaks(t)
    <2> DEFINE whole == source[t].whole /\ source[t].writer = cache.writer
    <2>1. NoFile \in BinaryFiles /\ source[t].kinds \in SUBSET Kinds /\ whole \in BOOLEAN
      BY DEF NoFile, BinaryFiles, BinaryTypes
    <2>2. Filled(remote, t, source[t].kinds, whole) \in BinaryFiles
      BY <2>1, FileOps DEF BinaryTypes
    <2>3. remote' \in BinaryFiles
      BY <1>9, <2>2 DEF CopyEnds, CopyBreaks, BinaryTypes
    <2> QED BY <1>9, <2>1, <2>3 DEF CopyEnds, CopyBreaks, BinaryTypes, StartSteps
  <1> QED BY <1>1, <1>2, <1>3, <1>4, <1>5, <1>6, <1>7, <1>8, <1>9

LEMMA VerifiedKept ==
    ASSUME BinaryTypes, Verified, Published, BinaryNext
    PROVE  Verified'
  <1> SUFFICES ASSUME NEW t \in Starts,
                      \/ \E b \in {"release", "wrapper"} : BeginStart(t, b)
                      \/ \E b \in {"release", "other"} : Download(t, b)
                      \/ Fail(t) \/ Look(t) \/ CreateFile(t) \/ FillFile(t) \/ FillBreaks(t)
                      \/ SetMode(t) \/ AskRemote(t) \/ CopyStarts(t) \/ CopyEnds(t)
                      \/ CopyBreaks(t) \/ CopyTimesOut(t) \/ Chmod(t) \/ StartProxy(t)
               PROVE  Verified'
    BY DEF BinaryNext
  <1>1. ASSUME NEW b \in {"release", "wrapper"}, BeginStart(t, b) PROVE Verified'
    BY <1>1 DEF BeginStart, Goto, BinaryTypes, Verified
  <1>2. ASSUME NEW b \in {"release", "other"}, Download(t, b) PROVE Verified'
    BY <1>2 DEF Download, Accepted, Goto, BinaryTypes, Verified
  <1>3. CASE Fail(t) \/ FillBreaks(t) \/ CopyTimesOut(t) \/ StartProxy(t) \/ AskRemote(t)
    BY <1>3 DEF Fail, FillBreaks, CopyTimesOut, StartProxy, AskRemote, Goto, BinaryTypes, Verified
  <1>4. CASE Look(t)
    <2>1. \/ bytes' = [bytes EXCEPT ![t] = Nothing] /\ step' = [step EXCEPT ![t] = "ask"]
          \/ bytes[t] = "wrapper" /\ step' = [step EXCEPT ![t] = "create"] /\ bytes' = bytes
          \/ step' = [step EXCEPT ![t] = "download"] /\ bytes' = bytes
      BY <1>4 DEF Look, Goto, BinaryTypes
    <2>2. UNCHANGED <<cache, remote, source>>
      BY <1>4 DEF Look
    <2> QED BY <2>1, <2>2 DEF BinaryTypes, Verified
  <1>5. CASE CreateFile(t)
    <2>1. cache'.kinds = {}
      BY <1>5, FileOps DEF CreateFile, BinaryTypes
    <2> QED BY <1>5, <2>1 DEF CreateFile, Goto, BinaryTypes, Verified
  <1>6. CASE FillFile(t)
    <2>1. {bytes[t]} \in SUBSET Kinds /\ bytes[t] # "other"
      BY <1>6 DEF FillFile, Goto, BinaryTypes, Verified
    <2>2. cache'.kinds = cache.kinds \cup {bytes[t]}
      BY <1>6 DEF FillFile, Filled, BinaryFiles, BinaryTypes
    <2> QED BY <1>6, <2>1, <2>2 DEF FillFile, Goto, BinaryTypes, Verified
  <1>7. CASE SetMode(t) \/ Chmod(t)
    BY <1>7 DEF SetMode, Chmod, Goto, BinaryTypes, BinaryFiles, Verified
  <1>8. CASE CopyStarts(t)
    <2>1. cache.exec \in BOOLEAN
      BY DEF BinaryTypes, BinaryFiles
    <2>2. remote'.kinds = {}
      BY <1>8, <2>1, FileOps DEF CopyStarts, BinaryTypes
    <2> QED BY <1>8, <2>2 DEF CopyStarts, Goto, BinaryTypes, Verified
  <1>9. CASE CopyEnds(t) \/ CopyBreaks(t)
    <2> DEFINE whole == source[t].whole /\ source[t].writer = cache.writer
    <2>1. NoFile.kinds = {} /\ source[t].kinds \in SUBSET Kinds /\ whole \in BOOLEAN
      BY DEF NoFile, BinaryFiles, BinaryTypes
    <2>2. Filled(remote, t, source[t].kinds, whole).kinds = remote.kinds \cup source[t].kinds
      BY DEF Filled, BinaryFiles, BinaryTypes
    <2>3. "other" \notin remote'.kinds
      BY <1>9, <2>2 DEF CopyEnds, CopyBreaks, Verified
    <2>4. UNCHANGED <<cache, bytes>> /\ source' = [source EXCEPT ![t] = NoFile]
      BY <1>9 DEF CopyEnds, CopyBreaks
    <2>5. \A u \in Starts : step'[u] \in {"create", "fill"} => step[u] \in {"create", "fill"}
      BY <1>9 DEF CopyEnds, CopyBreaks, BinaryTypes
    <2> QED BY <2>1, <2>3, <2>4, <2>5 DEF BinaryTypes, Verified
  <1> QED BY <1>1, <1>2, <1>3, <1>4, <1>5, <1>6, <1>7, <1>8, <1>9

\* A start that goes on to a step at which neither file is written.
LEMMA StepUndisturbed ==
    ASSUME BinaryTypes, Undisturbed, NEW t \in Starts, NEW s \in StartSteps,
           step' = [step EXCEPT ![t] = s], UNCHANGED <<cache, remote, source, copying>>,
           step[t] # "fill", t \notin copying \/ s \in {"over", "copying"},
           step[t] = "over" => Runnable(remote) \/ \A u \in Starts : ~Busy1(u),
           s \in {"download", "create"} => ~cache.there,
           s # "fill",
           s \in {"mode", "ask", "copy"} => OneWriter(cache),
           s = "copy" => ~(remote.there /\ remote.exec),
           s = "copying" => t \in copying,
           s = "chmod" => OneWriter(remote),
           s = "start" => Runnable(remote)
    PROVE  Undisturbed'
  <1>1. ~Runnable(remote') => \A u, v \in Starts : Busy1(u)' /\ Busy1(v)' => u = v
    BY DEF Undisturbed, Busy1, BinaryTypes
  <1>2. cache'.there => OneWriter(cache') \/ \E u \in Starts : step'[u] = "fill"
    BY DEF Undisturbed, BinaryTypes
  <1>3. \A u \in copying' :
            /\ step'[u] \in {"over", "copying"}
            /\ source'[u] = cache' /\ OneWriter(cache')
            /\ remote'.kinds = {} /\ remote'.writer = u /\ ~remote'.whole /\ remote'.there
    BY DEF Undisturbed, BinaryTypes
  <1>4. \A u \in Starts :
            /\ step'[u] \in {"download", "create"} => ~cache'.there
            /\ step'[u] = "fill" => /\ cache'.there /\ ~remote'.there
                                    /\ cache'.kinds = {} /\ cache'.writer = u
            /\ step'[u] \in {"mode", "ask", "copy"} => OneWriter(cache')
            /\ step'[u] = "copy" => ~(remote'.there /\ remote'.exec)
            /\ step'[u] = "copying" => u \in copying'
            /\ step'[u] = "chmod" => OneWriter(remote')
            /\ step'[u] = "start" => Runnable(remote')
    BY DEF Undisturbed, BinaryTypes
  <1>5. /\ remote'.whole => remote'.there
        /\ remote'.there => cache'.there
        /\ copying' = {} => (remote'.there => OneWriter(remote'))
    BY DEF Undisturbed
  <1> QED BY <1>1, <1>2, <1>3, <1>4, <1>5 DEF Undisturbed

LEMMA BeginUndisturbed ==
    ASSUME BinaryTypes, Undisturbed, NEW t \in Starts,
           \/ \E b \in {"release", "wrapper"} : BeginStart(t, b)
           \/ \E b \in {"release", "other"} : Download(t, b)
           \/ Fail(t) \/ Look(t) \/ AskRemote(t) \/ StartProxy(t) \/ CopyTimesOut(t),
           ~disturbed'
    PROVE  Undisturbed'
  <1>1. ASSUME NEW b \in {"release", "wrapper"}, BeginStart(t, b) PROVE Undisturbed'
    <2>1. Runnable(remote) \/ \A u \in Starts : ~Busy1(u)
      BY <1>1 DEF BeginStart, Disturbs, Preparing, Busy1, BinaryTypes
    <2>2. /\ step' = [step EXCEPT ![t] = "look"] /\ step[t] = "over" /\ t \notin copying
          /\ UNCHANGED <<cache, remote, source, copying>>
      BY <1>1 DEF BeginStart, Goto
    <2> QED BY <2>1, <2>2, StepUndisturbed DEF StartSteps
  <1>2. ASSUME NEW b \in {"release", "other"}, Download(t, b) PROVE Undisturbed'
    <2>1. PICK s \in {"create", "over"} : step' = [step EXCEPT ![t] = s]
      BY <1>2 DEF Download, Goto
    <2>2. step[t] = "download" /\ UNCHANGED <<cache, remote, source, copying>>
      BY <1>2 DEF Download, Goto
    <2>3. ~cache.there /\ t \notin copying
      BY <2>2 DEF Undisturbed
    <2> QED BY <2>1, <2>2, <2>3, StepUndisturbed DEF StartSteps
  <1>3. CASE Fail(t) \/ StartProxy(t) \/ CopyTimesOut(t)
    <2>1. /\ step' = [step EXCEPT ![t] = "over"] /\ step[t] \notin {"over", "fill"}
          /\ UNCHANGED <<cache, remote, source, copying>>
      BY <1>3 DEF Fail, StartProxy, CopyTimesOut, Goto
    <2> QED BY <2>1, StepUndisturbed DEF StartSteps
  <1>4. CASE Look(t)
    <2>1. PICK s \in {"ask", "create", "download"} :
            step' = [step EXCEPT ![t] = s] /\ (cache.there <=> s = "ask")
      BY <1>4 DEF Look, Goto, BinaryTypes, BinaryFiles
    <2>2. step[t] = "look" /\ UNCHANGED <<cache, remote, source, copying>>
      BY <1>4 DEF Look, Goto
    <2>3. t \notin copying
      BY <2>2 DEF Undisturbed
    <2>4. cache.there => OneWriter(cache)
      <3>1. ASSUME NEW u \in Starts, step[u] = "fill" PROVE FALSE
        <4>1. ~Runnable(remote) /\ u # t
          BY <2>2, <3>1, HalfRunsNot DEF Undisturbed
        <4> QED BY <4>1, <2>2, <3>1 DEF Undisturbed, Busy1
      <3> QED BY <3>1 DEF Undisturbed
    <2> QED BY <2>1, <2>2, <2>3, <2>4, StepUndisturbed DEF StartSteps
  <1>5. CASE AskRemote(t)
    <2>1. /\ step' = [step EXCEPT ![t] = IF remote.there /\ remote.exec THEN "start" ELSE "copy"]
          /\ step[t] = "ask" /\ UNCHANGED <<cache, remote, source, copying>>
      BY <1>5 DEF AskRemote, Goto
    <2>2. t \notin copying /\ OneWriter(cache)
      BY <2>1 DEF Undisturbed
    <2>3. remote.there /\ remote.exec => Runnable(remote)
      <3>1. CASE copying = {}
        BY <3>1, OneRuns DEF Undisturbed
      <3>2. ASSUME NEW u \in copying PROVE FALSE
        <4>1. ~Runnable(remote) /\ u # t /\ u \in Starts
          BY <2>2, <3>2, HalfRunsNot DEF Undisturbed, BinaryTypes
        <4> QED BY <4>1, <2>1 DEF Undisturbed, Busy1
      <3> QED BY <3>1, <3>2
    <2>4. CASE remote.there /\ remote.exec
      BY <2>1, <2>2, <2>3, <2>4, StepUndisturbed DEF StartSteps
    <2>5. CASE ~(remote.there /\ remote.exec)
      BY <2>1, <2>2, <2>5, StepUndisturbed DEF StartSteps
    <2> QED BY <2>4, <2>5
  <1> QED BY <1>1, <1>2, <1>3, <1>4, <1>5

LEMMA CacheUndisturbed ==
    ASSUME BinaryTypes, Undisturbed, NEW t \in Starts,
           CreateFile(t) \/ FillFile(t) \/ SetMode(t)
    PROVE  Undisturbed'
  <1>1. /\ UNCHANGED <<remote, source, copying>> /\ step[t] \in {"create", "fill", "mode"}
        /\ \E s \in {"fill", "mode", "ask"} : step' = [step EXCEPT ![t] = s]
    BY DEF CreateFile, FillFile, SetMode, Goto
  <1>2. t \notin copying
    BY <1>1 DEF Undisturbed
  <1>3. ~Runnable(remote') => \A u, v \in Starts : Busy1(u)' /\ Busy1(v)' => u = v
    BY <1>1 DEF Undisturbed, Busy1, BinaryTypes
  <1>4. CASE CreateFile(t) \/ FillFile(t)
    <2>1. ~remote.there /\ ~Runnable(remote)
      BY <1>4, HalfRunsNot DEF CreateFile, FillFile, Goto, Undisturbed
    <2>2. \A u \in Starts : u # t => step[u] = "over" /\ u \notin copying
      BY <1>1, <2>1 DEF Undisturbed, Busy1
    <2>3. copying = {}
      BY <1>2, <2>2 DEF BinaryTypes
    <2>4. CASE CreateFile(t)
      <3>1. cache'.there /\ cache'.kinds = {} /\ cache'.writer = t
        BY <2>4 DEF CreateFile, Created
      <3>2. step' = [step EXCEPT ![t] = "fill"]
        BY <2>4 DEF CreateFile, Goto
      <3> QED BY <1>1, <1>3, <2>1, <2>2, <2>3, <3>1, <3>2 DEF Undisturbed, BinaryTypes
    <2>5. CASE FillFile(t)
      <3>1. step' = [step EXCEPT ![t] = "mode"] /\ step[t] = "fill" /\ bytes[t] \in Kinds
        BY <2>5 DEF FillFile, Goto, BinaryTypes
      <3>2. cache.there /\ cache.kinds = {} /\ cache.writer = t
        BY <3>1 DEF Undisturbed
      <3>3. cache'.there /\ cache'.whole /\ cache'.kinds = {bytes[t]}
        BY <2>5, <3>2 DEF FillFile, Filled, BinaryFiles, BinaryTypes
      <3>4. OneWriter(cache')
        BY <3>1, <3>3 DEF OneWriter
      <3> QED BY <1>1, <1>3, <2>1, <2>2, <2>3, <3>1, <3>4 DEF Undisturbed, BinaryTypes, OneWriter
    <2> QED BY <1>4, <2>4, <2>5
  <1>5. CASE SetMode(t)
    <2>1. step' = [step EXCEPT ![t] = "ask"] /\ step[t] = "mode"
      BY <1>5 DEF SetMode, Goto
    <2>2. OneWriter(cache)
      BY <2>1 DEF Undisturbed
    <2>3. OneWriter(cache') /\ cache'.there
      BY <1>5, <2>2 DEF SetMode, OneWriter, BinaryTypes, BinaryFiles
    <2>4. copying = {}
      <3>1. ASSUME NEW u \in copying PROVE FALSE
        <4>1. ~Runnable(remote) /\ u # t /\ u \in Starts
          BY <1>2, <3>1, HalfRunsNot DEF Undisturbed, BinaryTypes
        <4> QED BY <4>1, <2>1, <3>1 DEF Undisturbed, Busy1
      <3> QED BY <3>1
    <2>5. \A u \in Starts : step[u] \notin {"download", "create", "fill"}
      <3>1. ASSUME NEW u \in Starts, step[u] \in {"download", "create", "fill"} PROVE FALSE
        <4>1. ~Runnable(remote) /\ u # t
          BY <2>1, <2>2, <3>1, HalfRunsNot DEF Undisturbed, OneWriter
        <4> QED BY <4>1, <2>1, <3>1 DEF Undisturbed, Busy1
      <3> QED BY <3>1
    <2> QED BY <1>1, <1>3, <2>1, <2>3, <2>4, <2>5 DEF Undisturbed, BinaryTypes
  <1> QED BY <1>4, <1>5 DEF SetMode

LEMMA CopyUndisturbed ==
    ASSUME BinaryTypes, Undisturbed, NEW t \in Starts,
           CopyStarts(t) \/ CopyEnds(t) \/ Chmod(t)
    PROVE  Undisturbed'
  <1>1. CASE CopyStarts(t)
    <2>1. /\ step[t] = "copy" /\ step' = [step EXCEPT ![t] = "copying"]
          /\ copying' = copying \cup {t} /\ source' = [source EXCEPT ![t] = cache]
          /\ cache' = cache
      BY <1>1 DEF CopyStarts, Goto
    <2>2. OneWriter(cache) /\ cache.there /\ ~Runnable(remote)
      BY <2>1, HalfRunsNot DEF Undisturbed, Runnable, OneWriter
    <2>3. \A u \in Starts : u # t => step[u] = "over" /\ u \notin copying
      BY <2>1, <2>2 DEF Undisturbed, Busy1
    <2>4. copying' = {t}
      BY <2>1, <2>3 DEF BinaryTypes
    <2>5. cache.exec \in BOOLEAN
      BY DEF BinaryTypes, BinaryFiles
    <2>6. remote'.kinds = {} /\ remote'.writer = t /\ ~remote'.whole /\ remote'.there
      BY <1>1, <2>5 DEF CopyStarts, Created
    <2>7. \A u, v \in Starts : Busy1(u)' /\ Busy1(v)' => u = v
      BY <2>1, <2>3, <2>4 DEF Busy1, BinaryTypes
    <2> QED BY <2>1, <2>2, <2>3, <2>4, <2>6, <2>7 DEF Undisturbed, BinaryTypes
  <1>2. CASE CopyEnds(t)
    <2>1. t \in copying /\ copying' = copying \ {t} /\ cache' = cache
      BY <1>2 DEF CopyEnds
    <2>2. /\ source[t] = cache /\ OneWriter(cache) /\ remote.kinds = {} /\ remote.writer = t
          /\ ~remote.whole /\ remote.there /\ step[t] \in {"over", "copying"} /\ cache.there
      BY <2>1 DEF Undisturbed, OneWriter
    <2>3. \A u \in Starts : u # t => step[u] = "over" /\ u \notin copying
      BY <2>1, <2>2, HalfRunsNot DEF Undisturbed, Busy1
    <2>4. copying' = {}
      BY <2>1, <2>3 DEF BinaryTypes
    <2>5. OneWriter(remote')
      <3>1. remote' = Filled(remote, t, cache.kinds, cache.whole)
        BY <1>2, <2>2 DEF CopyEnds, OneWriter
      <3>2. remote'.kinds = cache.kinds /\ remote'.whole /\ remote'.there
        BY <2>2, <3>1 DEF Filled, OneWriter, BinaryTypes, BinaryFiles
      <3> QED BY <2>2, <3>2 DEF OneWriter
    <2>6. \E s \in {"over", "chmod"} : step' = [step EXCEPT ![t] = s]
      BY <1>2, <2>2 DEF CopyEnds, BinaryTypes
    <2>7. \A u, v \in Starts : Busy1(u)' /\ Busy1(v)' => u = v
      BY <2>3, <2>4, <2>6 DEF Busy1, BinaryTypes
    <2> QED BY <2>1, <2>2, <2>3, <2>4, <2>5, <2>6, <2>7 DEF Undisturbed, BinaryTypes, OneWriter
  <1>3. CASE Chmod(t)
    <2>1. /\ step[t] = "chmod" /\ step' = [step EXCEPT ![t] = "start"]
          /\ UNCHANGED <<cache, source, copying>>
      BY <1>3 DEF Chmod, Goto
    <2>2. OneWriter(remote)
      BY <2>1 DEF Undisturbed
    <2>3. OneWriter(remote') /\ Runnable(remote') /\ remote'.there
      <3>1. OneWriter(remote') /\ remote'.exec
        BY <1>3, <2>2 DEF Chmod, OneWriter, BinaryTypes, BinaryFiles
      <3> QED BY <3>1, OneRuns DEF OneWriter
    <2>4. copying = {}
      BY <2>1, <2>2 DEF Undisturbed, OneWriter
    <2>5. \A u \in Starts : step[u] \notin {"fill", "copy"}
      <3>1. ASSUME NEW u \in Starts, step[u] \in {"fill", "copy"} PROVE FALSE
        <4>1. ~Runnable(remote) /\ u # t
          BY <2>1, <2>2, <3>1, HalfRunsNot DEF Undisturbed, OneWriter
        <4> QED BY <4>1, <2>1, <3>1 DEF Undisturbed, Busy1
      <3> QED BY <3>1
    <2> QED BY <2>1, <2>2, <2>3, <2>4, <2>5 DEF Undisturbed, BinaryTypes, OneWriter
  <1> QED BY <1>1, <1>2, <1>3

LEMMA BinaryStepsKeep == BinaryInv /\ BinaryNext => BinaryInv'
  <1> SUFFICES ASSUME BinaryInv, BinaryNext PROVE BinaryInv'
    OBVIOUS
  <1>1. BinaryTypes' /\ (Published => Verified')
    BY BinaryTypesKept, VerifiedKept DEF BinaryInv
  <1>2. disturbed => disturbed'
    BY DEF BinaryNext, BeginStart, Download, Fail, Look, CreateFile, FillFile, FillBreaks,
           SetMode, AskRemote, CopyStarts, CopyEnds, CopyBreaks, CopyTimesOut, Chmod, StartProxy
  <1>3. ~disturbed' => Undisturbed'
    <2> SUFFICES ASSUME ~disturbed' PROVE Undisturbed'
      OBVIOUS
    <2>1. Undisturbed /\ BinaryTypes
      BY <1>2 DEF BinaryInv
    <2>2. \A t \in Starts : ~FillBreaks(t) /\ ~CopyBreaks(t)
      BY DEF FillBreaks, CopyBreaks
    <2> QED BY <2>1, <2>2, BeginUndisturbed, CacheUndisturbed, CopyUndisturbed DEF BinaryNext
  <1>4. ~ranHalf'
    <2>1. ASSUME NEW t \in Starts, StartProxy(t) PROVE ~ranHalf'
      <3>1. disturbed \/ Runnable(remote)
        BY <2>1 DEF StartProxy, Goto, BinaryInv, Undisturbed
      <3> QED BY <2>1, <3>1 DEF StartProxy, BinaryInv
    <2>2. (\A t \in Starts : ~StartProxy(t)) => ranHalf' = ranHalf
      BY DEF BinaryNext, BeginStart, Download, Fail, Look, CreateFile, FillFile, FillBreaks,
             SetMode, AskRemote, CopyStarts, CopyEnds, CopyBreaks, CopyTimesOut, Chmod
    <2> QED BY <2>1, <2>2 DEF BinaryInv
  <1> QED BY <1>1, <1>3, <1>4 DEF BinaryInv

LEMMA BinaryStutters == BinaryInv /\ UNCHANGED binaryVars => BinaryInv'
  BY DEF binaryVars, BinaryInv, BinaryTypes, Verified, Undisturbed, Busy1

LEMMA BinaryInvGives == BinaryInv => BinaryWhole
  BY DEF BinaryInv, Verified, BinaryWhole

\* Nothing without the digest of the release gets into either file, and starts that fail,
\* time out or follow each other leave no half binary to be started, for any number of
\* them (prepare_managed_remote_binary).
THEOREM BinaryStaysWhole == BinarySpec => []BinaryWhole
  <1> QED BY BinaryStepsKeep, BinaryStutters, BinaryInvGives, BinaryInitInv, PTL DEF BinarySpec

LEMMA BinaryTypesOK == BinaryTypes => BinaryTypeOK
<1> SUFFICES ASSUME BinaryTypes PROVE BinaryTypeOK
    OBVIOUS
<1>1. \A t \in Starts : bytes[t] \in {Nothing, "release", "wrapper", "other"}
    BY DEF BinaryTypes, Kinds
<1>2. cache.kinds \subseteq {"release", "wrapper", "other"}
      /\ remote.kinds \subseteq {"release", "wrapper", "other"}
    BY DEF BinaryTypes, BinaryFiles, Kinds
<1> QED BY <1>1, <1>2 DEF BinaryTypes, BinaryTypeOK

-----------------------------------------------------------------------------
(* The backups of the projects                                             *)

WorkCopies == [of : SUBSET ProjectKeys, dirty : BOOLEAN, conflict : BOOLEAN, differs : BOOLEAN]
DbRequests == [op : {"put", "delete", "read"}, key : ProjectKeys \cup {NoProject},
               of : SUBSET SUBSET ProjectKeys, disposed : BOOLEAN]
Calls == [kind : {"open", "save", "revert", "reconnect"}, project : ProjectKeys]
Pending == [of : SUBSET ProjectKeys, disposed : BOOLEAN]

ProjectTypes ==
    /\ workspace \in ProjectKeys \cup {NoProject}
    /\ copy \in WorkCopies /\ tab \in {"closed", "loading", "ready", "failed"}
    /\ timer \in BOOLEAN /\ opened \in BOOLEAN
    /\ queue \in Seq(DbRequests)
    /\ db \in [ProjectKeys -> SUBSET SUBSET ProjectKeys]
    /\ calls \subseteq Calls /\ restores \subseteq Pending /\ owed \subseteq ProjectKeys

\* What a request is about to do: a put stores a text of its own project, a delete is for
\* a project whose backup was given up.
Proper(r, given, ready, now) ==
    /\ r.op = "put" => r.key \in ProjectKeys /\ \E o \in SUBSET {r.key} : r.of = {o}
    /\ r.op = "delete" => /\ r.of = {}
                          /\ ready => r.key \in ProjectKeys \ given
                          /\ ~ready => now \in ProjectKeys \ given

\* What is under way is of the project that is open, and the copy too as far as anything
\* may still be done with it.
OneProject ==
    /\ \A r \in restores : r.of \subseteq {workspace}
    /\ \A c \in calls : c.project = workspace
    /\ \/ tab # "closed" \/ \E c \in calls : c.kind # "reconnect"
       \/ timer /\ (copy.dirty \/ copy.conflict)
       => copy.of \subseteq {workspace}
    /\ ~opened /\ workspace # NoProject => Reading
    /\ workspace = NoProject =>
        queue = <<>> /\ calls = {} /\ restores = {} /\ tab = "closed" /\ ~timer

ProjectInv ==
    /\ ProjectTypes /\ OneProject
    /\ \A k \in ProjectKeys : \A of \in db[k] : of \subseteq {k}
    /\ \A k \in owed : db[k] # {}
    /\ \A i \in 1..Len(queue) : Proper(queue[i], owed, opened, workspace)

LEMMA Appended ==
    ASSUME queue \in Seq(DbRequests), NEW e \in DbRequests, queue' = Append(queue, e)
    PROVE  /\ queue' \in Seq(DbRequests)
           /\ \A i \in 1..Len(queue') : queue'[i] = e \/ \E j \in 1..Len(queue) : queue'[i] = queue[j]
           /\ e.op = "read" \/ Reading => Reading'
  <1>1. /\ queue' \in Seq(DbRequests) /\ Len(queue') = Len(queue) + 1 /\ Len(queue) \in Nat
        /\ \A i \in 1..Len(queue) : queue'[i] = queue[i]
        /\ queue'[Len(queue) + 1] = e
    OBVIOUS
  <1>2. \A i \in 1..Len(queue') : queue'[i] = e \/ \E j \in 1..Len(queue) : queue'[i] = queue[j]
    <2> SUFFICES ASSUME NEW i \in 1..Len(queue')
                 PROVE  queue'[i] = e \/ \E j \in 1..Len(queue) : queue'[i] = queue[j]
      OBVIOUS
    <2>1. i \in 1..Len(queue) \/ i = Len(queue) + 1
      BY <1>1
    <2> QED BY <1>1, <2>1
  <1>3. DOMAIN queue = 1..Len(queue) /\ DOMAIN queue' = 1..Len(queue')
    BY <1>1
  <1>4. Reading => Reading'
    <2> SUFFICES ASSUME NEW i \in 1..Len(queue), queue[i].op = "read" PROVE Reading'
      BY <1>3 DEF Reading
    <2>1. i \in 1..Len(queue') /\ queue'[i].op = "read"
      BY <1>1
    <2> QED BY <1>3, <2>1 DEF Reading
  <1>5. e.op = "read" => Reading'
    <2>1. Len(queue) + 1 \in 1..Len(queue')
      BY <1>1
    <2> QED BY <1>1, <1>3, <2>1 DEF Reading
  <1> QED BY <1>1, <1>2, <1>4, <1>5

\* What a project gives up, and nothing else, may change what a request may do.
LEMMA ProperStays ==
    ASSUME NEW r, NEW given, NEW fewer, fewer \subseteq given, NEW ready, NEW now,
           Proper(r, given, ready, now)
    PROVE  Proper(r, fewer, ready, now)
  BY DEF Proper

LEMMA DeleteProper ==
    ASSUME ProjectInv, DeleteBackup, workspace \in ProjectKeys,
           UNCHANGED <<workspace, opened, db>>, owed' = owed \ {workspace}
    PROVE  /\ queue' \in Seq(DbRequests)
           /\ \A i \in 1..Len(queue') : Proper(queue'[i], owed', opened', workspace')
           /\ Reading => Reading'
  <1> DEFINE e == Request("delete", IF opened THEN BackupKey(workspace) ELSE NoProject, {})
  <1>1. queue' = Append(queue, e)
    BY DEF DeleteBackup, Enqueue
  <1>2. e \in DbRequests
    BY DEF Request, DbRequests, BackupKey
  <1>3. Proper(e, owed', opened', workspace')
    BY DEF Request, Proper, BackupKey, ProjectInv, ProjectTypes
  <1>4. \A i \in 1..Len(queue) : Proper(queue[i], owed', opened', workspace')
    BY ProperStays DEF ProjectInv
  <1> HIDE DEF e
  <1>5. queue \in Seq(DbRequests)
    BY DEF ProjectInv, ProjectTypes
  <1> QED BY <1>1, <1>2, <1>3, <1>4, <1>5, Appended

\* The steps that leave the database and its requests alone.
LEMMA QuietProjects ==
    ASSUME ProjectInv, UNCHANGED <<workspace, opened, queue, db>>, owed' \subseteq owed,
           ProjectTypes', restores' \subseteq restores, \A c \in calls' : c.project = workspace,
           timer' => workspace # NoProject, calls' # {} => workspace # NoProject,
           tab' # "closed" => workspace # NoProject,
           \/ copy'.of \subseteq {workspace}
           \/ /\ tab' = "closed" /\ \A c \in calls' : c.kind = "reconnect"
              /\ ~(timer' /\ (copy'.dirty \/ copy'.conflict))
    PROVE  ProjectInv'
  <1>1. OneProject'
    <2>1. Reading => Reading'
      BY DEF Reading
    <2> QED BY <2>1 DEF ProjectInv, OneProject
  <1>2. \A i \in 1..Len(queue') : Proper(queue'[i], owed', opened', workspace')
    BY ProperStays DEF ProjectInv
  <1> QED BY <1>1, <1>2 DEF ProjectInv

\* The steps that delete the backup of the project.
LEMMA DeletingProjects ==
    ASSUME ProjectInv, DeleteBackup, workspace \in ProjectKeys,
           UNCHANGED <<workspace, opened, db, restores, timer>>, owed' = owed \ {workspace},
           copy' \in WorkCopies, tab' \in {"closed", "loading", "ready", "failed"},
           calls' \subseteq calls, copy'.of \subseteq {workspace}
    PROVE  ProjectInv'
  <1>1. /\ queue' \in Seq(DbRequests)
        /\ \A i \in 1..Len(queue') : Proper(queue'[i], owed', opened', workspace')
        /\ Reading => Reading'
    BY DeleteProper
  <1>2. ProjectTypes'
    BY <1>1 DEF ProjectInv, ProjectTypes
  <1>3. OneProject'
    BY <1>1, ProjectsAssumption DEF ProjectInv, OneProject
  <1> QED BY <1>1, <1>2, <1>3 DEF ProjectInv

LEMMA ProjectFile ==
    ASSUME ProjectInv, Open \/ Edit \/ Close \/ \E kind \in {"save", "revert", "reconnect"} : Begin(kind)
    PROVE  ProjectInv'
  <1>1. CASE Open
    <2>1. workspace \in ProjectKeys /\ UNCHANGED <<workspace, opened, queue, db, restores, timer>>
      BY <1>1 DEF Open, Call, ProjectInv, ProjectTypes
    <2>2. PICK differs \in BOOLEAN : copy' = [NoCopy EXCEPT !.differs = differs]
      BY <1>1 DEF Open
    <2>3. copy' \in WorkCopies /\ copy'.of = {}
      BY <2>2 DEF NoCopy, WorkCopies
    <2>4. /\ calls' = calls \cup {[kind |-> "open", project |-> workspace]}
          /\ tab' = "loading" /\ owed' \subseteq owed
      BY <1>1 DEF Open, Call
    <2>5. ProjectTypes'
      BY <2>1, <2>3, <2>4 DEF ProjectInv, ProjectTypes, Calls
    <2>6. \A c \in calls' : c.project = workspace
      BY <2>4 DEF ProjectInv, OneProject
    <2> QED BY <2>1, <2>3, <2>4, <2>5, <2>6, QuietProjects, ProjectsAssumption
  <1>2. CASE Edit
    <2>1. /\ workspace \in ProjectKeys /\ tab = "ready"
          /\ UNCHANGED <<workspace, tab, opened, queue, db, calls, restores, owed>>
      BY <1>2 DEF Edit, ProjectInv, ProjectTypes
    <2>2. copy.of \subseteq {workspace}
      BY <2>1 DEF ProjectInv, OneProject
    <2>3. copy' \in WorkCopies /\ copy'.of = copy.of \cup {workspace} /\ copy'.dirty
      BY <1>2, <2>1 DEF Edit, WorkCopies, ProjectInv, ProjectTypes
    <2>4. timer' = TRUE
      BY <1>2, <2>3 DEF Edit, Scheduled
    <2>5. ProjectTypes'
      BY <2>1, <2>3, <2>4 DEF ProjectInv, ProjectTypes
    <2> QED BY <2>1, <2>2, <2>3, <2>4, <2>5, QuietProjects, ProjectsAssumption
            DEF ProjectInv, OneProject
  <1>3. CASE Close
    <2>1. /\ tab # "closed" /\ tab' = "closed" /\ workspace \in ProjectKeys
          /\ UNCHANGED <<workspace, timer, opened, db, calls, restores>>
      BY <1>3 DEF Close, ProjectInv, ProjectTypes, OneProject
    <2>2. copy.of \subseteq {workspace}
      BY <2>1 DEF ProjectInv, OneProject
    <2>3. CASE copy.dirty \/ copy.conflict \/ copy.differs
      <3>1. /\ DeleteBackup /\ owed' = owed \ {workspace}
            /\ \E differs \in {FALSE, copy.differs} :
                    copy' = [Clean(copy.of) EXCEPT !.differs = differs]
        BY <1>3, <2>3 DEF Close
      <3>2. copy' \in WorkCopies /\ copy'.of = copy.of
        <4>1. PICK differs \in BOOLEAN : copy' = [Clean(copy.of) EXCEPT !.differs = differs]
          BY <3>1 DEF WorkCopies, ProjectInv, ProjectTypes
        <4>2. copy.of \in SUBSET ProjectKeys
          BY DEF WorkCopies, ProjectInv, ProjectTypes
        <4>3. Clean(copy.of) \in WorkCopies /\ Clean(copy.of).of = copy.of
          BY <4>2 DEF Clean, NoCopy, WorkCopies
        <4> HIDE DEF Clean
        <4> QED BY <4>1, <4>3 DEF WorkCopies
      <3> QED BY <2>1, <2>2, <3>1, <3>2, DeletingProjects
    <2>4. CASE ~(copy.dirty \/ copy.conflict \/ copy.differs)
      <3>1. UNCHANGED <<copy, queue, owed>>
        BY <1>3, <2>4 DEF Close
      <3>2. ProjectTypes'
        BY <2>1, <3>1 DEF ProjectInv, ProjectTypes
      <3> QED BY <2>1, <2>2, <3>1, <3>2, QuietProjects, ProjectsAssumption
              DEF ProjectInv, OneProject
    <2> QED BY <2>3, <2>4
  <1>4. ASSUME NEW kind \in {"save", "revert", "reconnect"}, Begin(kind) PROVE ProjectInv'
    <2>1. /\ UNCHANGED <<workspace, copy, tab, timer, opened, queue, db, restores, owed>>
          /\ workspace \in ProjectKeys /\ (kind \in {"save", "revert"} => tab = "ready")
          /\ calls' = calls \cup {[kind |-> kind, project |-> workspace]}
      BY <1>4 DEF Begin, Call, ProjectInv, ProjectTypes
    <2>2. ProjectTypes'
      BY <2>1 DEF ProjectInv, ProjectTypes, Calls
    <2>3. \A c \in calls' : c.project = workspace
      BY <2>1 DEF ProjectInv, OneProject
    <2>4. \/ copy'.of \subseteq {workspace}
          \/ /\ tab' = "closed" /\ \A c \in calls' : c.kind = "reconnect"
             /\ ~(timer' /\ (copy'.dirty \/ copy'.conflict))
      BY <2>1 DEF ProjectInv, OneProject
    <2> QED BY <2>1, <2>2, <2>3, <2>4, QuietProjects, ProjectsAssumption
            DEF ProjectInv, OneProject
  <1> QED BY <1>1, <1>2, <1>3, <1>4

LEMMA CleanCopy ==
    ASSUME NEW of \in SUBSET ProjectKeys
    PROVE  Clean(of) \in WorkCopies /\ Clean(of).of = of
  BY DEF Clean, NoCopy, WorkCopies

LEMMA ProjectAnswered ==
    ASSUME ProjectInv, NEW c \in calls,
           \/ OpenAnswered(c) \/ OpenFailed(c) \/ Saved(c) \/ SaveConflicts(c)
           \/ Reverted(c) \/ Failed(c)
    PROVE  ProjectInv'
  <1>1. c.project = workspace /\ workspace \in ProjectKeys /\ calls' = calls \ {c} /\ c \in Calls
    BY DEF OpenAnswered, OpenFailed, Saved, SaveConflicts, Reverted, Failed, Answer,
           ProjectInv, ProjectTypes, OneProject
  <1>2. c.kind # "reconnect" => copy.of \subseteq {workspace}
    BY DEF ProjectInv, OneProject
  <1>3. copy.of \in SUBSET ProjectKeys /\ {c.project} \in SUBSET ProjectKeys
    BY <1>1 DEF ProjectInv, ProjectTypes, WorkCopies
  <1>4. CASE OpenAnswered(c) \/ Saved(c) \/ Reverted(c)
    <2>1. PICK of \in {copy.of \cup {c.project}, copy.of, {c.project}} : copy' = Clean(of)
      BY <1>4 DEF OpenAnswered, Saved, Reverted
    <2>2. /\ DeleteBackup /\ owed' = owed \ {workspace} /\ c.kind # "reconnect"
          /\ UNCHANGED <<workspace, timer, opened, db, restores>>
          /\ tab' \in {"closed", "loading", "ready", "failed"}
      BY <1>1, <1>4 DEF OpenAnswered, Saved, Reverted, GivenUp, Answer, ProjectInv, ProjectTypes
    <2>3. of \in SUBSET ProjectKeys /\ of \subseteq {workspace}
      BY <1>1, <1>2, <1>3, <2>1, <2>2
    <2>4. copy' \in WorkCopies /\ copy'.of \subseteq {workspace}
      BY <2>1, <2>3, CleanCopy
    <2> QED BY <1>1, <2>2, <2>4, DeletingProjects
  <1>5. CASE OpenFailed(c)
    <2>1. /\ copy' = [copy EXCEPT !.of = @ \cup {c.project}]
          /\ tab' = (IF tab = "loading" THEN "failed" ELSE tab) /\ c.kind = "open"
          /\ UNCHANGED <<workspace, timer, opened, queue, db, restores, owed>>
      BY <1>5 DEF OpenFailed, Answer
    <2>2. copy' \in WorkCopies /\ copy'.of \subseteq {workspace}
      BY <1>1, <1>2, <1>3, <2>1 DEF WorkCopies, ProjectInv, ProjectTypes
    <2>3. ProjectTypes'
      BY <1>1, <2>1, <2>2 DEF ProjectInv, ProjectTypes
    <2> QED BY <1>1, <2>1, <2>2, <2>3, QuietProjects, ProjectsAssumption
            DEF ProjectInv, OneProject
  <1>6. CASE SaveConflicts(c)
    <2>1. /\ copy' = [copy EXCEPT !.conflict = TRUE] /\ c.kind = "save"
          /\ UNCHANGED <<workspace, tab, opened, queue, db, restores, owed>>
          /\ timer' = (timer \/ copy'.dirty \/ copy'.differs)
      BY <1>6 DEF SaveConflicts, Answer, Scheduled
    <2>2. copy' \in WorkCopies /\ copy'.of \subseteq {workspace}
      BY <1>1, <1>2, <2>1 DEF WorkCopies, ProjectInv, ProjectTypes
    <2>3. timer' \in BOOLEAN
      BY <2>1, <2>2 DEF WorkCopies, ProjectInv, ProjectTypes
    <2>4. ProjectTypes'
      BY <1>1, <2>1, <2>2, <2>3 DEF ProjectInv, ProjectTypes
    <2> QED BY <1>1, <2>1, <2>2, <2>4, QuietProjects, ProjectsAssumption
            DEF ProjectInv, OneProject
  <1>7. CASE Failed(c)
    <2>1. UNCHANGED <<workspace, copy, tab, timer, opened, queue, db, restores, owed>>
      BY <1>7 DEF Failed
    <2>2. ProjectTypes'
      BY <1>1, <2>1 DEF ProjectInv, ProjectTypes
    <2>3. \/ copy'.of \subseteq {workspace}
          \/ /\ tab' = "closed" /\ \A d \in calls' : d.kind = "reconnect"
             /\ ~(timer' /\ (copy'.dirty \/ copy'.conflict))
      BY <1>1, <2>1 DEF ProjectInv, OneProject
    <2> QED BY <1>1, <2>1, <2>2, <2>3, QuietProjects, ProjectsAssumption
            DEF ProjectInv, OneProject
  <1> QED BY <1>4, <1>5, <1>6, <1>7

LEMMA ProjectRestored ==
    ASSUME ProjectInv, NEW r \in restores, ApplyRestore(r)
    PROVE  ProjectInv'
  <1>1. /\ r \in Pending /\ r.of \subseteq {workspace} /\ workspace # NoProject
        /\ restores' = restores \ {r}
        /\ UNCHANGED <<workspace, timer, opened, queue, db, calls, owed>>
    BY DEF ApplyRestore, ProjectInv, ProjectTypes, OneProject
  <1>2. PICK conflict \in BOOLEAN :
          copy' = [of |-> r.of, dirty |-> TRUE, conflict |-> conflict, differs |-> TRUE]
    BY DEF ApplyRestore
  <1>3. copy' \in WorkCopies /\ copy'.of = r.of
    BY <1>1, <1>2 DEF WorkCopies, Pending
  <1>4. tab' \in {tab, "ready"}
    BY DEF ApplyRestore
  <1>5. ProjectTypes'
    BY <1>1, <1>3, <1>4 DEF ProjectInv, ProjectTypes
  <1> QED BY <1>1, <1>3, <1>4, <1>5, QuietProjects DEF ProjectInv, OneProject

LEMMA ProjectTimer == ASSUME ProjectInv, FireTimer PROVE ProjectInv'
  <1>1. /\ timer /\ timer' = FALSE /\ workspace \in ProjectKeys
        /\ UNCHANGED <<workspace, copy, tab, opened, db, calls, restores, owed>>
    BY DEF FireTimer, ProjectInv, ProjectTypes, OneProject
  <1>2. /\ queue' \in Seq(DbRequests)
        /\ \A i \in 1..Len(queue') : Proper(queue'[i], owed', opened', workspace')
        /\ Reading => Reading'
    <2>1. CASE copy.dirty \/ copy.conflict
      <3> DEFINE e == Request("put", BackupKey(workspace), {copy.of})
      <3>1. queue' = Append(queue, e)
        BY <2>1 DEF FireTimer, Enqueue
      <3>2. copy.of \subseteq {workspace} /\ copy.of \in SUBSET ProjectKeys
        BY <1>1, <2>1 DEF ProjectInv, ProjectTypes, OneProject, WorkCopies
      <3>3. e \in DbRequests
        BY <1>1, <3>2 DEF Request, DbRequests, BackupKey
      <3>4. Proper(e, owed', opened', workspace')
        BY <1>1, <3>2 DEF Request, Proper, BackupKey
      <3>5. queue \in Seq(DbRequests)
        BY DEF ProjectInv, ProjectTypes
      <3>6. \A i \in 1..Len(queue) : Proper(queue[i], owed', opened', workspace')
        BY <1>1 DEF ProjectInv
      <3> HIDE DEF e
      <3> QED BY <3>1, <3>3, <3>4, <3>5, <3>6, Appended
    <2>2. CASE ~(copy.dirty \/ copy.conflict)
      <3>1. queue' = queue
        BY <2>2 DEF FireTimer
      <3> QED BY <1>1, <3>1 DEF ProjectInv, ProjectTypes, Reading
    <2> QED BY <2>1, <2>2
  <1>3. ProjectTypes'
    BY <1>1, <1>2 DEF ProjectInv, ProjectTypes
  <1>4. OneProject'
    BY <1>1, <1>2, ProjectsAssumption DEF ProjectInv, OneProject
  <1> QED BY <1>1, <1>2, <1>3, <1>4 DEF ProjectInv

LEMMA ProjectDbOpens == ASSUME ProjectInv, OpenDb PROVE ProjectInv'
  <1>1. /\ ~opened /\ opened' = TRUE /\ queue # <<>>
        /\ queue' = [i \in 1..Len(queue) |->
                        IF queue[i].op = "delete" THEN [queue[i] EXCEPT !.key = workspace]
                        ELSE queue[i]]
        /\ UNCHANGED <<workspace, copy, tab, timer, db, calls, restores, owed>>
    BY DEF OpenDb, BackupKey, ProjectInv, ProjectTypes
  <1>2. workspace \in ProjectKeys
    BY <1>1 DEF ProjectInv, ProjectTypes, OneProject
  <1>3. \A i \in 1..Len(queue) :
            queue[i] \in DbRequests /\ Proper(queue[i], owed, opened, workspace)
    BY DEF ProjectInv, ProjectTypes
  <1>4. \A i \in 1..Len(queue) :
            queue'[i] \in DbRequests /\ Proper(queue'[i], owed', opened', workspace')
    <2> SUFFICES ASSUME NEW i \in 1..Len(queue)
                 PROVE  queue'[i] \in DbRequests /\ Proper(queue'[i], owed', opened', workspace')
      OBVIOUS
    <2>1. CASE queue[i].op = "delete"
      <3>1. queue'[i] = [queue[i] EXCEPT !.key = workspace]
        BY <1>1, <2>1
      <3>2. queue[i] \in DbRequests /\ Proper(queue[i], owed, opened, workspace)
        BY <1>3
      <3>3. /\ queue'[i] \in DbRequests /\ queue'[i].op = "delete" /\ queue'[i].key = workspace
            /\ queue'[i].of = queue[i].of
        BY <1>2, <2>1, <3>1, <3>2 DEF DbRequests
      <3> QED BY <1>1, <1>2, <2>1, <3>2, <3>3 DEF Proper
    <2>2. CASE queue[i].op # "delete"
      <3>1. queue'[i] = queue[i]
        BY <1>1, <2>2
      <3> QED BY <1>1, <1>3, <2>2, <3>1 DEF Proper
    <2> QED BY <2>1, <2>2
  <1>5. Len(queue') = Len(queue) /\ queue' \in Seq(DbRequests)
    <2>1. Len(queue) \in Nat
      BY DEF ProjectInv, ProjectTypes
    <2>2. queue' \in [1..Len(queue) -> DbRequests]
      BY <1>1, <1>4
    <2> QED BY <2>1, <2>2
  <1>6. ProjectTypes'
    BY <1>1, <1>5 DEF ProjectInv, ProjectTypes
  <1>7. OneProject'
    BY <1>1, <1>2, ProjectsAssumption DEF ProjectInv, OneProject
  <1> QED BY <1>1, <1>4, <1>5, <1>6, <1>7 DEF ProjectInv

\* What one request does to the database.
LEMMA CarriedDb ==
    ASSUME ProjectInv, opened, NEW r \in DbRequests, Proper(r, owed, TRUE, workspace),
           r.op # "read"
    PROVE  LET d == Carried(db, r) IN
           /\ d \in [ProjectKeys -> SUBSET SUBSET ProjectKeys]
           /\ \A k \in ProjectKeys : \A of \in d[k] : of \subseteq {k}
           /\ \A k \in owed : d[k] # {}
  <1>1. Carried(db, r) = [db EXCEPT ![r.key] = r.of]
    BY DEF Carried
  <1>2. /\ r.key \in ProjectKeys /\ r.of \in SUBSET SUBSET ProjectKeys
        /\ \A of \in r.of : of \subseteq {r.key}
        /\ r.key \in owed => r.of # {}
    BY DEF Proper, DbRequests
  <1> QED BY <1>1, <1>2 DEF ProjectInv, ProjectTypes

LEMMA ProjectDbWorks == ASSUME ProjectInv, CarryOut PROVE ProjectInv'
  <1> DEFINE r == Head(queue)
  <1>1. /\ opened /\ queue # <<>> /\ queue' = Tail(queue) /\ db' = Carried(db, r)
        /\ UNCHANGED <<workspace, copy, tab, timer, opened, calls, owed>>
    BY DEF CarryOut
  <1>2. /\ queue \in Seq(DbRequests) /\ Len(queue) \in Nat \ {0} /\ r = queue[1]
        /\ queue' \in Seq(DbRequests) /\ Len(queue') = Len(queue) - 1
        /\ \A i \in 1..Len(queue') : i + 1 \in 1..Len(queue) /\ queue'[i] = queue[i + 1]
    BY <1>1 DEF ProjectInv, ProjectTypes
  <1>3. r \in DbRequests /\ Proper(r, owed, TRUE, workspace)
    <2>1. 1 \in 1..Len(queue)
      BY <1>2
    <2>2. queue[1] \in DbRequests /\ Proper(queue[1], owed, opened, workspace)
      BY <1>2, <2>1 DEF ProjectInv
    <2> HIDE DEF r
    <2> QED BY <1>1, <1>2, <2>2 DEF Proper
  <1>4. workspace \in ProjectKeys
    BY <1>1 DEF ProjectInv, ProjectTypes, OneProject
  <1> HIDE DEF r
  <1>5. ASSUME NEW i \in 1..Len(queue') PROVE Proper(queue'[i], owed', opened', workspace')
    <2>1. i + 1 \in 1..Len(queue) /\ queue'[i] = queue[i + 1]
      BY <1>2
    <2>2. Proper(queue[i + 1], owed, opened, workspace)
      BY <2>1 DEF ProjectInv
    <2> QED BY <1>1, <2>1, <2>2
  <1>6. /\ db' \in [ProjectKeys -> SUBSET SUBSET ProjectKeys]
        /\ \A k \in ProjectKeys : \A of \in db'[k] : of \subseteq {k}
        /\ \A k \in owed : db'[k] # {}
    <2>1. CASE r.op = "read"
      BY <1>1, <2>1 DEF Carried, ProjectInv, ProjectTypes
    <2>2. CASE r.op # "read"
      BY <1>1, <1>3, <2>2, CarriedDb
    <2> QED BY <2>1, <2>2
  <1>7. restores' \subseteq Pending /\ \A x \in restores' : x.of \subseteq {workspace}
    <2>1. CASE r.op # "read"
      BY <2>1 DEF CarryOut, r, ProjectInv, ProjectTypes, OneProject
    <2>2. CASE r.op = "read"
      <3>1. restores' = restores \cup {[of |-> of, disposed |-> r.disposed] : of \in db[workspace]}
        BY <2>2 DEF CarryOut, BackupKey, r
      <3>2. \A of \in db[workspace] : of \subseteq {workspace} /\ of \in SUBSET ProjectKeys
        BY <1>4 DEF ProjectInv, ProjectTypes
      <3>3. r.disposed \in BOOLEAN
        BY <1>3 DEF DbRequests
      <3> QED BY <3>1, <3>2, <3>3 DEF ProjectInv, ProjectTypes, OneProject, Pending
    <2> QED BY <2>1, <2>2
  <1>8. ProjectTypes'
    BY <1>1, <1>2, <1>6, <1>7 DEF ProjectInv, ProjectTypes
  <1>9. OneProject'
    BY <1>1, <1>4, <1>7, ProjectsAssumption DEF ProjectInv, OneProject
  <1> QED BY <1>1, <1>5, <1>6, <1>8, <1>9 DEF ProjectInv

LEMMA ProjectOpens ==
    ASSUME ProjectInv, ~Crosses, NEW k \in ProjectKeys, SetSession(k), calls' \subseteq calls
    PROVE  ProjectInv'
  <1>1. /\ workspace' = k /\ (k # workspace => ~Busy)
        /\ restores' = {[r EXCEPT !.disposed = TRUE] : r \in restores}
        /\ UNCHANGED <<copy, tab, timer, opened, db, owed>>
    BY DEF SetSession
  <1> DEFINE disposed == [i \in 1..Len(queue) |-> [queue[i] EXCEPT !.disposed = TRUE]]
             e == Request("read", NoProject, {})
  <1>2. queue' = Append(disposed, e)
    <2>1. DOMAIN queue = 1..Len(queue)
      BY DEF ProjectInv, ProjectTypes
    <2> QED BY <2>1 DEF SetSession
  <1>3. queue \in Seq(DbRequests) /\ Len(queue) \in Nat
    BY DEF ProjectInv, ProjectTypes
  <1>4. \A i \in 1..Len(queue) :
            /\ disposed[i] \in DbRequests /\ disposed[i].op = queue[i].op
            /\ disposed[i].key = queue[i].key /\ disposed[i].of = queue[i].of
    <2> SUFFICES ASSUME NEW i \in 1..Len(queue)
                 PROVE  /\ disposed[i] \in DbRequests /\ disposed[i].op = queue[i].op
                        /\ disposed[i].key = queue[i].key /\ disposed[i].of = queue[i].of
      OBVIOUS
    <2>1. queue[i] \in DbRequests /\ disposed[i] = [queue[i] EXCEPT !.disposed = TRUE]
      BY <1>3
    <2> QED BY <2>1 DEF DbRequests
  <1>5. e \in DbRequests /\ e.op = "read"
    BY DEF Request, DbRequests
  <1> HIDE DEF e, disposed
  <1>6. disposed \in Seq(DbRequests) /\ Len(disposed) = Len(queue)
    <2>1. disposed \in [1..Len(queue) -> DbRequests]
      BY <1>4 DEF disposed
    <2> QED BY <1>3, <2>1
  <1>7. /\ queue' \in Seq(DbRequests) /\ Len(queue') = Len(queue) + 1
        /\ queue'[Len(queue) + 1] = e
        /\ \A i \in 1..Len(queue) : queue'[i] = disposed[i]
    BY <1>2, <1>3, <1>5, <1>6
  <1>8. Reading'
    <2>1. Len(queue) + 1 \in DOMAIN queue'
      BY <1>3, <1>7
    <2> QED BY <1>5, <1>7, <2>1 DEF Reading
  <1>9. \* A delete that waits for the database to open waits behind a read.
        k # workspace => opened \/ queue = <<>>
    BY <1>1 DEF Busy, ProjectInv, ProjectTypes, OneProject
  <1>10. ASSUME NEW i \in 1..Len(queue') PROVE Proper(queue'[i], owed', opened', workspace')
    <2>1. CASE i = Len(queue) + 1
      BY <1>5, <1>7, <2>1 DEF Proper
    <2>2. CASE i \in 1..Len(queue)
      <3>1. Proper(queue[i], owed, opened, workspace)
        BY <2>2 DEF ProjectInv
      <3>2. k = workspace \/ opened
        BY <1>3, <1>9, <2>2
      <3>3. /\ queue'[i].op = queue[i].op /\ queue'[i].key = queue[i].key
            /\ queue'[i].of = queue[i].of
        BY <1>4, <1>7, <2>2
      <3> QED BY <1>1, <3>1, <3>2, <3>3 DEF Proper
    <2> QED BY <1>3, <1>7, <2>1, <2>2
  <1>11. restores' \subseteq Pending /\ \A r \in restores' : r.of \subseteq {k}
    <2>1. k # workspace => restores = {}
      BY <1>1 DEF Busy
    <2>2. \A r \in restores : r \in Pending /\ r.of \subseteq {workspace}
      BY DEF ProjectInv, ProjectTypes, OneProject
    <2>3. \A r \in restores : [r EXCEPT !.disposed = TRUE] \in Pending
                              /\ [r EXCEPT !.disposed = TRUE].of = r.of
      BY <2>2 DEF Pending
    <2> QED BY <1>1, <2>1, <2>2, <2>3
  <1>12. \A c \in calls' : c.project = k
    BY <1>1 DEF Busy, ProjectInv, OneProject
  <1>13. \/ tab # "closed" \/ \E c \in calls' : c.kind # "reconnect"
         \/ timer /\ (copy.dirty \/ copy.conflict)
         => copy.of \subseteq {k}
    BY <1>1 DEF Busy, ProjectInv, OneProject
  <1>14. ProjectTypes'
    BY <1>1, <1>7, <1>11 DEF ProjectInv, ProjectTypes
  <1>15. OneProject'
    BY <1>1, <1>8, <1>11, <1>12, <1>13, ProjectsAssumption DEF OneProject
  <1> QED BY <1>1, <1>10, <1>14, <1>15 DEF ProjectInv

LEMMA ProjectReloads == ASSUME ProjectInv, ReloadPage PROVE ProjectInv'
  <1>1. /\ owed' = {k \in ProjectKeys : db'[k] # {}}
        /\ workspace' = NoProject /\ copy' = NoCopy /\ tab' = "closed" /\ timer' = FALSE
        /\ opened' = FALSE /\ queue' = <<>> /\ calls' = {} /\ restores' = {}
    BY DEF ReloadPage, BackupKey
  <1> PICK n \in 0..(IF opened THEN Len(queue) ELSE 0) : \E last \in [ProjectKeys -> 0..n] :
          /\ \A k \in ProjectKeys : LastWrite(k, n, last[k])
          /\ db' = [k \in ProjectKeys |-> IF last[k] = 0 THEN db[k] ELSE queue[last[k]].of]
    BY DEF ReloadPage
  <1>2. PICK last \in [ProjectKeys -> 0..n] :
          /\ \A k \in ProjectKeys : LastWrite(k, n, last[k])
          /\ db' = [k \in ProjectKeys |-> IF last[k] = 0 THEN db[k] ELSE queue[last[k]].of]
    OBVIOUS
  <1>3. ASSUME NEW k \in ProjectKeys
        PROVE  db'[k] \in SUBSET SUBSET ProjectKeys /\ \A of \in db'[k] : of \subseteq {k}
    <2>1. CASE last[k] = 0
      BY <1>2, <2>1 DEF ProjectInv, ProjectTypes
    <2>2. CASE last[k] # 0
      <3>1. opened /\ last[k] \in 1..Len(queue)
        BY <1>2, <2>2 DEF ProjectInv, ProjectTypes
      <3>2. queue[last[k]] \in DbRequests /\ Proper(queue[last[k]], owed, opened, workspace)
        <4>1. \A i \in 1..Len(queue) :
                    queue[i] \in DbRequests /\ Proper(queue[i], owed, opened, workspace)
          BY DEF ProjectInv, ProjectTypes
        <4> QED BY <3>1, <4>1
      <3>3. queue[last[k]].op \in {"put", "delete"} /\ queue[last[k]].key = k
        BY <1>2, <2>2, <3>2 DEF LastWrite, Writes, DbRequests
      <3>4. db'[k] = queue[last[k]].of
        BY <1>2, <2>2
      <3> QED BY <3>2, <3>3, <3>4 DEF Proper, DbRequests
    <2> QED BY <2>1, <2>2
  <1>4. db' \in [ProjectKeys -> SUBSET SUBSET ProjectKeys]
    BY <1>2, <1>3
  <1>5. ProjectTypes'
    <2>1. copy' \in WorkCopies
      BY <1>1 DEF NoCopy, WorkCopies
    <2>2. owed' \subseteq ProjectKeys
      BY <1>1
    <2>3. queue' \in Seq(DbRequests)
      BY <1>1
    <2> QED BY <1>1, <1>4, <2>1, <2>2, <2>3 DEF ProjectTypes
  <1>6. OneProject'
    BY <1>1 DEF OneProject, NoCopy
  <1> QED BY <1>1, <1>3, <1>5, <1>6 DEF ProjectInv

\* When no session is opened over anything of another project, each project finds its
\* backups as it left them, for any projects and any number of requests and calls, however
\* often the page is loaded again (bufferRuntime.js: the backups; useRemoteWorkspace.js).
THEOREM BackupsStayApart ==
    ASSUME ~Crosses PROVE BackupsSpec => []BackupsApart
  <1>1. BackupsInit => ProjectInv
    <2> SUFFICES ASSUME BackupsInit PROVE ProjectInv
      OBVIOUS
    <2>1. ProjectTypes
      <3>1. copy \in WorkCopies
        BY DEF BackupsInit, NoCopy, WorkCopies
      <3>2. queue \in Seq(DbRequests)
        BY DEF BackupsInit
      <3> QED BY <3>1, <3>2 DEF BackupsInit, ProjectTypes
    <2>2. OneProject
      BY DEF BackupsInit, OneProject, NoCopy
    <2> QED BY <2>1, <2>2 DEF BackupsInit, ProjectInv
  <1>2. ProjectInv /\ [BackupsNext]_backupsVars => ProjectInv'
    <2> SUFFICES ASSUME ProjectInv, [BackupsNext]_backupsVars PROVE ProjectInv'
      OBVIOUS
    <2>1. CASE UNCHANGED backupsVars
      BY <2>1 DEF backupsVars, ProjectInv, ProjectTypes, OneProject, Reading
    <2>2. ASSUME NEW k \in ProjectKeys, OpenProject(k) PROVE ProjectInv'
      BY <2>2, ProjectOpens DEF OpenProject
    <2>3. ASSUME NEW c \in calls, Reconnected(c) PROVE ProjectInv'
      <3>1. c.project \in ProjectKeys /\ SetSession(c.project) /\ calls' \subseteq calls
        BY <2>3 DEF Reconnected, Answer, ProjectInv, ProjectTypes, Calls
      <3> QED BY <3>1, ProjectOpens
    <2> QED BY <2>1, <2>2, <2>3, ProjectDbOpens, ProjectDbWorks, ProjectTimer, ProjectRestored,
               ProjectFile, ProjectAnswered, ProjectReloads
            DEF BackupsNext
  <1>3. ProjectInv => BackupsApart
    BY DEF ProjectInv, OneProject, BackupsApart
  <1> QED BY <1>1, <1>2, <1>3, PTL DEF BackupsSpec

-----------------------------------------------------------------------------
(* The types of the backups                                                *)

(* The types are kept however projects cross.  Before the first session of a page nothing
   is under way that would name a project. *)
BackupTypes ==
    /\ ProjectTypes
    /\ workspace = NoProject =>
        queue = <<>> /\ calls = {} /\ restores = {} /\ tab = "closed" /\ ~timer

LEMMA BackupTypesStart == BackupsInit => BackupTypes
<1> SUFFICES ASSUME BackupsInit PROVE BackupTypes
    OBVIOUS
<1>1. copy \in WorkCopies
    BY DEF BackupsInit, NoCopy, WorkCopies
<1>2. queue \in Seq(DbRequests)
    BY DEF BackupsInit
<1> QED BY <1>1, <1>2 DEF BackupsInit, ProjectTypes, BackupTypes

LEMMA MoreQueued ==
    ASSUME ProjectTypes, NEW e \in DbRequests, queue' = Append(queue, e)
    PROVE  queue' \in Seq(DbRequests)
BY DEF ProjectTypes

LEMMA DeleteQueued ==
    ASSUME ProjectTypes, DeleteBackup
    PROVE  queue' \in Seq(DbRequests)
<1> DEFINE e == Request("delete", IF opened THEN BackupKey(workspace) ELSE NoProject, {})
<1>1. e \in DbRequests
    BY DEF Request, BackupKey, ProjectTypes, DbRequests
<1>2. queue' = Append(queue, e)
    BY DEF DeleteBackup, Enqueue
<1> HIDE DEF e
<1> QED BY <1>1, <1>2, MoreQueued

LEMMA DatabaseTypes ==
    ASSUME BackupTypes, OpenDb \/ CarryOut \/ FireTimer PROVE BackupTypes'
<1>1. /\ queue \in Seq(DbRequests) /\ DOMAIN queue = 1..Len(queue) /\ Len(queue) \in Nat
      /\ \A i \in 1..Len(queue) : queue[i] \in DbRequests
    BY DEF BackupTypes, ProjectTypes
<1>2. workspace \in ProjectKeys \cup {NoProject}
    BY DEF BackupTypes, ProjectTypes
<1>3. CASE OpenDb
    <2> DEFINE new(i) == IF queue[i].op = "delete" THEN [queue[i] EXCEPT !.key = workspace]
                         ELSE queue[i]
               keyed == [i \in 1..Len(queue) |-> new(i)]
    <2>1. \A i \in 1..Len(queue) : new(i) \in DbRequests
        <3> SUFFICES ASSUME NEW i \in 1..Len(queue) PROVE new(i) \in DbRequests
            OBVIOUS
        <3>1. queue[i] \in DbRequests
            BY <1>1
        <3> QED BY <1>2, <3>1 DEF DbRequests
    <2>2. queue' = keyed
        BY <1>1, <1>3 DEF OpenDb, BackupKey
    <2> HIDE DEF new
    <2>3. keyed \in [1..Len(queue) -> DbRequests]
        BY <2>1
    <2>4. keyed \in Seq(DbRequests)
        BY <1>1, <2>3
    <2>5. queue # <<>> /\ opened' = TRUE
          /\ UNCHANGED <<workspace, copy, tab, timer, db, calls, restores, owed>>
        BY <1>3 DEF OpenDb
    <2> HIDE DEF keyed
    <2> QED BY <2>2, <2>4, <2>5 DEF BackupTypes, ProjectTypes
<1>4. CASE CarryOut
    <2> DEFINE r == Head(queue)
    <2>1. /\ queue # <<>> /\ queue' = Tail(queue) /\ db' = Carried(db, r)
          /\ UNCHANGED <<workspace, copy, tab, timer, opened, calls, owed>>
        BY <1>4 DEF CarryOut
    <2>2. r \in DbRequests /\ queue' \in Seq(DbRequests)
        BY <1>1, <2>1
    <2>3. workspace \in ProjectKeys
        BY <1>2, <2>1 DEF BackupTypes
    <2>4. restores' \subseteq Pending
        <3>1. db[workspace] \subseteq SUBSET ProjectKeys /\ restores \subseteq Pending
            BY <2>3 DEF BackupTypes, ProjectTypes
        <3>2. r.disposed \in BOOLEAN
            BY <2>2 DEF DbRequests
        <3>3. {[of |-> of, disposed |-> r.disposed] : of \in db[workspace]} \subseteq Pending
            BY <3>1, <3>2 DEF Pending
        <3>4. restores' \in {restores, restores \cup
                               {[of |-> of, disposed |-> r.disposed] : of \in db[workspace]}}
            BY <1>4 DEF CarryOut, BackupKey
        <3> QED BY <3>1, <3>3, <3>4
    <2> HIDE DEF r
    <2>5. db' \in [ProjectKeys -> SUBSET SUBSET ProjectKeys]
        BY <2>1, <2>2 DEF Carried, DbRequests, BackupTypes, ProjectTypes
    <2> QED BY <2>1, <2>2, <2>3, <2>4, <2>5, ProjectsAssumption DEF BackupTypes, ProjectTypes
<1>5. CASE FireTimer
    <2>1. timer /\ timer' = FALSE
          /\ UNCHANGED <<workspace, copy, tab, opened, db, calls, restores, owed>>
        BY <1>5 DEF FireTimer
    <2>2. workspace \in ProjectKeys
        BY <1>2, <2>1 DEF BackupTypes
    <2>3. queue' \in Seq(DbRequests)
        <3> DEFINE e == Request("put", BackupKey(workspace), {copy.of})
        <3>1. queue' = Append(queue, e) \/ queue' = queue
            BY <1>5 DEF FireTimer, Enqueue
        <3>2. e \in DbRequests
            BY <2>2 DEF Request, BackupKey, DbRequests, BackupTypes, ProjectTypes, WorkCopies
        <3> HIDE DEF e
        <3> QED BY <1>1, <3>1, <3>2
    <2> QED BY <2>1, <2>2, <2>3, ProjectsAssumption DEF BackupTypes, ProjectTypes
<1> QED BY <1>3, <1>4, <1>5

LEMMA SessionTypes ==
    ASSUME BackupTypes, NEW k \in ProjectKeys, SetSession(k), calls' \subseteq calls
    PROVE  BackupTypes'
<1> DEFINE new(i) == [queue[i] EXCEPT !.disposed = TRUE]
           noted == [i \in 1..Len(queue) |-> new(i)]
           e == Request("read", NoProject, {})
<1>1. /\ queue \in Seq(DbRequests) /\ DOMAIN queue = 1..Len(queue) /\ Len(queue) \in Nat
      /\ \A i \in 1..Len(queue) : queue[i] \in DbRequests
    BY DEF BackupTypes, ProjectTypes
<1>2. \A i \in 1..Len(queue) : new(i) \in DbRequests
    BY <1>1 DEF DbRequests
<1>3. queue' = Append(noted, e)
    BY <1>1 DEF SetSession
<1>4. e \in DbRequests
    BY DEF Request, DbRequests
<1> HIDE DEF new, e
<1>5. noted \in Seq(DbRequests)
    <2>1. noted \in [1..Len(queue) -> DbRequests]
        BY <1>2
    <2> QED BY <1>1, <2>1
<1> HIDE DEF noted
<1>6. queue' \in Seq(DbRequests)
    BY <1>3, <1>4, <1>5
<1>7. restores' \subseteq Pending
    <2>1. \A r \in restores : r \in Pending
        BY DEF BackupTypes, ProjectTypes
    <2>2. \A r \in restores : [r EXCEPT !.disposed = TRUE] \in Pending
        BY <2>1 DEF Pending
    <2>3. restores' = {[r EXCEPT !.disposed = TRUE] : r \in restores}
        BY DEF SetSession
    <2> QED BY <2>2, <2>3
<1>8. workspace' = k /\ k # NoProject /\ UNCHANGED <<copy, tab, timer, opened, db, owed>>
    BY ProjectsAssumption DEF SetSession
<1> QED BY <1>6, <1>7, <1>8 DEF BackupTypes, ProjectTypes

LEMMA FileTypes ==
    ASSUME BackupTypes, Open \/ Edit \/ Close \/ \E kind \in {"save", "revert", "reconnect"} : Begin(kind)
    PROVE  BackupTypes'
<1>1. /\ workspace' = workspace /\ workspace \in ProjectKeys
      /\ UNCHANGED <<opened, db, restores>>
    <2>1. workspace # NoProject
        BY DEF Open, Edit, Close, Begin, Call, BackupTypes
    <2>2. UNCHANGED <<workspace, opened, db, restores>>
        BY DEF Open, Edit, Close, Begin
    <2> QED BY <2>1, <2>2 DEF BackupTypes, ProjectTypes
<1>2. calls' \subseteq Calls
    BY <1>1 DEF Open, Edit, Close, Begin, Call, BackupTypes, ProjectTypes, Calls
<1>3. queue' \in Seq(DbRequests)
    <2>1. queue' = queue \/ DeleteBackup
        BY DEF Open, Edit, Close, Begin
    <2> QED BY <2>1, DeleteQueued DEF BackupTypes, ProjectTypes
<1>4. copy' \in WorkCopies
    <2>1. copy \in WorkCopies
        BY DEF BackupTypes, ProjectTypes
    <2>2. CASE Open
        BY <2>2 DEF Open, NoCopy, WorkCopies
    <2>3. CASE Edit
        BY <1>1, <2>1, <2>3 DEF Edit, WorkCopies
    <2>4. CASE Close
        BY <2>1, <2>4 DEF Close, Clean, NoCopy, WorkCopies
    <2>5. ASSUME NEW kind, Begin(kind) PROVE copy' \in WorkCopies
        BY <2>1, <2>5 DEF Begin
    <2> QED BY <2>2, <2>3, <2>4, <2>5
<1>5. /\ tab' \in {"closed", "loading", "ready", "failed"} /\ timer' \in BOOLEAN
      /\ owed' \subseteq ProjectKeys
    <2>1. copy'.dirty \in BOOLEAN /\ copy'.differs \in BOOLEAN
        BY <1>4 DEF WorkCopies
    <2> QED BY <2>1 DEF Open, Edit, Close, Begin, Scheduled, BackupTypes, ProjectTypes
<1> QED BY <1>1, <1>2, <1>3, <1>4, <1>5, ProjectsAssumption DEF BackupTypes, ProjectTypes

LEMMA AnswerTypes ==
    ASSUME BackupTypes, NEW c \in calls,
           \/ OpenAnswered(c) \/ OpenFailed(c) \/ Saved(c) \/ SaveConflicts(c)
           \/ Reverted(c) \/ Failed(c)
    PROVE  BackupTypes'
<1>1. /\ workspace' = workspace /\ workspace \in ProjectKeys /\ c.project \in ProjectKeys
      /\ UNCHANGED <<opened, db, restores>> /\ calls' \subseteq Calls
    BY DEF OpenAnswered, OpenFailed, Saved, SaveConflicts, Reverted, Failed, Answer, BackupTypes,
           ProjectTypes, Calls
<1>2. queue' \in Seq(DbRequests)
    <2>1. queue' = queue \/ DeleteBackup
        BY DEF OpenAnswered, OpenFailed, Saved, SaveConflicts, Reverted, Failed
    <2> QED BY <2>1, DeleteQueued DEF BackupTypes, ProjectTypes
<1>3. copy' \in WorkCopies
    <2>1. copy \in WorkCopies
        BY DEF BackupTypes, ProjectTypes
    <2>2. CASE OpenAnswered(c)
        BY <1>1, <2>1, <2>2 DEF OpenAnswered, Clean, NoCopy, WorkCopies
    <2>3. CASE OpenFailed(c) \/ SaveConflicts(c) \/ Failed(c)
        BY <1>1, <2>1, <2>3 DEF OpenFailed, SaveConflicts, Failed, WorkCopies
    <2>4. CASE Saved(c) \/ Reverted(c)
        BY <1>1, <2>1, <2>4 DEF Saved, Reverted, Clean, NoCopy, WorkCopies
    <2> QED BY <2>2, <2>3, <2>4
<1>4. timer' \in BOOLEAN
    <2>1. copy'.dirty \in BOOLEAN /\ copy'.differs \in BOOLEAN
        BY <1>3 DEF WorkCopies
    <2> QED BY <2>1 DEF OpenAnswered, OpenFailed, Saved, SaveConflicts, Reverted, Failed, Scheduled,
                       BackupTypes, ProjectTypes
<1>5. tab' \in {"closed", "loading", "ready", "failed"} /\ owed' \subseteq ProjectKeys
    BY DEF OpenAnswered, OpenFailed, Saved, SaveConflicts, Reverted, Failed, GivenUp, BackupTypes,
           ProjectTypes
<1> QED BY <1>1, <1>2, <1>3, <1>4, <1>5, ProjectsAssumption DEF BackupTypes, ProjectTypes

LEMMA RestoreTypes ==
    ASSUME BackupTypes, NEW r \in restores, ApplyRestore(r) PROVE BackupTypes'
<1>1. workspace' = workspace /\ workspace \in ProjectKeys /\ r \in Pending
    BY DEF ApplyRestore, BackupTypes, ProjectTypes
<1>2. copy' \in WorkCopies
    BY <1>1 DEF ApplyRestore, Pending, WorkCopies
<1> QED BY <1>1, <1>2, ProjectsAssumption DEF ApplyRestore, BackupTypes, ProjectTypes

LEMMA ReloadTypes == ASSUME BackupTypes, ReloadPage PROVE BackupTypes'
<1>1. /\ workspace' = NoProject /\ copy' = NoCopy /\ tab' = "closed" /\ timer' = FALSE
      /\ opened' = FALSE /\ queue' = <<>> /\ calls' = {} /\ restores' = {}
      /\ owed' \subseteq ProjectKeys
    BY DEF ReloadPage
<1>2. db' \in [ProjectKeys -> SUBSET SUBSET ProjectKeys]
    <2>1. PICK n \in 0..(IF opened THEN Len(queue) ELSE 0) : \E last \in [ProjectKeys -> 0..n] :
            db' = [k \in ProjectKeys |-> IF last[k] = 0 THEN db[k] ELSE queue[last[k]].of]
        BY DEF ReloadPage
    <2>2. PICK last \in [ProjectKeys -> 0..n] :
            db' = [k \in ProjectKeys |-> IF last[k] = 0 THEN db[k] ELSE queue[last[k]].of]
        BY <2>1
    <2>3. /\ Len(queue) \in Nat /\ \A i \in 1..Len(queue) : queue[i] \in DbRequests
          /\ db \in [ProjectKeys -> SUBSET SUBSET ProjectKeys]
        BY DEF BackupTypes, ProjectTypes
    <2>4. \A i \in 1..Len(queue) : queue[i].of \in SUBSET SUBSET ProjectKeys
        BY <2>3 DEF DbRequests
    <2>5. \A k \in ProjectKeys : last[k] \in 0..Len(queue)
        BY <2>3
    <2> QED BY <2>2, <2>3, <2>4, <2>5
<1>3. copy' \in WorkCopies /\ queue' \in Seq(DbRequests)
    BY <1>1 DEF NoCopy, WorkCopies
<1> QED BY <1>1, <1>2, <1>3 DEF BackupTypes, ProjectTypes

LEMMA BackupTypesKept == BackupTypes /\ [BackupsNext]_backupsVars => BackupTypes'
<1> SUFFICES ASSUME BackupTypes, [BackupsNext]_backupsVars PROVE BackupTypes'
    OBVIOUS
<1>1. ASSUME NEW k \in ProjectKeys, OpenProject(k) PROVE BackupTypes'
    BY <1>1, SessionTypes DEF OpenProject
<1>2. ASSUME NEW c \in calls, Reconnected(c) PROVE BackupTypes'
    <2>1. c.project \in ProjectKeys /\ SetSession(c.project) /\ calls' \subseteq calls
        BY <1>2 DEF Reconnected, Answer, BackupTypes, ProjectTypes, Calls
    <2> QED BY <2>1, SessionTypes
<1>3. CASE UNCHANGED backupsVars
    BY <1>3 DEF backupsVars, BackupTypes, ProjectTypes
<1> QED BY <1>1, <1>2, <1>3, DatabaseTypes, FileTypes, AnswerTypes, RestoreTypes, ReloadTypes
        DEF BackupsNext

LEMMA BackupTypesOK == BackupTypes => BackupsTypeOK
BY DEF BackupTypes, ProjectTypes, WorkCopies, BackupsTypeOK

-----------------------------------------------------------------------------
(* Key strokes                                                             *)

\* The first strokes of the chords, none of which is bound by itself.
Firsts == {Plain("shift"), Ctrl("k")}

\* The bindings of two strokes, by their places in AllBindings.
Chords == {2, 5, 15}

\* What the proofs need of the table of bindings.
LEMMA BindingTable ==
    /\ DOMAIN AllBindings = 1..16
    /\ \A i \in (1..16) \ Chords : \E s : AllBindings[i].sequence = <<s>> /\ s \notin Firsts
    /\ AllBindings[2].sequence = <<Plain("shift"), Plain("shift")>>
    /\ AllBindings[5].sequence = <<Ctrl("k"), Ctrl("s")>>
    /\ AllBindings[15].sequence = <<Ctrl("k"), Ctrl("t")>>
    /\ \A i \in Chords : AllBindings[i].global = FALSE /\ AllBindings[i].command \in
            {"commandPalette.toggle", "zed.openKeymap", "themeSelector.toggle"}
  <1>1. \A m, k : Ctrl(k).mods = {"ctrl"} /\ CtrlAlt(k).mods = {"ctrl", "alt"}
                  /\ CtrlShift(k).mods = {"ctrl", "shift"} /\ Plain(k).mods = {}
                  /\ Ctrl(k).key = k /\ Plain(k).key = k
    BY DEF Ctrl, CtrlAlt, CtrlShift, Plain
  <1>2. {"ctrl"} # {} /\ {"ctrl", "alt"} # {} /\ {"ctrl", "shift"} # {}
        /\ {"ctrl"} # {"ctrl", "alt"} /\ {"ctrl"} # {"ctrl", "shift"}
    OBVIOUS
  <1>3. /\ \A k : CtrlAlt(k) \notin Firsts /\ CtrlShift(k) \notin Firsts
        /\ \A k : k # "k" => Ctrl(k) \notin Firsts
        /\ Plain("f1") \notin Firsts
    BY <1>1, <1>2 DEF Firsts
  <1>4. \A c, s : Binding(c, s).sequence = s /\ Binding(c, s).command = c
                  /\ Binding(c, s).global = FALSE
                  /\ [Binding(c, s) EXCEPT !.global = TRUE].sequence = s
    BY DEF Binding
  <1>5. DOMAIN AllBindings = 1..16
    BY DEF AllBindings
  <1>6. /\ AllBindings[2] = Binding("commandPalette.toggle", <<Plain("shift"), Plain("shift")>>)
        /\ AllBindings[5] = Binding("zed.openKeymap", <<Ctrl("k"), Ctrl("s")>>)
        /\ AllBindings[15] = Binding("themeSelector.toggle", <<Ctrl("k"), Ctrl("t")>>)
    BY DEF AllBindings
  <1>7. /\ AllBindings[1].sequence = <<CtrlAlt("s")>>
        /\ AllBindings[3].sequence = <<CtrlShift("p")>>
        /\ AllBindings[4].sequence = <<Plain("f1")>>
        /\ AllBindings[6].sequence = <<CtrlShift("x")>>
        /\ AllBindings[7].sequence = <<Ctrl("s")>>
        /\ AllBindings[8].sequence = <<Ctrl("f")>>
        /\ AllBindings[9].sequence = <<CtrlShift("f")>>
        /\ AllBindings[10].sequence = <<CtrlShift("m")>>
        /\ AllBindings[11].sequence = <<Ctrl("b")>>
        /\ AllBindings[12].sequence = <<CtrlAlt("b")>>
        /\ AllBindings[13].sequence = <<Ctrl("j")>>
        /\ AllBindings[14].sequence = <<CtrlAlt("y")>>
        /\ AllBindings[16].sequence = <<CtrlShift("i")>>
    BY <1>4 DEF AllBindings
  <1>8. \A i \in (1..16) \ Chords : i \in {1, 3, 4, 6, 7, 8, 9, 10, 11, 12, 13, 14, 16}
    BY DEF Chords
  <1>9. "s" # "k" /\ "f" # "k" /\ "b" # "k" /\ "j" # "k"
    OBVIOUS
  <1>10. \A i \in {1, 3, 4, 6, 7, 8, 9, 10, 11, 12, 13, 14, 16} :
            \E s : AllBindings[i].sequence = <<s>> /\ s \notin Firsts
    BY <1>3, <1>7, <1>9
  <1> QED BY <1>4, <1>5, <1>6, <1>8, <1>10 DEF Chords

\* A chord in use whose first stroke is s.
BeginsChord(s) ==
    \E i \in Chords : AllBindings[i].command \in Commands /\ AllBindings[i].sequence[1] = s

\* Where chords are not suppressed nothing else turns one off.
LEMMA ChordActive ==
    ASSUME ~Suppressed, NEW i \in Chords
    PROVE  Active(AllBindings[i]) <=> AllBindings[i].command \in Commands
  <1>1. /\ AllBindings[i].command # "file.save"
        /\ AllBindings[i].command # "editPrediction.toggleMenu"
    BY BindingTable
  <1>2. ~ui.palette
    BY DEF Suppressed
  <1>3. When(AllBindings[i])
    BY <1>1, <1>2 DEF When
  <1> QED BY <1>3 DEF Active

LEMMA ChordShape ==
    ASSUME NEW i \in Chords
    PROVE  \E a, b : AllBindings[i].sequence = <<a, b>> /\ a \in Firsts
  BY BindingTable DEF Chords, Firsts

\* Prefixes of one stroke or two.
LEMMA ShortPrefixes ==
    /\ \A a, b : IsPrefix(<<a>>, <<b>>) <=> a = b
    /\ \A a, b, c : IsPrefix(<<a>>, <<b, c>>) <=> a = b
    /\ \A a, b, c : ~IsPrefix(<<a, b>>, <<c>>)
    /\ \A a, b, c, d : IsPrefix(<<a, b>>, <<c, d>>) <=> a = c /\ b = d
  <1>1. /\ \A a : SubSeq(<<a>>, 1, 1) = <<a>>
        /\ \A a, b : SubSeq(<<a, b>>, 1, 1) = <<a>> /\ SubSeq(<<a, b>>, 1, 2) = <<a, b>>
    <2>1. ASSUME NEW a PROVE SubSeq(<<a>>, 1, 1) = <<a>>
      <3> DEFINE c == <<a>>
                 d == SubSeq(c, 1, 1)
      <3>1. c \in Seq({a}) /\ Len(c) = 1 /\ c[1] = a
        OBVIOUS
      <3> HIDE DEF c
      <3>2. Len(d) = 1 /\ d[1] = a /\ d \in Seq({a})
        BY <3>1
      <3> HIDE DEF d
      <3>3. d = <<a>>
        BY <3>2
      <3> QED BY <3>3 DEF d, c
    <2>2. ASSUME NEW a, NEW b PROVE SubSeq(<<a, b>>, 1, 1) = <<a>>
      <3> DEFINE c == <<a, b>>
                 d == SubSeq(c, 1, 1)
      <3>1. c \in Seq({a, b}) /\ Len(c) = 2 /\ c[1] = a
        OBVIOUS
      <3> HIDE DEF c
      <3>2. Len(d) = 1 /\ d[1] = a /\ d \in Seq({a, b})
        BY <3>1
      <3> HIDE DEF d
      <3>3. d = <<a>>
        BY <3>2
      <3> QED BY <3>3 DEF d, c
    <2>3. ASSUME NEW a, NEW b PROVE SubSeq(<<a, b>>, 1, 2) = <<a, b>>
      <3> DEFINE c == <<a, b>>
                 d == SubSeq(c, 1, 2)
      <3>1. c \in Seq({a, b}) /\ Len(c) = 2 /\ c[1] = a /\ c[2] = b
        OBVIOUS
      <3> HIDE DEF c
      <3>2. Len(d) = 2 /\ d[1] = a /\ d[2] = b /\ d \in Seq({a, b})
        BY <3>1
      <3> HIDE DEF d
      <3>3. d = <<a, b>>
        BY <3>2
      <3> QED BY <3>3 DEF d, c
    <2> QED BY <2>1, <2>2, <2>3
  <1>2. /\ \A a : Len(<<a>>) = 1
        /\ \A a, b : Len(<<a, b>>) = 2
    OBVIOUS
  <1> QED BY <1>1, <1>2 DEF IsPrefix

\* The chords are told apart by their strokes.
LEMMA ChordsDiffer ==
    ASSUME NEW i \in Chords, NEW j \in Chords, AllBindings[i].sequence = AllBindings[j].sequence
    PROVE  i = j
  <1>1. Plain("shift") # Ctrl("k") /\ Ctrl("s") # Ctrl("t")
    BY DEF Plain, Ctrl
  <1> QED BY <1>1, BindingTable DEF Chords

\* The bindings that an input completes or goes on with.
Fits(input) ==
    {i \in DOMAIN AllBindings : Active(AllBindings[i]) /\ IsPrefix(input, AllBindings[i].sequence)}

\* OneWriter stroke: it is kept exactly if it begins a chord.
LEMMA OneStroke ==
    ASSUME ~Suppressed, NEW s
    PROVE  /\ BeginsChord(s) => Taken(<<s>>).command = NoId /\ Taken(<<s>>).pending = <<s>>
           /\ ~BeginsChord(s) => Taken(<<s>>).pending = <<>>
  <1> DEFINE fits == Fits(<<s>>)
             exact == {i \in fits : AllBindings[i].sequence = <<s>>}
  <1>1. Resolve(<<s>>).more = (exact # fits)
    BY DEF Resolve, Fits
  <1>2. \A i \in Chords : AllBindings[i].sequence # <<s>>
    BY ChordShape
  <1>3. \A i \in Chords : i \in fits <=> AllBindings[i].command \in Commands
                                         /\ AllBindings[i].sequence[1] = s
    <2> TAKE i \in Chords
    <2>1. PICK a, b : AllBindings[i].sequence = <<a, b>>
      BY ChordShape
    <2>2. i \in DOMAIN AllBindings
      BY BindingTable DEF Chords
    <2> QED BY <2>1, <2>2, ShortPrefixes, ChordActive DEF Fits
  <1>4. BeginsChord(s) => Resolve(<<s>>).more
    BY <1>1, <1>2, <1>3 DEF BeginsChord
  <1>5. ~BeginsChord(s) => exact = fits
    <2> SUFFICES ASSUME ~BeginsChord(s), NEW i \in fits PROVE AllBindings[i].sequence = <<s>>
      OBVIOUS
    <2>1. i \in (1..16) \ Chords
      BY <1>3, BindingTable DEF BeginsChord, Fits
    <2>2. PICK t : AllBindings[i].sequence = <<t>>
      BY <2>1, BindingTable
    <2> QED BY <2>2, ShortPrefixes DEF Fits
  <1>6. ~BeginsChord(s) => ~Resolve(<<s>>).more
    BY <1>1, <1>5
  <1> HIDE DEF fits, exact
  <1>7. /\ Taken(<<s>>).command = IF Resolve(<<s>>).more THEN NoId ELSE Resolve(<<s>>).command
        /\ Taken(<<s>>).pending = IF Resolve(<<s>>).more THEN <<s>> ELSE <<>>
    BY DEF Taken
  <1> QED BY <1>4, <1>6, <1>7

\* Two strokes: they are a chord and run its command, or nothing fits them.
LEMMA TwoStrokes ==
    ASSUME ~Suppressed, NEW t, NEW s
    PROVE  /\ ~Resolve(<<t, s>>).more
           /\ Taken(<<t, s>>).pending = <<>>
           /\ \A b \in Range(AllBindings) :
                 Active(b) /\ b.sequence = <<t, s>> =>
                     Taken(<<t, s>>).hit /\ Taken(<<t, s>>).command = b.command /\ b.command # NoId
           /\ Taken(<<t, s>>).hit => Taken(<<t, s>>).command # NoId
  <1> DEFINE fits == Fits(<<t, s>>)
             exact == {i \in fits : AllBindings[i].sequence = <<t, s>>}
  <1>1. /\ Resolve(<<t, s>>).more = (exact # fits)
        /\ Resolve(<<t, s>>).command =
              IF exact = {} THEN NoId
              ELSE AllBindings[CHOOSE i \in exact : \A j \in exact : j <= i].command
    BY DEF Resolve, Fits
  <1>2. \A i \in fits : i \in Chords /\ AllBindings[i].sequence = <<t, s>>
    <2> TAKE i \in fits
    <2>1. i \in Chords
      <3>1. i \in DOMAIN AllBindings /\ IsPrefix(<<t, s>>, AllBindings[i].sequence)
        BY DEF Fits
      <3>2. SUFFICES ASSUME i \in (1..16) \ Chords PROVE FALSE
        BY <3>1, BindingTable
      <3>3. PICK c : AllBindings[i].sequence = <<c>>
        BY <3>2, BindingTable
      <3> QED BY <3>1, <3>3, ShortPrefixes
    <2>2. PICK a, b : AllBindings[i].sequence = <<a, b>>
      BY <2>1, ChordShape
    <2> QED BY <2>1, <2>2, ShortPrefixes DEF Fits
  <1>3. exact = fits
    BY <1>2
  <1>4. \A i \in exact : i \in Chords /\ AllBindings[i].sequence = <<t, s>>
    BY <1>2
  <1>5. ~Resolve(<<t, s>>).more
    BY <1>1, <1>3
  <1>6. ASSUME NEW i \in exact
        PROVE  Taken(<<t, s>>).command = AllBindings[i].command /\ AllBindings[i].command # NoId
               /\ Taken(<<t, s>>).hit
    <2>1. exact = {i}
      BY <1>4, <1>6, ChordsDiffer
    <2>2. i \in Nat
      BY <1>4, <1>6 DEF Chords
    <2> HIDE DEF exact
    <2>3. (CHOOSE k \in exact : \A j \in exact : j <= k) = i
      BY <2>1, <2>2
    <2>4. Resolve(<<t, s>>).command = AllBindings[i].command
      BY <1>1, <2>1, <2>3
    <2>5. AllBindings[i].command # NoId
      BY <1>4, <1>6, BindingTable DEF NoId
    <2> QED BY <1>5, <2>4, <2>5 DEF Taken
  <1>7. exact = {} => ~Taken(<<t, s>>).hit
    BY <1>1, <1>5 DEF Taken
  <1>8. ASSUME NEW b \in Range(AllBindings), Active(b), b.sequence = <<t, s>>
        PROVE  \E i \in exact : AllBindings[i] = b
    <2>1. PICK i \in DOMAIN AllBindings : AllBindings[i] = b
      BY <1>8 DEF Range
    <2> QED BY <1>8, <2>1, ShortPrefixes DEF Fits
  <1>9. Taken(<<t, s>>).pending = <<>>
    BY <1>5 DEF Taken
  <1> HIDE DEF exact
  <1> QED BY <1>5, <1>6, <1>7, <1>8, <1>9

\* The stroke before is kept if it begins a chord in use, and nothing else is kept.
KeyboardInv ==
    /\ ~missed
    /\ pending # <<>> => pending = <<pending[1]>> /\ BeginsChord(pending[1])
    /\ typed # <<>> => typed = <<typed[1]>> /\ (BeginsChord(typed[1]) => pending = typed)

\* What a stroke leaves, and that it runs the command of the chord it ends.
LEMMA StrokeHandled ==
    ASSUME KeyboardInv, ~Suppressed, NEW s
    PROVE  /\ Handled(s).pending = <<>> \/ (Handled(s).pending = <<s>> /\ BeginsChord(s))
           /\ Handled(s).command = NoId => (BeginsChord(s) => Handled(s).pending = <<s>>)
           /\ \A b \in Due(s) : Handled(s).command = b.command
  <1>1. CASE pending = <<>>
    <2>1. Append(pending, s) = <<s>>
      BY <1>1
    <2>2. Handled(s) = Taken(<<s>>)
      BY <1>1, <2>1 DEF Handled
    <2>3. ASSUME NEW b \in Due(s) PROVE FALSE
      <3>1. PICK t : typed = <<t>> /\ ~BeginsChord(t)
        BY <1>1, <2>3 DEF KeyboardInv, Due
      <3>2. PICK i \in DOMAIN AllBindings : AllBindings[i] = b
        BY <2>3 DEF Due, Range
      <3>3. b.sequence = <<t, s>> /\ Active(b)
        BY <2>3, <3>1 DEF Due
      <3>4. i \in Chords
        BY <3>2, <3>3, BindingTable
      <3> QED BY <3>1, <3>2, <3>3, <3>4 DEF BeginsChord, Active
    <2>4. /\ Taken(<<s>>).pending = <<>> \/ (Taken(<<s>>).pending = <<s>> /\ BeginsChord(s))
          /\ BeginsChord(s) => Taken(<<s>>).pending = <<s>>
      BY OneStroke
    <2> QED BY <2>2, <2>3, <2>4
  <1>2. ASSUME NEW t, pending = <<t>>, BeginsChord(t) PROVE
           /\ Handled(s).pending = <<>> \/ (Handled(s).pending = <<s>> /\ BeginsChord(s))
           /\ Handled(s).command = NoId => (BeginsChord(s) => Handled(s).pending = <<s>>)
           /\ \A b \in Due(s) : Handled(s).command = b.command
    <2>1. Append(pending, s) = <<t, s>>
      <3>1. <<t>> \in Seq({t, s}) /\ s \in {t, s} /\ Len(<<t>>) = 1 /\ <<t>>[1] = t
        OBVIOUS
      <3> DEFINE c == Append(pending, s)
      <3>2. c \in Seq({t, s}) /\ Len(c) = 2 /\ c[1] = t /\ c[2] = s
        BY <1>2, <3>1
      <3> HIDE DEF c
      <3>3. c = <<t, s>>
        BY <3>2
      <3> QED BY <3>3 DEF c
    <2>2. Handled(s) = IF Taken(<<t, s>>).hit THEN Taken(<<t, s>>) ELSE Taken(<<s>>)
      BY <1>2, <2>1 DEF Handled
    <2>3. ASSUME NEW b \in Due(s) PROVE Handled(s).command = b.command
      <3>1. PICK u : typed = <<u>> /\ (BeginsChord(u) => u = t)
        BY <1>2, <2>3 DEF KeyboardInv, Due
      <3>2. PICK i \in DOMAIN AllBindings : AllBindings[i] = b
        BY <2>3 DEF Due, Range
      <3>3. b.sequence = <<u, s>> /\ Active(b) /\ b \in Range(AllBindings)
        BY <2>3, <3>1 DEF Due
      <3>4. i \in Chords
        BY <3>2, <3>3, BindingTable
      <3>5. u = t
        BY <3>1, <3>2, <3>3, <3>4 DEF BeginsChord, Active
      <3> QED BY <2>2, <3>3, <3>5, TwoStrokes
    <2>4. CASE Taken(<<t, s>>).hit
      <3>1. Taken(<<t, s>>).pending = <<>> /\ Taken(<<t, s>>).command # NoId
        BY <2>4, TwoStrokes
      <3> QED BY <2>2, <2>3, <2>4, <3>1
    <2>5. CASE ~Taken(<<t, s>>).hit
      <3>1. /\ Taken(<<s>>).pending = <<>> \/ (Taken(<<s>>).pending = <<s>> /\ BeginsChord(s))
            /\ BeginsChord(s) => Taken(<<s>>).pending = <<s>>
        BY OneStroke
      <3> QED BY <2>2, <2>3, <2>5, <3>1
    <2> QED BY <2>4, <2>5
  <1> QED BY <1>1, <1>2 DEF KeyboardInv

LEMMA KeyPressed ==
    ASSUME KeyboardInv, NEW k, NEW editable, KeyDown(k, editable)
    PROVE  KeyboardInv'
  <1> DEFINE s == Keystroke(k)
             h == Handled(s)
  <1>0. \A t : BeginsChord(t)' <=> BeginsChord(t)
    BY DEF BeginsChord
  <1>1. CASE UNCHANGED missed /\ Forget
    BY <1>1, <1>0 DEF KeyboardInv, Forget
  <1>2. CASE /\ ~Suppressed
             /\ pending' = h.pending
             /\ typed' = IF h.command = NoId THEN <<s>> ELSE <<>>
             /\ missed' = (missed \/ \E b \in Due(s) : h.command # b.command)
    <2>1. /\ h.pending = <<>> \/ (h.pending = <<s>> /\ BeginsChord(s))
          /\ h.command = NoId => (BeginsChord(s) => h.pending = <<s>>)
          /\ \A b \in Due(s) : h.command = b.command
      BY <1>2, StrokeHandled
    <2> HIDE DEF h, s
    <2>2. ~missed'
      BY <1>2, <2>1 DEF KeyboardInv
    <2>3. pending' # <<>> => pending' = <<pending'[1]>> /\ BeginsChord(pending'[1])
      BY <1>2, <2>1
    <2>4. typed' # <<>> => /\ typed' = <<typed'[1]>>
                           /\ BeginsChord(typed'[1]) => pending' = typed'
      BY <1>2, <2>1
    <2> QED BY <1>0, <2>2, <2>3, <2>4 DEF KeyboardInv
  <1> QED BY <1>1, <1>2 DEF KeyDown

LEMMA KeyboardStart == KeyboardInit => KeyboardInv
  BY DEF KeyboardInit, KeyboardInv

LEMMA KeyboardInvKept == KeyboardInv /\ [KeyboardNext]_keyboardVars => KeyboardInv'
  <1> SUFFICES ASSUME KeyboardInv, [KeyboardNext]_keyboardVars PROVE KeyboardInv'
    OBVIOUS
  <1>1. CASE UNCHANGED <<pending, typed, missed>>
    BY <1>1 DEF KeyboardInv, BeginsChord
  <1>2. CASE Forget /\ UNCHANGED missed
    BY <1>2 DEF KeyboardInv, Forget
  <1>3. ASSUME NEW k \in Keys, NEW editable \in BOOLEAN, KeyDown(k, editable) PROVE KeyboardInv'
    BY <1>3, KeyPressed
  <1>4. CASE \/ \E k \in Keys : KeyUp(k)
             \/ \E c \in Commands : MenuItem(c)
             \/ \E m \in BarModes : BarButton(m)
             \/ PanelButton \/ PaletteShow \/ Surroundings
             \/ \E i \in 1..Len(Rows) : PaletteClick(i)
    BY <1>1, <1>4 DEF KeyUp, MenuItem, BarButton, PanelButton, PaletteShow, PaletteMouse,
                      Surroundings, PaletteClick
  <1>5. CASE \/ SequenceTimeout \/ PaletteEnter
             \/ \E q \in Queries : PaletteType(q)
             \/ \E d \in {1, -1} : PaletteArrow(d)
    BY <1>2, <1>5 DEF SequenceTimeout, PaletteEnter, PaletteType, PaletteArrow, PaletteKey
  <1>6. CASE PaletteKeymap \/ PaletteClose
    BY <1>1, <1>2, <1>6 DEF PaletteKeymap, PaletteClose, PaletteKey, PaletteMouse
  <1>7. CASE UNCHANGED keyboardVars
    BY <1>1, <1>7 DEF keyboardVars
  <1> QED BY <1>3, <1>4, <1>5, <1>6, <1>7 DEF KeyboardNext

LEMMA KeyboardInvGives == KeyboardInv => ChordRuns
  BY DEF KeyboardInv, ChordRuns

\* Whatever was typed, clicked or shown before it, a chord runs its command, for any keys,
\* commands in use and answers of the palette (useWorkbenchKeybindings.js: handleKeyDown;
\* keybindings.js: resolveKeybinding).
THEOREM ChordsRun == KeyboardSpec => []ChordRuns
  <1> QED BY KeyboardStart, KeyboardInvKept, KeyboardInvGives, PTL DEF KeyboardSpec

-----------------------------------------------------------------------------
(* The types of the key strokes and the panels                             *)

LEMMA ToggleBottomTypes ==
    ASSUME NEW u \in Panels, NEW m \in {"terminal", "debug"}
    PROVE  ToggleBottom(u, m) \in Panels
BY DEF ToggleBottom, Toggled, Panels

LEMMA DockToggles ==
    ASSUME NEW u \in Panels
    PROVE  ToggleAllDocks(u) \in Panels
<1>1. CASE AnyDock(u)
    BY <1>1 DEF ToggleAllDocks, Panels
<1>2. CASE ~AnyDock(u)
    <2> DEFINE v == [u EXCEPT !.left = "project", !.right = "inspector"]
    <2>1. v \in Panels
        BY DEF Panels, LeftModes
    <2> HIDE DEF v
    <2> QED BY <1>2, <2>1, ToggleBottomTypes DEF ToggleAllDocks, v
<1> QED BY <1>1, <1>2

\* Whatever command it is.
LEMMA EffectTypes ==
    ASSUME NEW u \in Panels, NEW c
    PROVE  CommandEffect(c, u) \in Panels
<1>1. c \in DOMAIN CenterOf => [u EXCEPT !.center = CenterOf[c]] \in Panels
    BY DEF Panels, Range
<1>2. c \in DOMAIN SelectorOf => [u EXCEPT !.center = SelectorOf[c]] \in Panels
    BY DEF Panels, Range
<1>3. c \in DOMAIN LeftOf => [u EXCEPT !.left = LeftOf[c]] \in Panels
    BY DEF Panels, Range
<1>4. [u EXCEPT !.left = Toggled(IF @ = NoId THEN "project" ELSE @, @)] \in Panels
    BY DEF Panels, Toggled, LeftModes
<1>5. [u EXCEPT !.right = Toggled(IF @ = NoId THEN "inspector" ELSE @, @)] \in Panels
    BY DEF Panels, Toggled, RightModes
<1>6. ToggleBottom(u, "terminal") \in Panels /\ ToggleBottom(u, "debug") \in Panels
      /\ ToggleAllDocks(u) \in Panels
    BY ToggleBottomTypes, DockToggles
<1>7. [u EXCEPT !.right = "remote"] \in Panels /\ [u EXCEPT !.palette = ~@] \in Panels
    BY DEF Panels, RightModes
<1> QED BY <1>1, <1>2, <1>3, <1>4, <1>5, <1>6, <1>7 DEF CommandEffect

Boxes(b) == b.query \in Queries /\ b.shown \in Queries

LEMMA ClosedBoxTypes == Boxes(ClosedBox)
BY KeyboardAssumption DEF Boxes, ClosedBox

LEMMA RunTypes ==
    ASSUME KeyboardTypeOK, NEW c, NEW from, Run(c, from)
    PROVE  ui' \in Panels /\ file' \in BOOLEAN /\ Boxes(box')
<1>1. ui' \in Panels
    <2> DEFINE v == CommandEffect(c, ui)
    <2>1. v \in Panels
        BY EffectTypes DEF KeyboardTypeOK
    <2>2. ui' = v \/ ui' = [v EXCEPT !.palette = FALSE]
        BY DEF Run
    <2> HIDE DEF v
    <2> QED BY <2>1, <2>2 DEF Panels
<1>2. file' \in BOOLEAN
    BY DEF Run, KeyboardTypeOK
<1>3. Boxes(box')
    BY ClosedBoxTypes DEF Run, KeyboardTypeOK, Boxes
<1> QED BY <1>1, <1>2, <1>3

LEMMA BarTypes ==
    ASSUME KeyboardTypeOK, NEW m \in BarModes, BarButton(m)
    PROVE  ui' \in Panels
<1>1. ui \in Panels
    BY DEF KeyboardTypeOK
<1>2. CASE m \in LeftModes
    BY <1>1, <1>2 DEF BarButton, Panels, Toggled
<1>3. CASE m \notin LeftModes /\ m \in CenterModes
    BY <1>1, <1>3 DEF BarButton, Panels, Toggled
<1>4. CASE m \notin LeftModes /\ m \notin CenterModes /\ m \in RightModes
    BY <1>1, <1>4 DEF BarButton, Panels, Toggled
<1>5. CASE m \notin LeftModes /\ m \notin CenterModes /\ m \notin RightModes
    <2>1. m \in {"terminal", "debug"} /\ ui' = ToggleBottom(ui, m)
        BY <1>5, KeyboardAssumption DEF BarButton
    <2> QED BY <1>1, <2>1, ToggleBottomTypes
<1> QED BY <1>2, <1>3, <1>4, <1>5

LEMMA PanelTypes == ASSUME KeyboardTypeOK, PanelButton PROVE ui' \in Panels
<1>1. ui \in Panels
    BY DEF KeyboardTypeOK
<1>2. ASSUME NEW p \in {"left", "center", "bottom", "right"}, ui' = [ui EXCEPT ![p] = NoId]
      PROVE  ui' \in Panels
    <2>1. CASE p = "left"
        BY <1>1, <1>2, <2>1 DEF Panels
    <2>2. CASE p = "center"
        BY <1>1, <1>2, <2>2 DEF Panels
    <2>3. CASE p = "bottom"
        BY <1>1, <1>2, <2>3 DEF Panels
    <2>4. CASE p = "right"
        BY <1>1, <1>2, <2>4 DEF Panels
    <2> QED BY <1>2, <2>1, <2>2, <2>3, <2>4
<1>3. CASE ui' = [ui EXCEPT !.bottom = "terminal"]
    BY <1>1, <1>3 DEF Panels
<1> QED BY <1>2, <1>3 DEF PanelButton

\* The strokes kept are at most one, as KeyboardInv says.
LEMMA FewStrokes == KeyboardInv => Len(pending) <= 1 /\ Len(typed) <= 1
<1>1. \A x : Len(<<x>>) = 1 /\ Len(<<>>) = 0
    OBVIOUS
<1> QED BY <1>1 DEF KeyboardInv

KeyboardShape ==
    /\ held \subseteq Modifiers /\ ui \in Panels
    /\ file \in BOOLEAN /\ agent \in BOOLEAN /\ missed \in BOOLEAN
    /\ Boxes(box)

LEMMA ShapeStart == KeyboardInit => KeyboardShape
<1> SUFFICES ASSUME KeyboardInit PROVE KeyboardShape
    OBVIOUS
<1>1. ui \in Panels
    BY DEF KeyboardInit, Panels
<1>2. held \subseteq Modifiers /\ Boxes(box)
    BY ClosedBoxTypes DEF KeyboardInit
<1>3. file \in BOOLEAN /\ agent \in BOOLEAN /\ missed \in BOOLEAN
    BY DEF KeyboardInit
<1> QED BY <1>1, <1>2, <1>3 DEF KeyboardShape

LEMMA KeyShape ==
    ASSUME KeyboardTypeOK, NEW k \in Keys, NEW editable \in BOOLEAN, KeyDown(k, editable)
    PROVE  /\ held' \subseteq Modifiers /\ ui' \in Panels /\ file' \in BOOLEAN
           /\ agent' \in BOOLEAN /\ Boxes(box')
<1>1. held' \subseteq Modifiers
    BY DEF KeyDown, KeyboardTypeOK
<1>2. agent' \in BOOLEAN
    BY DEF KeyDown, KeyboardTypeOK
<1>3. UNCHANGED <<ui, file, box>> \/ Run(Handled(Keystroke(k)).command, "keybinding")
    BY DEF KeyDown
<1>4. CASE UNCHANGED <<ui, file, box>>
    BY <1>1, <1>2, <1>4 DEF KeyboardTypeOK, Boxes
<1> QED BY <1>1, <1>2, <1>3, <1>4, RunTypes

LEMMA ShapeKept ==
    ASSUME KeyboardTypeOK, [KeyboardNext]_keyboardVars, missed' \in BOOLEAN
    PROVE  KeyboardShape'
<1> USE DEF KeyboardShape
<1>1. ASSUME NEW k \in Keys, NEW editable \in BOOLEAN, KeyDown(k, editable) PROVE KeyboardShape'
    BY <1>1, KeyShape
<1>2. CASE (\E k \in Keys : KeyUp(k)) \/ SequenceTimeout \/ Surroundings
    BY <1>2 DEF KeyUp, SequenceTimeout, Surroundings, KeyboardTypeOK, Boxes
<1>3. ASSUME NEW c \in Commands, MenuItem(c) PROVE KeyboardShape'
    BY <1>3, RunTypes DEF MenuItem, KeyboardTypeOK
<1>4. ASSUME NEW m \in BarModes, BarButton(m) PROVE KeyboardShape'
    BY <1>4, BarTypes DEF BarButton, KeyboardTypeOK, Boxes
<1>5. CASE PanelButton
    BY <1>5, PanelTypes DEF PanelButton, KeyboardTypeOK, Boxes
<1>6. ASSUME PaletteKey \/ PaletteMouse
      PROVE  held' \subseteq Modifiers /\ agent' \in BOOLEAN
    BY <1>6 DEF PaletteKey, PaletteMouse, KeyboardTypeOK
<1>7. ASSUME NEW q \in Queries, PaletteType(q) PROVE KeyboardShape'
    <2>1. Boxes(box')
        BY <1>7 DEF PaletteType, KeyboardTypeOK, Boxes
    <2> QED BY <1>6, <1>7, <2>1 DEF PaletteType, KeyboardTypeOK
<1>8. CASE PaletteShow
    <2>1. Boxes(box')
        BY <1>8 DEF PaletteShow, KeyboardTypeOK, Boxes
    <2> QED BY <1>6, <1>8, <2>1 DEF PaletteShow, KeyboardTypeOK
<1>9. ASSUME NEW d \in {1, -1}, PaletteArrow(d) PROVE KeyboardShape'
    <2>1. Boxes(box')
        BY <1>9 DEF PaletteArrow, KeyboardTypeOK, Boxes
    <2> QED BY <1>6, <1>9, <2>1 DEF PaletteArrow, KeyboardTypeOK
<1>10. CASE PaletteEnter \/ (\E i \in 1..Len(Rows) : PaletteClick(i)) \/ PaletteKeymap
    <2>1. (PaletteKey \/ PaletteMouse) /\ \E c : Run(c, "palette")
        BY <1>10 DEF PaletteEnter, PaletteClick, PaletteKeymap
    <2> QED BY <1>6, <2>1, RunTypes
<1>11. CASE PaletteClose
    <2>1. ui' \in Panels
        BY <1>11 DEF PaletteClose, KeyboardTypeOK, Panels
    <2> QED BY <1>6, <1>11, <2>1, ClosedBoxTypes DEF PaletteClose, KeyboardTypeOK
<1>12. CASE UNCHANGED keyboardVars
    BY <1>12 DEF keyboardVars, KeyboardTypeOK, Boxes
<1> QED BY <1>1, <1>2, <1>3, <1>4, <1>5, <1>7, <1>8, <1>9, <1>10, <1>11, <1>12 DEF KeyboardNext

LEMMA MissedKept == KeyboardShape /\ [KeyboardNext]_keyboardVars => missed' \in BOOLEAN
<1> SUFFICES ASSUME KeyboardShape, [KeyboardNext]_keyboardVars PROVE missed' \in BOOLEAN
    OBVIOUS
<1>1. missed \in BOOLEAN
    BY DEF KeyboardShape
<1>2. ASSUME NEW k, NEW editable, KeyDown(k, editable) PROVE missed' \in BOOLEAN
    BY <1>1, <1>2 DEF KeyDown
<1>3. CASE UNCHANGED missed
    BY <1>1, <1>3
<1>4. CASE UNCHANGED keyboardVars
    BY <1>3, <1>4 DEF keyboardVars
<1>5. CASE \/ \E k \in Keys : KeyUp(k)
           \/ SequenceTimeout \/ PanelButton \/ Surroundings
           \/ \E c \in Commands : MenuItem(c)
           \/ \E m \in BarModes : BarButton(m)
    BY <1>3, <1>5 DEF KeyUp, SequenceTimeout, PanelButton, Surroundings, MenuItem, BarButton
<1>6. CASE \/ \E q \in Queries : PaletteType(q)
           \/ \E d \in {1, -1} : PaletteArrow(d)
           \/ PaletteEnter \/ PaletteKeymap \/ PaletteClose \/ PaletteShow
           \/ \E i \in 1..Len(Rows) : PaletteClick(i)
    BY <1>3, <1>6 DEF PaletteType, PaletteArrow, PaletteEnter, PaletteKeymap, PaletteClose,
                      PaletteShow, PaletteClick, PaletteKey, PaletteMouse
<1> QED BY <1>2, <1>4, <1>5, <1>6 DEF KeyboardNext

LEMMA KeyboardTypes == KeyboardShape /\ KeyboardInv => KeyboardTypeOK
BY FewStrokes DEF KeyboardShape, Boxes, KeyboardTypeOK

LEMMA KeyboardTypesGive == KeyboardTypeOK => KeyboardShape
BY DEF KeyboardShape, Boxes, KeyboardTypeOK

-----------------------------------------------------------------------------
(* The terminal                                                            *)

SocketSet == [state : States, shell : Shells]

\* A socket that was replaced is closing or closed, so that it never opens.
TerminalInv ==
    /\ sockets \in Seq(SocketSet) /\ status \in {"idle", "connecting", "ready", "closed"}
    /\ \A i \in 1..(Len(sockets) - 1) : sockets[i].state \in {"closing", "closed"}
    /\ status = "ready" => sockets # <<>> /\ CurrentOpen

\* What a step does to a socket: it stays in its state, closes, or opens as the last.
LEMMA SocketChanges ==
    ASSUME TerminalInv, NEW i \in DOMAIN sockets, NEW r \in SocketSet,
           sockets' = [sockets EXCEPT ![i] = r],
           \/ r.state = sockets[i].state /\ UNCHANGED status
           \/ r.state = "closed" /\ status' = "closed"
           \/ r.state = "open" /\ i = Len(sockets) /\ status' = "ready"
    PROVE  TerminalInv'
  <1>1. /\ Len(sockets) \in Nat /\ DOMAIN sockets = 1..Len(sockets)
        /\ sockets \in Seq(SocketSet)
    BY DEF TerminalInv
  <1>2. /\ sockets' \in Seq(SocketSet) /\ Len(sockets') = Len(sockets)
        /\ \A j \in 1..Len(sockets) : sockets'[j] = IF j = i THEN r ELSE sockets[j]
    BY <1>1
  <1>3. \A j \in 1..(Len(sockets) - 1) : sockets'[j].state \in {"closing", "closed"}
    BY <1>1, <1>2 DEF TerminalInv
  <1>4. sockets' # <<>>
    BY <1>1, <1>2
  <1>5. status' = "ready" => CurrentOpen'
    <2> SUFFICES ASSUME status' = "ready" PROVE sockets'[Len(sockets)].state = "open"
      BY <1>2 DEF CurrentOpen
    <2>1. Len(sockets) \in 1..Len(sockets)
      BY <1>1
    <2> QED BY <1>2, <2>1 DEF TerminalInv, CurrentOpen
  <1> QED BY <1>2, <1>3, <1>4, <1>5 DEF TerminalInv

LEMMA SocketSteps ==
    ASSUME TerminalInv, NEW i \in DOMAIN sockets, Step(i)
    PROVE  TerminalInv'
  <1>1. /\ sockets[i] \in SocketSet /\ i \in 1..Len(sockets)
        /\ Len(sockets) \in Nat
    BY DEF TerminalInv
  <1>2. ASSUME NEW shell \in Shells, SetShell(i, shell) PROVE TerminalInv'
    <2>1. sockets' = [sockets EXCEPT ![i] = [sockets[i] EXCEPT !.shell = shell]]
      BY <1>2 DEF SetShell
    <2>2. /\ [sockets[i] EXCEPT !.shell = shell] \in SocketSet
          /\ [sockets[i] EXCEPT !.shell = shell].state = sockets[i].state
      BY <1>1 DEF SocketSet
    <2> QED BY <1>2, <2>1, <2>2, SocketChanges DEF SetShell
  <1>3. ASSUME NEW state \in States, SetState(i, state),
               \/ state = "closed" /\ status' = "closed"
               \/ state = "open" /\ i = Len(sockets) /\ status' = "ready"
        PROVE  TerminalInv'
    <2>1. sockets' = [sockets EXCEPT ![i] = [sockets[i] EXCEPT !.state = state]]
      BY <1>3 DEF SetState
    <2>2. /\ [sockets[i] EXCEPT !.state = state] \in SocketSet
          /\ [sockets[i] EXCEPT !.state = state].state = state
      BY <1>1 DEF SocketSet
    <2> QED BY <1>3, <2>1, <2>2, SocketChanges
  <1>4. CASE OnOpen(i)
    <2>1. i = Len(sockets)
      BY <1>1, <1>4 DEF OnOpen, TerminalInv
    <2> QED BY <1>3, <1>4, <2>1 DEF OnOpen, States
  <1>5. CASE OnClose(i)
    BY <1>3, <1>5 DEF OnClose, States
  <1>6. CASE Refuse(i)
    <2> DEFINE r == [state |-> "closed", shell |-> "ended"]
    <2>1. r \in SocketSet /\ r.state = "closed"
      BY DEF SocketSet, States, Shells
    <2> QED BY <1>6, <2>1, SocketChanges DEF Refuse
  <1>7. CASE Accept(i) \/ Block(i) \/ Unblock(i) \/ Exit(i) \/ Kill(i)
    BY <1>2, <1>7 DEF Accept, Block, Unblock, Exit, Kill, Shells
  <1> QED BY <1>4, <1>5, <1>6, <1>7 DEF Step

LEMMA SocketReplaced == ASSUME TerminalInv, Attach PROVE TerminalInv'
  <1> DEFINE n == Len(sockets)
             old == Closed(sockets)
             fresh == [state |-> "connecting", shell |-> "none"]
  <1>1. /\ sockets \in Seq(SocketSet) /\ n \in Nat
        /\ \A j \in 1..n : sockets[j] \in SocketSet
    BY DEF TerminalInv
  <1>2. /\ DOMAIN old = 1..n
        /\ \A j \in 1..n : /\ old[j] \in SocketSet
                           /\ old[j].state \in {"closing", "closed"}
    <2>1. DOMAIN old = 1..n
      BY <1>1 DEF Closed
    <2>2. ASSUME NEW j \in 1..n
          PROVE  /\ old[j] \in SocketSet
                 /\ old[j].state \in {"closing", "closed"}
      <3>1. old[j] = IF j = n /\ sockets[j].state \in {"connecting", "open"}
                                 THEN [sockets[j] EXCEPT !.state = "closing"] ELSE sockets[j]
        BY <1>1 DEF Closed
      <3>2. sockets[j].state \in {"connecting", "open"} => j = n
        BY <1>1 DEF TerminalInv
      <3> QED BY <1>1, <3>1, <3>2 DEF SocketSet, States
    <2> QED BY <2>1, <2>2
  <1>3. fresh \in SocketSet
    BY DEF SocketSet, States, Shells
  <1>4. old \in Seq(SocketSet) /\ Len(old) = n
    <2>1. old = [j \in 1..n |-> old[j]]
      BY <1>1 DEF Closed
    <2> HIDE DEF old, n
    <2> QED BY <1>1, <1>2, <2>1
  <1>5. sockets' = Append(old, fresh) /\ status' = "connecting"
    BY DEF Attach
  <1>6. \A j \in 1..n : old[j].state \in {"closing", "closed"}
    BY <1>2
  <1> HIDE DEF old, n, fresh
  <1>7. /\ sockets' \in Seq(SocketSet) /\ Len(sockets') = n + 1
        /\ \A j \in 1..n : sockets'[j].state \in {"closing", "closed"}
    BY <1>1, <1>3, <1>4, <1>5, <1>6
  <1>8. status' # "ready" /\ status' \in {"idle", "connecting", "ready", "closed"}
    BY <1>5
  <1> QED BY <1>1, <1>7, <1>8 DEF TerminalInv, CurrentOpen

LEMMA TerminalStart == TerminalInit => TerminalInv
  BY DEF TerminalInit, TerminalInv, CurrentOpen

LEMMA TerminalInvKept == TerminalInv /\ [TerminalNext]_terminalVars => TerminalInv'
  <1>1. TerminalInv /\ UNCHANGED terminalVars => TerminalInv'
    BY DEF terminalVars, TerminalInv, CurrentOpen
  <1> QED BY <1>1, SocketSteps, SocketReplaced DEF TerminalNext

\* The terminal is ready only while the socket it writes to is open, for any number of
\* sockets: one that was replaced may close over the status but never opens again
\* (TerminalView.jsx: onopen, onclose and the effect's clean-up).
THEOREM ReadyIsOpen == TerminalSpec => [](status = "ready" => CurrentOpen)
  <1>1. TerminalInv => (status = "ready" => CurrentOpen)
    BY DEF TerminalInv
  <1> QED BY TerminalStart, TerminalInvKept, <1>1, PTL DEF TerminalSpec

-----------------------------------------------------------------------------
(* The project tree                                                        *)

Listings == [dir : Dirs \cup {Root}, generation : Nat, session : Nat]
Fillings == [dir : Dirs, generation : Nat, session : Nat]

TreeTypes ==
    /\ session \in Nat /\ generation \in Nat
    /\ known \subseteq Dirs /\ loading \subseteq Dirs /\ failed \subseteq Dirs
    /\ filled \subseteq Fillings /\ asks \subseteq Listings
    /\ \A q \in asks : q.generation <= generation

\* A directory is known because its parent was listed, and one that is listed or has
\* failed is known.
KnownBelowLoaded ==
    /\ loading \cup failed \subseteq known
    /\ \A d \in known : Parent[d] \in Loaded \cup {Root}

\* Of the listings that are not stale, one is under way for each directory that is
\* loading and for no other; such a directory has neither rows nor failed.
OneListing ==
    /\ \A q \in asks : q.dir \in Dirs /\ ~Stale(q) => q.dir \in loading
    /\ loading \cap (Loaded \cup failed) = {}

(* TreeCurrent alone is not kept: the answer for a directory fills its children too, of
   which one could have failed or be loading, were it known before its parent's answer. *)
TreeInv == TreeTypes /\ TreeCurrent /\ KnownBelowLoaded /\ OneListing
-----------------------------------------------------------------------------
(* The helpers                                                             *)

\* The directories of what Fill makes are those it was given.
LEMMA FillDirs ==
    ASSUME NEW S, NEW ds, NEW g, NEW s
    PROVE  /\ {r.dir : r \in S \cup Fill(ds, g, s)} = {r.dir : r \in S} \cup ds
           /\ {r.dir : r \in Fill(ds, g, s)} = ds
<1>1. \A d \in ds : [dir |-> d, generation |-> g, session |-> s] \in Fill(ds, g, s)
    BY DEF Fill
<1>2. \A r \in Fill(ds, g, s) : r.dir \in ds
    BY DEF Fill
<1>3. {r.dir : r \in Fill(ds, g, s)} \subseteq ds
    BY <1>2
<1>4. \A d \in ds : d \in {r.dir : r \in Fill(ds, g, s)}
    <2>1. ASSUME NEW d \in ds PROVE d \in {r.dir : r \in Fill(ds, g, s)}
        <3>1. [dir |-> d, generation |-> g, session |-> s].dir = d
            OBVIOUS
        <3> QED BY <1>1, <3>1
    <2> QED BY <2>1
<1>5. {r.dir : r \in S \cup Fill(ds, g, s)}
        = {r.dir : r \in S} \cup {r.dir : r \in Fill(ds, g, s)}
    OBVIOUS
<1> QED BY <1>3, <1>4, <1>5

\* Listings are equal when their fields are.
LEMMA SameListing ==
    ASSUME NEW p \in Listings, NEW q \in Listings,
           p.dir = q.dir, p.generation = q.generation, p.session = q.session
    PROVE  p = q
BY DEF Listings

\* What a listing of d names has its parent among what the listing fills, or is below the
\* root itself.
LEMMA ListedBelowLoaded ==
    ASSUME TreeShape, NEW d \in Dirs \cup {Root}
    PROVE  /\ Listed(d) \subseteq Dirs
           /\ LoadedPaths(d) \subseteq Dirs
           /\ \A c \in Listed(d) : Parent[c] \in LoadedPaths(d) \cup {Root}
           /\ \A c \in LoadedPaths(d) : c = d \/ Parent[c] = d
BY DEF TreeShape, Listed, LoadedPaths, Children

-----------------------------------------------------------------------------
(* Resetting the tree                                                      *)

\* After a reset no listing under way is of the new generation, so none has to be loading.
LEMMA ResetKeeps ==
    ASSUME TreeShape, TreeTypes, NEW t \in BOOLEAN, NEW s \in Nat,
           Reset(t, s), session' = s,
           asks' \subseteq Listings, \A q \in asks' : q.generation <= generation
    PROVE  TreeInv'
<1> USE DEF TreeShape
<1>1. generation' \in Nat /\ generation' = generation + 1 /\ generation \in Nat
    BY DEF TreeTypes, Reset
<1>2. /\ Listed(Root) \subseteq Dirs /\ LoadedPaths(Root) \subseteq Dirs
      /\ \A c \in Listed(Root) : Parent[c] \in LoadedPaths(Root) \cup {Root}
    BY ListedBelowLoaded
<1>3. loading' = {} /\ failed' = {} /\ known' = IF t THEN Listed(Root) ELSE {}
    BY DEF Reset
<1>4. filled' = IF t THEN Fill(LoadedPaths(Root), generation', s) ELSE {}
    BY <1>1 DEF Reset
<1>5. Loaded' = IF t THEN LoadedPaths(Root) ELSE {}
    <2>1. Loaded' = {r.dir : r \in filled'}
        BY DEF Loaded
    <2> QED BY <2>1, <1>4, FillDirs
<1>6. TreeTypes'
    <2>1. filled' \subseteq Fillings
        BY <1>1, <1>2, <1>4 DEF Fill, Fillings
    <2>2. known' \subseteq Dirs /\ \A q \in asks' : q.generation <= generation'
        BY <1>1, <1>2, <1>3 DEF Listings
    <2> QED BY <1>1, <1>3, <2>1, <2>2 DEF TreeTypes
<1>7. TreeCurrent'
    BY <1>3, <1>4 DEF TreeCurrent, Fill
<1>8. KnownBelowLoaded'
    BY <1>2, <1>3, <1>5 DEF KnownBelowLoaded
<1>9. OneListing'
    <2>1. \A q \in asks' : q.generation \in Nat /\ q.generation <= generation
        BY DEF Listings
    <2>2. \A q \in asks' : q.generation # generation'
        BY <2>1, <1>1
    <2> QED BY <2>2, <1>3 DEF OneListing, Stale
<1> QED BY <1>6, <1>7, <1>8, <1>9 DEF TreeInv

-----------------------------------------------------------------------------
(* The steps                                                               *)

LEMMA TreeStart == ASSUME TreeShape, TreeInit PROVE TreeInv
<1>1. TreeTypes
    BY DEF TreeInit, TreeTypes
<1>2. Loaded = {}
    BY DEF TreeInit, Loaded
<1> QED BY <1>1, <1>2 DEF TreeInit, TreeInv, TreeCurrent, KnownBelowLoaded, OneListing

LEMMA OpenSessionKeeps == ASSUME TreeShape, TreeInv, OpenSession PROVE TreeInv'
<1>1. session + 1 \in Nat /\ session' = session + 1 /\ TreeTypes
    BY DEF TreeShape, TreeInv, TreeTypes, OpenSession
<1>2. asks' = asks \cup {AskRoot(session + 1)}
    BY DEF OpenSession
<1>3. asks' \subseteq Listings /\ \A q \in asks' : q.generation <= generation
    BY <1>1, <1>2 DEF TreeTypes, AskRoot, Listings
<1>4. \E t \in BOOLEAN : Reset(t, session + 1)
    <2>1. Reset(listed, session + 1)
        BY DEF OpenSession
    <2>2. CASE listed = TRUE  BY <2>1, <2>2
    <2>3. CASE listed # TRUE
        <3>1. Reset(FALSE, session + 1)
            BY <2>1, <2>3 DEF Reset
        <3> QED BY <3>1
    <2> QED BY <2>2, <2>3
<1> QED BY <1>1, <1>3, <1>4, ResetKeeps

LEMMA RefreshKeeps == ASSUME TreeShape, TreeInv, Refresh PROVE TreeInv'
<1>1. asks' = asks \cup {AskRoot(session)}
    BY DEF Refresh
<1>2. UNCHANGED <<session, generation, known, filled, loading, failed>> /\ Loaded' = Loaded
    BY DEF Refresh, Loaded
<1> QED BY <1>1, <1>2
        DEF TreeShape, TreeInv, TreeTypes, TreeCurrent, KnownBelowLoaded, OneListing, Stale,
            AskRoot, Listings

LEMMA RemountKeeps == ASSUME TreeShape, TreeInv, Remount PROVE TreeInv'
<1>1. TreeTypes /\ session \in Nat /\ session' = session /\ asks' = asks
    BY DEF TreeInv, TreeTypes, Remount
<1>2. asks' \subseteq Listings /\ \A q \in asks' : q.generation <= generation
    BY <1>1 DEF TreeTypes
<1>3. \E t \in BOOLEAN : Reset(t, session)
    <2>1. Reset(listed, session)
        BY DEF Remount
    <2>2. CASE listed = TRUE  BY <2>1, <2>2
    <2>3. CASE listed # TRUE
        <3>1. Reset(FALSE, session)
            BY <2>1, <2>3 DEF Reset
        <3> QED BY <3>1
    <2> QED BY <2>2, <2>3
<1> QED BY <1>1, <1>2, <1>3, ResetKeeps

LEMMA RootAnswerKeeps ==
    ASSUME TreeShape, TreeInv, NEW q \in asks, RootAnswer(q) PROVE TreeInv'
<1>1. TreeTypes /\ session \in Nat /\ session' = session /\ asks' = asks \ {q} /\ q.dir = Root
    BY DEF TreeInv, TreeTypes, RootAnswer
<1>2. CASE listed' = TRUE /\ Reset(TRUE, session)
    <2>1. asks' \subseteq Listings /\ \A p \in asks' : p.generation <= generation
        BY <1>1 DEF TreeTypes
    <2> QED BY <1>1, <1>2, <2>1, ResetKeeps
<1>3. CASE UNCHANGED <<listed, generation, known, filled, loading, failed, expanded>>
    <2>1. Loaded' = Loaded
        BY <1>3 DEF Loaded
    <2>2. \A d \in loading : [dir |-> d, generation |-> generation, session |-> session] # q
        BY <1>1 DEF TreeTypes, TreeShape
    <2> QED BY <1>1, <1>3, <2>1, <2>2
            DEF TreeInv, TreeTypes, TreeCurrent, KnownBelowLoaded, OneListing, Stale
<1> QED BY <1>2, <1>3 DEF RootAnswer

\* Expanding lists what is known and neither loading nor done.
LEMMA ExpandKeeps == ASSUME TreeShape, TreeInv, NEW d \in Dirs, Expand(d) PROVE TreeInv'
<1> DEFINE W == Wanted(known, expanded', loading, Loaded \cup failed)
<1>1. W \subseteq known /\ W \cap (loading \cup Loaded \cup failed) = {}
    BY DEF Wanted
<1>2. /\ loading' = loading \cup W /\ asks' = asks \cup Fill(W, generation, session)
      /\ UNCHANGED <<session, generation, known, filled, failed>>
    BY DEF Expand, Start
<1>3. Loaded' = Loaded
    BY <1>2 DEF Loaded
<1> HIDE DEF W
<1>4. TreeTypes'
    BY <1>1, <1>2 DEF TreeInv, TreeTypes, Fill, Listings
<1>5. TreeCurrent'
    BY <1>2, <1>3 DEF TreeInv, TreeCurrent, Fill
<1>6. KnownBelowLoaded'
    BY <1>1, <1>2, <1>3 DEF TreeInv, KnownBelowLoaded
<1>7. OneListing'
    BY <1>1, <1>2, <1>3 DEF TreeInv, OneListing, Stale, Fill
<1> QED BY <1>4, <1>5, <1>6, <1>7 DEF TreeInv

LEMMA CollapseKeeps == ASSUME TreeInv, NEW d \in Dirs, Collapse(d) PROVE TreeInv'
<1>1. UNCHANGED <<session, generation, known, filled, loading, failed, asks>> /\ Loaded' = Loaded
    BY DEF Collapse, Loaded
<1> QED BY <1>1
        DEF TreeInv, TreeTypes, TreeCurrent, KnownBelowLoaded, OneListing, Stale

-----------------------------------------------------------------------------
(* The answer for a directory                                              *)

\* A stale answer changes nothing that a directory in loading waits for.
LEMMA StaleAnswerKeeps ==
    ASSUME TreeInv, NEW q \in asks, DirAnswer(q), Stale(q) PROVE TreeInv'
<1>1. /\ asks' = asks \ {q} /\ session' = session
      /\ UNCHANGED <<generation, known, filled, loading, failed>> /\ Loaded' = Loaded
    BY DEF DirAnswer, Loaded
<1>2. \A d \in loading : [dir |-> d, generation |-> generation, session |-> session] # q
    BY DEF Stale
<1> QED BY <1>1, <1>2
        DEF TreeInv, TreeTypes, TreeCurrent, KnownBelowLoaded, OneListing, Stale

\* What a current answer, good or bad, does to the listings under way.
LEMMA CurrentAnswer ==
    ASSUME TreeInv, NEW q \in asks, DirAnswer(q), ~Stale(q)
    PROVE  /\ UNCHANGED <<session, generation>>
           /\ asks' = asks \ {q} /\ loading' = loading \ {q.dir}
           /\ q.dir \in loading /\ q.dir \in Dirs
           /\ q.generation = generation /\ q.session = session
           /\ \A d \in loading' :
                [dir |-> d, generation |-> generation, session |-> session] \in asks'
           /\ \A p \in asks' : p.dir \in Dirs /\ ~Stale(p) => p.dir \in loading'
<1>1. /\ UNCHANGED <<session, generation>>
      /\ asks' = asks \ {q} /\ loading' = loading \ {q.dir}
      /\ q.generation = generation /\ q.session = session
    BY DEF DirAnswer, Stale
<1>2. q.dir \in Dirs
    BY DEF TreeInv, TreeTypes, Listings, DirAnswer
<1>3. q.dir \in loading
    BY <1>2 DEF TreeInv, OneListing
<1>4. \A d \in loading' :
        [dir |-> d, generation |-> generation, session |-> session] \in asks'
    BY <1>1 DEF TreeInv, TreeCurrent
<1>5. ASSUME NEW p \in asks', p.dir \in Dirs, ~Stale(p) PROVE p.dir \in loading'
    <2>1. p \in asks /\ p # q /\ p \in Listings /\ q \in Listings
        BY <1>1 DEF TreeInv, TreeTypes
    <2>2. p.dir \in loading /\ p.generation = q.generation /\ p.session = q.session
        BY <1>1, <1>5, <2>1 DEF TreeInv, OneListing, Stale
    <2>3. p.dir # q.dir
        BY <2>1, <2>2, SameListing
    <2> QED BY <1>1, <2>2, <2>3
<1> QED BY <1>1, <1>2, <1>3, <1>4, <1>5

\* The listing arrives: its directory and those below have their rows.
LEMMA ListingKeeps ==
    ASSUME TreeShape, TreeInv, NEW q \in asks, DirAnswer(q), ~Stale(q),
           filled' = filled \cup Fill(LoadedPaths(q.dir), q.generation, q.session),
           known' = known \cup Listed(q.dir) \cup LoadedPaths(q.dir),
           failed' = failed \ {q.dir}
    PROVE  TreeInv'
<1> DEFINE L == LoadedPaths(q.dir)
<1>1. /\ UNCHANGED <<session, generation>>
      /\ asks' = asks \ {q} /\ loading' = loading \ {q.dir}
      /\ q.dir \in loading /\ q.dir \in Dirs
      /\ q.generation = generation /\ q.session = session
      /\ \A d \in loading' :
           [dir |-> d, generation |-> generation, session |-> session] \in asks'
      /\ \A p \in asks' : p.dir \in Dirs /\ ~Stale(p) => p.dir \in loading'
    BY CurrentAnswer
<1>2. /\ Listed(q.dir) \subseteq Dirs /\ L \subseteq Dirs
      /\ \A c \in Listed(q.dir) : Parent[c] \in L \cup {Root}
      /\ \A c \in L : c = q.dir \/ Parent[c] = q.dir
    BY <1>1, ListedBelowLoaded
<1>3. Loaded' = Loaded \cup L
    <2>1. Loaded' = {r.dir : r \in filled'}
        BY DEF Loaded
    <2> QED BY <2>1, FillDirs DEF Loaded
<1>4. q.dir \in L
    BY <1>1 DEF LoadedPaths, TreeShape
<1>5. q.dir \in known /\ q.dir \notin Loaded /\ q.dir # Root
    BY <1>1 DEF TreeInv, KnownBelowLoaded, OneListing, TreeShape
<1>6. \A c \in L : c \in loading \cup failed => c = q.dir
    BY <1>2, <1>5 DEF TreeInv, KnownBelowLoaded
<1> HIDE DEF L
<1>7. TreeTypes'
    <2>1. filled' \subseteq Fillings
        BY <1>1, <1>2 DEF L, TreeInv, TreeTypes, Fill, Fillings
    <2> QED BY <1>1, <1>2, <2>1 DEF L, TreeInv, TreeTypes
<1>8. TreeCurrent'
    <2>1. \A r \in filled' : r.generation = generation' /\ r.session = session'
        BY <1>1 DEF TreeInv, TreeCurrent, Fill
    <2>2. Loaded' \cap failed' = {}
        BY <1>3, <1>6 DEF TreeInv, TreeCurrent
    <2> QED BY <1>1, <2>1, <2>2 DEF TreeCurrent
<1>9. KnownBelowLoaded'
    <2>1. loading' \cup failed' \subseteq known'
        BY <1>1 DEF TreeInv, KnownBelowLoaded
    <2>2. \A d \in L : Parent[d] \in Loaded' \cup {Root}
        BY <1>2, <1>3, <1>4, <1>5 DEF TreeInv, KnownBelowLoaded
    <2>3. \A d \in known' : Parent[d] \in Loaded' \cup {Root}
        BY <1>2, <1>3, <2>2 DEF L, TreeInv, KnownBelowLoaded
    <2> QED BY <2>1, <2>3 DEF KnownBelowLoaded
<1>10. OneListing'
    <2>1. loading' \cap (Loaded' \cup failed') = {}
        BY <1>1, <1>3, <1>6 DEF TreeInv, OneListing
    <2> QED BY <1>1, <2>1 DEF OneListing, Stale
<1> QED BY <1>7, <1>8, <1>9, <1>10 DEF TreeInv

\* The listing failed.
LEMMA FailureKeeps ==
    ASSUME TreeInv, NEW q \in asks, DirAnswer(q), ~Stale(q),
           failed' = failed \cup {q.dir}, UNCHANGED <<known, filled>>
    PROVE  TreeInv'
<1>1. /\ UNCHANGED <<session, generation>>
      /\ asks' = asks \ {q} /\ loading' = loading \ {q.dir}
      /\ q.dir \in loading /\ q.dir \in Dirs
      /\ \A d \in loading' :
           [dir |-> d, generation |-> generation, session |-> session] \in asks'
      /\ \A p \in asks' : p.dir \in Dirs /\ ~Stale(p) => p.dir \in loading'
    BY CurrentAnswer
<1>2. Loaded' = Loaded
    BY DEF Loaded
<1>3. TreeTypes'
    BY <1>1 DEF TreeInv, TreeTypes
<1>4. TreeCurrent'
    BY <1>1, <1>2 DEF TreeInv, TreeCurrent, OneListing
<1>5. KnownBelowLoaded' /\ OneListing'
    BY <1>1, <1>2 DEF TreeInv, KnownBelowLoaded, OneListing, Stale
<1> QED BY <1>3, <1>4, <1>5 DEF TreeInv

LEMMA DirAnswerKeeps ==
    ASSUME TreeShape, TreeInv, NEW q \in asks, DirAnswer(q) PROVE TreeInv'
<1>1. CASE Stale(q)
    BY <1>1, StaleAnswerKeeps
<1>2. CASE ~Stale(q)
    BY <1>2, ListingKeeps, FailureKeeps DEF DirAnswer
<1> QED BY <1>1, <1>2

-----------------------------------------------------------------------------
(* The theorem                                                             *)

LEMMA TreeKeeps == ASSUME TreeShape, TreeInv, [TreeNext]_treeVars PROVE TreeInv'
<1>1. CASE UNCHANGED treeVars
    BY <1>1 DEF treeVars, TreeInv, TreeTypes, TreeCurrent, KnownBelowLoaded, OneListing, Loaded,
                  Stale
<1>2. CASE TreeNext
    BY <1>2, OpenSessionKeeps, RefreshKeeps, RemountKeeps, RootAnswerKeeps, DirAnswerKeeps,
       ExpandKeeps, CollapseKeeps DEF TreeNext
<1> QED BY <1>1, <1>2

(* Rows of the tree are always of the session that is open and were asked for since the
   tree was last reset, and a directory never both has its rows and is marked as failed,
   whatever the directories, and however many sessions, resets and listings there are.
   [ProjectTree.jsx:177-185 and loadDirectoryChildren] *)
THEOREM RowsCurrent == TreeSpec => []TreeCurrent
<1>1. TreeInit => TreeInv
    BY TreeStart, TreeAssumption
<1>2. TreeInv /\ [TreeNext]_treeVars => TreeInv'
    BY TreeKeeps, TreeAssumption
<1>3. TreeInv => TreeCurrent
    BY DEF TreeInv
<1> QED BY <1>1, <1>2, <1>3, PTL DEF TreeSpec

-----------------------------------------------------------------------------
(* The types of the tree                                                   *)

\* What TreeInv does not tell of the numbers and the widget.
TreeRange ==
    session \in Sessions \cup {0} /\ generation \in 1..MaxGeneration /\ expanded \subseteq Dirs

LEMMA TreeRangeKept ==
    ASSUME TreeShape, TreeInv, TreeRange, [TreeNext]_treeVars PROVE TreeRange'
<1>1. ASSUME NEW t, NEW s, Reset(t, s)
      PROVE  generation' \in 1..MaxGeneration /\ expanded' \subseteq Dirs
    BY <1>1 DEF Reset, TreeRange, TreeShape
<1>2. CASE OpenSession
    BY <1>1, <1>2 DEF OpenSession, TreeRange
<1>3. CASE Remount
    BY <1>1, <1>3 DEF Remount, TreeRange
<1>4. ASSUME NEW q \in asks, RootAnswer(q) PROVE TreeRange'
    BY <1>1, <1>4 DEF RootAnswer, TreeRange
<1>5. ASSUME NEW q \in asks, DirAnswer(q) PROVE TreeRange'
    BY <1>5 DEF DirAnswer, TreeRange
<1>6. ASSUME NEW d \in Dirs, Expand(d) \/ Collapse(d) PROVE TreeRange'
    BY <1>6 DEF Expand, Collapse, TreeRange
<1>7. CASE Refresh \/ UNCHANGED treeVars
    BY <1>7 DEF Refresh, treeVars, TreeRange
<1> QED BY <1>2, <1>3, <1>4, <1>5, <1>6, <1>7 DEF TreeNext

LEMMA TreeTypesOK == TreeInv /\ TreeRange => TreeTypeOK
<1> SUFFICES ASSUME TreeInv, TreeRange PROVE TreeTypeOK
    OBVIOUS
<1>1. Loaded \subseteq Dirs
    BY DEF TreeInv, TreeTypes, Loaded, Fillings
<1>2. \A q \in asks : q.dir \in Dirs \cup {Root} /\ q.generation <= generation
    BY DEF TreeInv, TreeTypes, Listings
<1> QED BY <1>1, <1>2 DEF TreeInv, TreeTypes, TreeRange, TreeTypeOK

-----------------------------------------------------------------------------
(* The pane of the editor                                                  *)

HostTypes ==
    /\ pane \in [effect : Nat, path : Paths \cup {None}, status : Statuses]
    /\ waits \subseteq [effect : Nat, path : Paths, session : PaneSessions \cup {None},
                        got : {Unanswered, "monaco", "failure"}]
    /\ paneSession \in PaneSessions \cup {None}
    /\ \A w \in waits : w.effect <= pane.effect

\* The effect of the pane waits with the path and the session the window has.
WaitsCurrent ==
    \A w \in waits : w.effect = pane.effect /\ pane.path # None =>
        w.path = pane.path /\ w.session = paneSession

\* An effect waits once, and not any more when its editor is there.
WaitsOnce ==
    /\ \A v, w \in waits : v.effect = w.effect => v = w
    /\ pane.status = "ready" =>
        pane.path # None /\ \A w \in waits : w.effect # pane.effect

(* EditorCurrent alone is not kept: what a continuation creates is what it has waited with,
   and a second one of the same effect could create, or fail, beside the first. *)
HostInv == HostTypes /\ EditorCurrent /\ WaitsCurrent /\ WaitsOnce

-----------------------------------------------------------------------------
(* The parts of the steps                                                  *)

\* The clean-up leaves no editor and no model attached.
LEMMA CleanUpClears ==
    ASSUME HostInv, CleanUp
    PROVE  editors' = {} /\ attached' = {}
<1>1. \A e \in editors : e.effect = pane.effect /\ e.path = pane.path
    BY DEF HostInv, EditorCurrent
<1>2. editors' = {}
    BY <1>1 DEF CleanUp
<1>3. attached \subseteq {pane.path}
    BY <1>1 DEF HostInv, EditorCurrent
<1>4. attached' = {}
    BY <1>3 DEF CleanUp
<1> QED BY <1>2, <1>4

\* The effect runs with the next number, under which nobody waits yet.
LEMMA EffectKeeps ==
    ASSUME PathsNamed, HostInv, NEW path \in Paths, NEW s \in PaneSessions \cup {None},
           CleanUp, Effect(path, s), paneSession' = s,
           NEW st \in {"loading", "error"},
           pane' = [effect |-> pane.effect + 1, path |-> path, status |-> st]
    PROVE  HostInv'
<1> DEFINE new == [effect |-> pane.effect + 1, path |-> path, session |-> s,
                   got |-> IF monaco THEN "monaco" ELSE Unanswered]
<1>1. waits' = waits \cup {new}
    BY DEF Effect
<1>2. pane.effect \in Nat /\ pane'.effect = pane.effect + 1 /\ pane'.path = path
      /\ pane'.status = st
    BY DEF HostInv, HostTypes
<1>3. \A w \in waits : w.effect \in Nat /\ w.effect <= pane.effect
    BY DEF HostInv, HostTypes
<1>4. \A w \in waits : w.effect # pane.effect + 1
    BY <1>2, <1>3
<1>5. new.effect = pane.effect + 1 /\ new.path = path /\ new.session = s
    OBVIOUS
<1>6. new \in [effect : Nat, path : Paths, session : PaneSessions \cup {None},
               got : {Unanswered, "monaco", "failure"}]
    BY <1>2
<1> HIDE DEF new
<1>7. HostTypes'
    <2>1. pane' \in [effect : Nat, path : Paths \cup {None}, status : Statuses]
        BY <1>2 DEF Statuses
    <2>2. \A w \in waits' : w.effect <= pane'.effect
        BY <1>1, <1>2, <1>3, <1>5
    <2> QED BY <1>1, <1>6, <2>1, <2>2 DEF HostInv, HostTypes
<1>8. EditorCurrent'
    BY <1>2, CleanUpClears DEF EditorCurrent
<1>9. WaitsCurrent'
    BY <1>1, <1>2, <1>4, <1>5 DEF WaitsCurrent
<1>10. WaitsOnce'
    BY <1>1, <1>2, <1>4, <1>5 DEF HostInv, WaitsOnce
<1> QED BY <1>7, <1>8, <1>9, <1>10 DEF HostInv

\* Telling the waits of the end of the promise changes nothing else about them.
LEMMA SettleKeeps ==
    ASSUME HostInv, NEW got \in {"monaco", "failure"}, Settle(got), UnchangedPane
    PROVE  HostInv'
<1>1. waits' = {[w EXCEPT !.got = got] : w \in waits}
    BY DEF Settle
<1>2. \A v \in waits' : \E w \in waits :
        /\ v = [w EXCEPT !.got = got]
        /\ v.effect = w.effect /\ v.path = w.path /\ v.session = w.session
    BY <1>1 DEF HostInv, HostTypes
<1>3. UNCHANGED <<paneSession, pane, editors, attached, provider>>
    BY DEF UnchangedPane
<1>4. HostTypes'
    <2>1. waits' \subseteq [effect : Nat, path : Paths, session : PaneSessions \cup {None},
                            got : {Unanswered, "monaco", "failure"}]
        BY <1>1 DEF HostInv, HostTypes
    <2> QED BY <1>2, <1>3, <2>1 DEF HostInv, HostTypes
<1>5. EditorCurrent'
    BY <1>3 DEF HostInv, EditorCurrent
<1>6. WaitsCurrent'
    BY <1>2, <1>3 DEF HostInv, WaitsCurrent
<1>7. WaitsOnce'
    BY <1>2, <1>3 DEF HostInv, WaitsOnce
<1> QED BY <1>4, <1>5, <1>6, <1>7 DEF HostInv

\* What does not touch the pane, the waits or the session keeps the invariant.
LEMMA LoaderKeeps ==
    ASSUME HostInv, UnchangedPane, waits' = waits
    PROVE  HostInv'
BY DEF HostInv, HostTypes, EditorCurrent, WaitsCurrent, WaitsOnce, UnchangedPane

-----------------------------------------------------------------------------
(* The steps                                                               *)

LEMMA HostStart == ASSUME EditorInit PROVE HostInv
<1>1. /\ pane = [effect |-> 0, path |-> None, status |-> None]
      /\ waits = {} /\ paneSession = None /\ editors = {} /\ attached = {}
    BY DEF EditorInit
<1>2. pane.effect = 0 /\ pane.path = None /\ pane.status = None
    BY <1>1
<1>3. HostTypes
    BY <1>1 DEF HostTypes, Statuses
<1>4. pane.status # "ready"
    BY <1>2 DEF None
<1>5. EditorCurrent
    <2>1. attached = {e.path : e \in editors}
        BY <1>1
    <2> QED BY <1>1, <1>4, <2>1 DEF EditorCurrent
<1>6. WaitsCurrent
    BY <1>1 DEF WaitsCurrent
<1>7. WaitsOnce
    BY <1>1, <1>4 DEF WaitsOnce
<1> QED BY <1>3, <1>5, <1>6, <1>7 DEF HostInv

LEMMA ShowKeeps ==
    ASSUME PathsNamed, HostInv, NEW path \in Paths, Show(path)
    PROVE  HostInv'
<1>1. paneSession \in PaneSessions \cup {None}
    BY DEF HostInv, HostTypes
<1>2. /\ CleanUp /\ Effect(path, paneSession) /\ paneSession' = paneSession
      /\ pane' = [effect |-> pane.effect + 1, path |-> path, status |-> "loading"]
    BY DEF Show
<1> QED BY <1>1, <1>2, EffectKeeps

\* Without a pane no effect is looked at.
LEMMA HideKeeps ==
    ASSUME PathsNamed, HostInv, Hide
    PROVE  HostInv'
<1>1. editors' = {} /\ attached' = {}
    BY CleanUpClears DEF Hide
<1>2. /\ pane'.effect = pane.effect /\ pane'.path = None /\ pane'.status = None
      /\ pane' \in [effect : Nat, path : Paths \cup {None}, status : Statuses]
      /\ UNCHANGED <<waits, paneSession>>
    BY DEF Hide, HostInv, HostTypes, Statuses
<1>3. None # "ready"
    BY DEF None
<1> QED BY <1>1, <1>2, <1>3
        DEF HostInv, HostTypes, EditorCurrent, WaitsCurrent, WaitsOnce

LEMMA ChangeSessionKeeps ==
    ASSUME PathsNamed, HostInv, NEW s \in PaneSessions, ChangeSession(s)
    PROVE  HostInv'
<1>1. CASE pane.path = None
    <2>1. editors' = {} /\ attached' = {}
        BY CleanUpClears DEF ChangeSession
    <2>2. paneSession' = s /\ waits' = waits /\ pane' = pane
        BY <1>1 DEF ChangeSession
    <2>3. pane.status # "ready"
        BY <1>1 DEF HostInv, WaitsOnce
    <2> QED BY <1>1, <2>1, <2>2, <2>3
            DEF HostInv, HostTypes, EditorCurrent, WaitsCurrent, WaitsOnce
<1>2. CASE pane.path # None
    <2>1. pane.path \in Paths
        BY <1>2 DEF HostInv, HostTypes
    <2>2. CleanUp /\ Effect(pane.path, s) /\ paneSession' = s
        BY <1>2 DEF ChangeSession
    <2>3. \E st \in {"loading", "error"} :
            pane' = [effect |-> pane.effect + 1, path |-> pane.path, status |-> st]
        BY <1>2 DEF ChangeSession
    <2> QED BY <2>1, <2>2, <2>3, EffectKeeps
<1> QED BY <1>1, <1>2

\* The continuation of an effect that is live creates the editor, the first and only.
LEMMA CreateKeeps ==
    ASSUME PathsNamed, HostInv, NEW w \in waits, Create(w)
    PROVE  HostInv'
<1>1. waits' = waits \ {w} /\ paneSession' = paneSession
    BY DEF Create
<1>2. CASE Live(w) /\ pane.status # "error"
    <2>1. /\ w.effect = pane.effect /\ w.path = pane.path /\ w.session = paneSession
          /\ pane.path # None
        BY <1>2 DEF Live, HostInv, WaitsCurrent
    <2>2. pane.status # "ready"
        BY <2>1 DEF HostInv, WaitsOnce
    <2>3. editors = {} /\ attached = {}
        BY <2>2 DEF HostInv, EditorCurrent
    <2>4. /\ editors' = {[effect |-> w.effect, path |-> w.path]} /\ attached' = {w.path}
          /\ provider' = Installed(w.session)
          /\ pane' = [pane EXCEPT !.status = "ready"]
        BY <1>2, <2>3 DEF Create
    <2>5. /\ pane'.effect = pane.effect /\ pane'.path = pane.path /\ pane'.status = "ready"
          /\ pane' \in [effect : Nat, path : Paths \cup {None}, status : Statuses]
        BY <2>4 DEF HostInv, HostTypes, Statuses
    <2>6. HostTypes' /\ WaitsCurrent'
        BY <1>1, <2>5 DEF HostInv, HostTypes, WaitsCurrent
    <2>7. EditorCurrent'
        BY <1>1, <2>1, <2>4, <2>5 DEF EditorCurrent, Installed
    <2>8. WaitsOnce'
        BY <1>1, <2>1, <2>5 DEF HostInv, WaitsOnce
    <2> QED BY <2>6, <2>7, <2>8 DEF HostInv
<1>3. CASE ~(Live(w) /\ pane.status # "error")
    <2>1. UNCHANGED <<editors, attached, provider, pane>>
        BY <1>3 DEF Create
    <2> QED BY <1>1, <2>1
            DEF HostInv, HostTypes, EditorCurrent, WaitsCurrent, WaitsOnce
<1> QED BY <1>2, <1>3

\* An error is shown by a live effect, which has no editor yet.
LEMMA ShowErrorKeeps ==
    ASSUME PathsNamed, HostInv, NEW w \in waits, ShowError(w)
    PROVE  HostInv'
<1>1. waits' = waits \ {w} /\ UNCHANGED <<paneSession, editors, attached, provider>>
    BY DEF ShowError
<1>2. CASE Live(w)
    <2>1. w.effect = pane.effect /\ pane' = [pane EXCEPT !.status = "error"]
        BY <1>2 DEF Live, ShowError
    <2>2. pane.status # "ready"
        BY <2>1 DEF HostInv, WaitsOnce
    <2>3. editors = {} /\ attached = {}
        BY <2>2 DEF HostInv, EditorCurrent
    <2>4. /\ pane'.effect = pane.effect /\ pane'.path = pane.path /\ pane'.status = "error"
          /\ pane' \in [effect : Nat, path : Paths \cup {None}, status : Statuses]
        BY <2>1 DEF HostInv, HostTypes, Statuses
    <2> QED BY <1>1, <2>3, <2>4
            DEF HostInv, HostTypes, EditorCurrent, WaitsCurrent, WaitsOnce
<1>3. CASE ~Live(w)
    <2>1. pane' = pane
        BY <1>3 DEF ShowError
    <2> QED BY <1>1, <2>1
            DEF HostInv, HostTypes, EditorCurrent, WaitsCurrent, WaitsOnce
<1> QED BY <1>2, <1>3

-----------------------------------------------------------------------------
(* The theorem                                                             *)

LEMMA HostKeeps == ASSUME PathsNamed, HostInv, [EditorNext]_editorVars PROVE HostInv'
<1>1. CASE UNCHANGED editorVars
    BY <1>1, LoaderKeeps DEF editorVars, UnchangedPane
<1>2. CASE Preload \/ ScriptLoads
    BY <1>2, LoaderKeeps DEF Preload, ScriptLoads
<1>3. CASE ScriptFails \/ MainLoads \/ MainFails
    BY <1>3, SettleKeeps DEF ScriptFails, MainLoads, MainFails
<1> QED BY <1>1, <1>2, <1>3, ShowKeeps, HideKeeps, ChangeSessionKeeps, CreateKeeps,
           ShowErrorKeeps DEF EditorNext

(* However tabs, panels and sessions change while Monaco is being loaded, and however often,
   at most one editor lives, of the path shown and on the model the runtime writes to, and
   once it is there the providers ask the session of the window.
   [EditorPane.jsx:52-136; monacoLanguages.js: installZedSemanticTokens] *)
THEOREM OneEditor == EditorSpec => []EditorCurrent
<1>1. EditorInit => HostInv
    BY HostStart, PathsAssumption
<1>2. HostInv /\ [EditorNext]_editorVars => HostInv'
    BY HostKeeps, PathsAssumption
<1>3. HostInv => EditorCurrent
    BY DEF HostInv
<1> QED BY <1>1, <1>2, <1>3, PTL DEF EditorSpec

-----------------------------------------------------------------------------
(* The types of the pane                                                   *)

\* What HostInv does not tell of the loader and the numbers of the effects.
HostRange ==
    /\ script \in {"absent", "loading", "ready", "failed"}
    /\ promise \in {None, "script", "main", "never"}
    /\ pane.effect <= MaxEffects
    /\ \A w \in waits : w.effect >= 1

LEMMA HostRangeStart == ASSUME PathsNamed, EditorInit PROVE HostRange
<1>1. pane.effect = 0 /\ waits = {}
    BY DEF EditorInit
<1> QED BY <1>1 DEF PathsNamed, EditorInit, HostRange

LEMMA HostRangeKept ==
    ASSUME PathsNamed, HostInv, HostRange, [EditorNext]_editorVars PROVE HostRange'
<1>1. pane.effect \in Nat /\ MaxEffects \in Nat /\ \A w \in waits : w.effect \in Nat
    BY DEF HostInv, HostTypes, PathsNamed
<1>2. LoadMonaco => script' \in {"absent", "loading", "ready", "failed"}
                    /\ promise' \in {None, "script", "main", "never"}
    BY DEF LoadMonaco, Assets, HostRange
<1>3. ASSUME NEW got, Settle(got) PROVE \A w \in waits' : w.effect >= 1
    BY <1>3 DEF Settle, HostRange, HostInv, HostTypes
<1>4. ASSUME NEW path, NEW s, Effect(path, s)
      PROVE  pane.effect + 1 <= MaxEffects /\ \A w \in waits' : w.effect >= 1
    BY <1>1, <1>4 DEF Effect, HostRange
<1>5. CASE Preload
    BY <1>2, <1>5 DEF Preload, UnchangedPane, HostRange
<1>6. CASE ScriptLoads
    BY <1>6 DEF ScriptLoads, UnchangedPane, HostRange
<1>7. CASE ScriptFails \/ MainLoads \/ MainFails
    BY <1>3, <1>7 DEF ScriptFails, MainLoads, MainFails, UnchangedPane, HostRange
<1>8. ASSUME NEW path \in Paths, Show(path) PROVE HostRange'
    BY <1>2, <1>4, <1>8 DEF Show, Effect, HostRange
<1>9. CASE Hide
    BY <1>9 DEF Hide, HostRange, HostInv, HostTypes
<1>10. ASSUME NEW s \in PaneSessions, ChangeSession(s) PROVE HostRange'
    <2>1. CASE pane.path = None
        BY <1>10, <2>1 DEF ChangeSession, HostRange
    <2>2. CASE pane.path # None
        <3>1. Effect(pane.path, s) /\ pane'.effect = pane.effect + 1
            BY <1>10, <2>2 DEF ChangeSession
        <3> QED BY <1>2, <1>4, <3>1 DEF Effect, HostRange
    <2> QED BY <2>1, <2>2
<1>11. ASSUME NEW w \in waits, Create(w) \/ ShowError(w) PROVE HostRange'
    <2>1. pane'.effect = pane.effect /\ waits' \subseteq waits /\ UNCHANGED <<script, promise>>
        BY <1>11 DEF Create, ShowError, HostInv, HostTypes
    <2> QED BY <2>1 DEF HostRange
<1>12. CASE UNCHANGED editorVars
    BY <1>12 DEF editorVars, HostRange
<1> QED BY <1>5, <1>6, <1>7, <1>8, <1>9, <1>10, <1>11, <1>12 DEF EditorNext

LEMMA HostTypesOK == HostInv /\ HostRange => EditorTypeOK
<1> SUFFICES ASSUME HostInv, HostRange PROVE EditorTypeOK
    OBVIOUS
<1>1. /\ pane.path \in Paths \cup {None} /\ pane.status \in Statuses /\ pane.effect \in Nat
      /\ \A w \in waits : /\ w.effect \in Nat /\ w.effect <= pane.effect
                          /\ w.session \in PaneSessions \cup {None}
    BY DEF HostInv, HostTypes
<1>2. attached \subseteq Paths
    <2>1. \A e \in editors : e.path = pane.path /\ pane.path # None
        BY DEF HostInv, EditorCurrent, WaitsOnce
    <2>2. attached = {e.path : e \in editors}
        BY DEF HostInv, EditorCurrent
    <2> QED BY <1>1, <2>1, <2>2
<1>3. pane.effect <= MaxEffects /\ MaxEffects \in Nat /\ \A w \in waits : w.effect >= 1
    BY PathsAssumption DEF HostRange, PathsNamed
<1>4. pane.effect \in 0..MaxEffects /\ \A w \in waits : w.effect \in 1..pane.effect
    BY <1>1, <1>3
<1> QED BY <1>1, <1>2, <1>4 DEF HostRange, EditorTypeOK

-----------------------------------------------------------------------------
(* The window                                                              *)

\* The step of the window is one of a part, or none, for each part.
LEMMA EachPart ==
    [Next]_vars =>
        /\ [KeyboardNext]_keyboardVars /\ [ThemeNext]_themeVars /\ [TreeNext]_treeVars
        /\ [HighlightNext]_highlightVars /\ [TextNext]_textVars /\ [EditorNext]_editorVars
        /\ [TerminalNext]_terminalVars /\ [BinaryNext]_binaryVars /\ [BackupsNext]_backupsVars
<1> SUFFICES ASSUME [Next]_vars
             PROVE  /\ [KeyboardNext]_keyboardVars /\ [ThemeNext]_themeVars /\ [TreeNext]_treeVars
                    /\ [HighlightNext]_highlightVars /\ [TextNext]_textVars
                    /\ [EditorNext]_editorVars /\ [TerminalNext]_terminalVars
                    /\ [BinaryNext]_binaryVars /\ [BackupsNext]_backupsVars
    OBVIOUS
<1>1. CASE UNCHANGED vars
    BY <1>1 DEF vars
<1>2. CASE Next
    BY <1>2 DEF Next, Runs
<1> QED BY <1>1, <1>2

\* A part is as its own invariant says, whichever part runs.
WindowInv ==
    /\ KeyboardInv /\ KeyboardShape /\ ThemeInv /\ ThemeTypes /\ TreeInv /\ TreeRange
    /\ HighlightInv /\ TextInv /\ HostInv /\ HostRange /\ TerminalInv /\ BinaryInv /\ BackupTypes

LEMMA WindowStart == Init => WindowInv
<1> SUFFICES ASSUME Init PROVE WindowInv
    OBVIOUS
<1>1. TreeInv /\ TreeRange
    <2>1. TreeRange
        BY TreeAssumption DEF Init, TreeInit, TreeRange, TreeShape
    <2> QED BY <2>1, TreeStart, TreeAssumption DEF Init
<1>2. HostInv /\ HostRange
    BY HostStart, HostRangeStart, PathsAssumption DEF Init
<1> QED BY <1>1, <1>2, KeyboardStart, ShapeStart, ThemeInitInv, ThemeStart, HighlightStart,
           TextStart, TerminalStart, BinaryInitInv, BackupTypesStart
        DEF Init, WindowInv

LEMMA WindowKeeps == WindowInv /\ [Next]_vars => WindowInv'
<1> SUFFICES ASSUME WindowInv, [Next]_vars PROVE WindowInv'
    OBVIOUS
<1>1. KeyboardInv' /\ KeyboardShape'
    <2>1. KeyboardTypeOK
        BY KeyboardTypes DEF WindowInv
    <2> QED BY <2>1, EachPart, KeyboardInvKept, ShapeKept, MissedKept DEF WindowInv
<1>2. ThemeInv' /\ ThemeTypes'
    BY EachPart, ThemeInvKept, ThemeTypesKept DEF WindowInv
<1>3. TreeInv' /\ TreeRange'
    BY EachPart, TreeKeeps, TreeRangeKept, TreeAssumption DEF WindowInv
<1>4. HighlightInv' /\ TextInv'
    BY EachPart, HighlightKeeps, TextKeeps DEF WindowInv
<1>5. HostInv' /\ HostRange'
    BY EachPart, HostKeeps, HostRangeKept, PathsAssumption DEF WindowInv
<1>6. TerminalInv' /\ BackupTypes'
    BY EachPart, TerminalInvKept, BackupTypesKept DEF WindowInv
<1>7. BinaryInv'
    BY EachPart, BinaryStepsKeep, BinaryStutters DEF WindowInv
<1> QED BY <1>1, <1>2, <1>3, <1>4, <1>5, <1>6, <1>7 DEF WindowInv

(* Every part of a window keeps its types, for any families, projects, directories, keys,
   files and bounds: what is stored, shown or asked for is a theme, panel, session or path
   there is, each start holds a binary it may hold, and what the database has for a
   project is nothing or a text of projects.  [the nine parts of MCWindow] *)
THEOREM WindowTypes == FairSpec => []TypeOK
<1>1. WindowInv => TypeOK
    <2> SUFFICES ASSUME WindowInv PROVE TypeOK
        OBVIOUS
    <2>1. KeyboardTypeOK /\ ThemeTypeOK /\ TreeTypeOK /\ EditorTypeOK
        BY KeyboardTypes, ThemeTypesOK, TreeTypesOK, HostTypesOK DEF WindowInv
    <2>2. HighlightTypeOK /\ TextTypeOK
        BY DEF WindowInv, HighlightInv, TextInv
    <2>3. TerminalTypeOK /\ BinaryTypeOK /\ BackupsTypeOK
        BY BinaryTypesOK, BackupTypesOK DEF WindowInv, TerminalInv, SocketSet, TerminalTypeOK, BinaryInv
    <2> QED BY <2>1, <2>2, <2>3 DEF TypeOK
<1> QED BY <1>1, WindowStart, WindowKeeps, PTL DEF FairSpec

(* What each part keeps when it runs alone it keeps in the window, beside the others.
   [the properties of the parts, each with its source] *)
THEOREM WindowSafe ==
    FairSpec => [](/\ ChordRuns /\ ThemesKept /\ TreeCurrent /\ TokensExact /\ TextExact
                   /\ EditorCurrent /\ BinaryWhole)
<1>1. WindowInv => /\ ChordRuns /\ ThemesKept /\ TreeCurrent /\ TokensExact /\ TextExact
                   /\ EditorCurrent /\ BinaryWhole
    BY KeyboardInvGives, ThemeInvGives, BinaryInvGives
       DEF WindowInv, TreeInv, HighlightInv, TextInv, HostInv
<1> QED BY <1>1, WindowStart, WindowKeeps, PTL DEF FairSpec
===============================================================================
