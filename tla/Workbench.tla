------------------------------ MODULE Workbench ------------------------------
(***************************************************************************)
(* The shell of the browser workbench: key strokes resolved to commands    *)
(* (lib/keybindings.js, hooks/useWorkbenchKeybindings.js), the command     *)
(* registry and its contributions (commands/), the panels the commands     *)
(* show and hide (hooks/useWorkbenchPanels.js, ZedWorkbench.jsx), the      *)
(* menus and bars, and the command palette.                                *)
(*                                                                         *)
(* A key stroke is [mods, key].  Titles, aliases and the scoring of the    *)
(* palette's search are data: Matching gives the rows a query leaves.      *)
(***************************************************************************)
EXTENDS Naturals, Sequences, SequencesExt, FiniteSets, TLC

CONSTANTS
    Keys,           \* keys the user presses, modifiers included
    Commands,       \* commands of the instance, a subset of AllCommands
    Queries,        \* what may be typed in the palette; "" is among them
    Matching,       \* Matching[q]: commands filterCommands leaves, in order
    BarModes        \* panels of the bottom bar the user clicks

VARIABLES
    held,           \* modifier keys that are down
    pending,        \* pendingSequenceRef: strokes of a chord begun
    ui,             \* panels, [left, center, bottom, right, palette, started]
    file,           \* hasActiveFile: an editor is open
    agent,          \* a session with the capabilities of the server commands
    box,            \* the open palette: [query, shown, index]
    typed,          \* history: the stroke before, if no chord ended with it
    missed          \* history: a chord was typed and its command did not run

keyboardVars == <<held, pending, ui, file, agent, box, typed, missed>>

NoId == "none"
Modifiers == {"ctrl", "alt", "shift", "cmd"}
Punctuation == {"!"}        \* keys whose character already tells the shift

Plain(k) == [mods |-> {}, key |-> k]
Ctrl(k) == [mods |-> {"ctrl"}, key |-> k]
CtrlAlt(k) == [mods |-> {"ctrl", "alt"}, key |-> k]
CtrlShift(k) == [mods |-> {"ctrl", "shift"}, key |-> k]

-----------------------------------------------------------------------------
(* Commands and what they do to the panels                                 *)

\* Commands that show a panel in the centre.
CenterOf ==
    "zed.openSettings" :> "settings" @@ "zed.openSettingsFile" :> "settings-file"
    @@ "zed.openKeymap" :> "keymap" @@ "zed.extensions" :> "extensions"
    @@ "editor.find" :> "search" @@ "pane.deploySearch" :> "search"
    @@ "diagnostics.deploy" :> "diagnostics" @@ "tasks.spawn" :> "tasks"
    @@ "zed.about" :> "about"

\* The two selectors open in the centre as well.
SelectorOf == "themeSelector.toggle" :> "theme" @@ "iconThemeSelector.toggle" :> "icon-theme"

\* Commands that show a panel in the left dock.
LeftOf ==
    "project.openRecent" :> "recent" @@ "outlinePanel.toggle" :> "outline"
    @@ "collabPanel.toggle" :> "threads" @@ "project.panel" :> "project"

DockCommands ==
    {"workspace.toggleLeftDock", "workspace.toggleRightDock", "workspace.toggleBottomDock",
     "workspace.toggleAllDocks", "terminalPanel.toggle", "debuggerPanel.toggle",
     "project.openRemote"}

FileCommands == {"file.save", "file.saveAll", "file.revert", "file.closeEditor"}

\* Commands the remote server would carry out: they are enabled by a capability of the
\* session and only leave a status message.
ServerCommands == {"editPrediction.toggleMenu", "editor.diffClipboardWithSelection"}

AgentCommands ==
    {"agent.addContextServer", "agent.addSelectionToThread", "agent.copyThreadToClipboard",
     "agent.expandMessageEditor", "agent.focus", "agent.follow", "agent.newThreadFromSelection"}

\* Commands that open a page of the browser or leave a status message.
OutsideCommands ==
    {"zed.checkUiUpdates", "zed.checkRemoteServerUpdates", "help.emailZed",
     "help.requestFeature", "help.zedRepository", "help.zedTwitter", "help.joinTheTeam",
     "help.documentation", "help.fileBugReport"}

AllCommands ==
    DOMAIN CenterOf \cup DOMAIN SelectorOf \cup DOMAIN LeftOf \cup DockCommands
    \cup FileCommands \cup ServerCommands \cup AgentCommands \cup OutsideCommands
    \cup {"commandPalette.toggle"}

\* A command registered with registerCommand has one handler; which is enabled when
\* the file, the session and its capabilities say so.
Enabled(c) ==
    /\ c \in FileCommands => file
    /\ c \in ServerCommands \cup AgentCommands => agent

Toggled(mode, current) == IF current = mode THEN NoId ELSE mode

\* toggleBottomPanel: the terminal, once asked for, stays mounted.
ToggleBottom(u, mode) ==
    [u EXCEPT !.bottom = Toggled(mode, @), !.started = @ \/ mode = "terminal"]

AnyDock(u) == u.left # NoId \/ u.right # NoId \/ u.bottom # NoId

ToggleAllDocks(u) ==
    IF AnyDock(u)
    THEN [u EXCEPT !.left = NoId, !.right = NoId, !.bottom = NoId]
    ELSE ToggleBottom([u EXCEPT !.left = "project", !.right = "inspector"], "terminal")

\* openKeybindingChange and the palette's rows run with source 'palette': it closes.
CommandEffect(c, u) ==
    CASE c \in DOMAIN CenterOf   -> [u EXCEPT !.center = CenterOf[c]]
      [] c \in DOMAIN SelectorOf -> [u EXCEPT !.center = SelectorOf[c]]
      [] c \in DOMAIN LeftOf     -> [u EXCEPT !.left = LeftOf[c]]
      [] c = "workspace.toggleLeftDock" ->
            [u EXCEPT !.left = Toggled(IF @ = NoId THEN "project" ELSE @, @)]
      [] c = "workspace.toggleRightDock" ->
            [u EXCEPT !.right = Toggled(IF @ = NoId THEN "inspector" ELSE @, @)]
      [] c \in {"workspace.toggleBottomDock", "terminalPanel.toggle"} ->
            ToggleBottom(u, "terminal")
      [] c = "debuggerPanel.toggle"    -> ToggleBottom(u, "debug")
      [] c = "workspace.toggleAllDocks" -> ToggleAllDocks(u)
      [] c = "project.openRemote"      -> [u EXCEPT !.right = "remote"]
      [] c = "commandPalette.toggle"   -> [u EXCEPT !.palette = ~@]
      [] OTHER                         -> u

-----------------------------------------------------------------------------
(* Key bindings                                                            *)

Binding(c, s) == [command |-> c, sequence |-> s, global |-> FALSE]

AllBindings == <<
    Binding("zed.openSettings", <<CtrlAlt("s")>>),
    Binding("commandPalette.toggle", <<Plain("shift"), Plain("shift")>>),
    [Binding("commandPalette.toggle", <<CtrlShift("p")>>) EXCEPT !.global = TRUE],
    [Binding("commandPalette.toggle", <<Plain("f1")>>) EXCEPT !.global = TRUE],
    Binding("zed.openKeymap", <<Ctrl("k"), Ctrl("s")>>),
    Binding("zed.extensions", <<CtrlShift("x")>>),
    Binding("file.save", <<Ctrl("s")>>),
    Binding("editor.find", <<Ctrl("f")>>),
    Binding("pane.deploySearch", <<CtrlShift("f")>>),
    Binding("diagnostics.deploy", <<CtrlShift("m")>>),
    Binding("workspace.toggleLeftDock", <<Ctrl("b")>>),
    Binding("workspace.toggleRightDock", <<CtrlAlt("b")>>),
    Binding("workspace.toggleBottomDock", <<Ctrl("j")>>),
    Binding("workspace.toggleAllDocks", <<CtrlAlt("y")>>),
    Binding("themeSelector.toggle", <<Ctrl("k"), Ctrl("t")>>),
    Binding("editPrediction.toggleMenu", <<CtrlShift("i")>>)>>

Suppressed == ui.palette \/ ui.center \in {"theme", "icon-theme"}

\* The binding's when().
When(b) ==
    CASE b.command = "file.save" -> file
      [] b.command = "editPrediction.toggleMenu" -> agent
      [] b.sequence = <<Plain("shift"), Plain("shift")>> -> ~ui.palette
      [] OTHER -> TRUE

Active(b) == b.command \in Commands /\ (Suppressed => b.global) /\ When(b)

\* keyboardEventToKeystroke: the modifiers held, the key's own and a shift that the
\* character shows left out.
Keystroke(k) ==
    [mods |-> {m \in held \ {k} : m = "shift" => k \notin Punctuation}, key |-> k]

ModifierOnly(s) == s.mods = {} /\ s.key \in Modifiers
PlainText(s) == s.mods = {} /\ s.key \notin {"f1"}

\* resolveKeybinding: of the active bindings the input is a prefix of, the one it
\* completes that was registered last, and whether another goes on.
Resolve(input) ==
    LET fits == {i \in DOMAIN AllBindings :
                    Active(AllBindings[i]) /\ IsPrefix(input, AllBindings[i].sequence)}
        exact == {i \in fits : AllBindings[i].sequence = input}
    IN  [command |-> IF exact = {} THEN NoId
                     ELSE AllBindings[CHOOSE i \in exact : \A j \in exact : j <= i].command,
         more |-> exact # fits]

\* What an input does: the command it completes and the strokes it leaves to be continued.
\* No bound sequence is the beginning of another, so no command is ever deferred to the
\* time-out.
Taken(input) ==
    LET r == Resolve(input)
    IN  [hit |-> r.command # NoId \/ r.more,
         command |-> IF r.more THEN NoId ELSE r.command,
         pending |-> IF r.more THEN input ELSE <<>>]

\* Mutant: a stroke that does not go on with the sequence is lost with it.
HandledOnce(s) == Taken(Append(pending, s))

\* handleKeyDown from the resolution on, restarting with the last stroke when the
\* sequence leads nowhere.
Handled(s) ==
    LET whole == Taken(Append(pending, s))
    IN  IF whole.hit \/ pending = <<>> THEN whole ELSE Taken(<<s>>)

-----------------------------------------------------------------------------
(* The user                                                                *)

LeftModes == {"threads", "recent", "project", "git", "outline"}
CenterModes == {"search", "tasks", "diagnostics"}
RightModes == {"remote", "agent"}

ASSUME KeyboardAssumption ==
    /\ "" \in Queries
    /\ BarModes \subseteq LeftModes \cup CenterModes \cup RightModes \cup {"terminal", "debug"}

Panels ==
    [left : {NoId} \cup LeftModes \cup Range(LeftOf),
     center : {NoId} \cup CenterModes \cup Range(CenterOf) \cup Range(SelectorOf),
     bottom : {NoId, "terminal", "debug"},
     right : {NoId, "inspector"} \cup RightModes,
     palette : BOOLEAN, started : BOOLEAN]

ClosedBox == [query |-> "", shown |-> "", index |-> 0]

Rows == Matching[box.shown]

KeyboardInit ==
    /\ held = {} /\ pending = <<>> /\ typed = <<>> /\ missed = FALSE
    /\ ui = [left |-> NoId, center |-> NoId, bottom |-> NoId, right |-> NoId,
             palette |-> FALSE, started |-> FALSE]
    /\ file = FALSE /\ agent = FALSE /\ box = ClosedBox

\* executeCommandById.  Closing an editor leaves another one, or none; run from the
\* palette, a command closes it.
Run(c, source) ==
    /\ Enabled(c)
    /\ ui' = IF source = "palette" THEN [CommandEffect(c, ui) EXCEPT !.palette = FALSE]
             ELSE CommandEffect(c, ui)
    /\ IF c = "file.closeEditor" THEN file' \in BOOLEAN ELSE UNCHANGED file
    /\ box' = IF ui'.palette THEN box ELSE ClosedBox

Forget == pending' = <<>> /\ typed' = <<>>

\* The command of the chord that ends with s, if the stroke before it was its first.
Due(s) ==
    {b \in Range(AllBindings) : Active(b) /\ b.sequence = Append(typed, s) /\ typed # <<>>}

\* handleKeyDown; a repeated event is ignored.  Keys that mean something to the palette
\* have actions of their own below.
KeyDown(k, editable) ==
    LET s == Keystroke(k)
        h == Handled(s)
    IN  /\ k \notin held /\ (ui.palette => k \in Modifiers)
        /\ held' = held \cup ({k} \cap Modifiers)
        /\ IF Suppressed \/ (editable /\ PlainText(s) /\ ~ModifierOnly(s))
           THEN Forget /\ UNCHANGED <<ui, file, box, missed>>
           ELSE /\ pending' = h.pending
                /\ typed' = IF h.command = NoId THEN <<s>> ELSE <<>>
                /\ missed' = (missed \/ \E b \in Due(s) : h.command # b.command)
                /\ \/ Run(h.command, "keybinding")
                   \/ h.command = NoId /\ UNCHANGED <<ui, file, box>>
        /\ UNCHANGED agent

KeyUp(k) ==
    /\ k \in held
    /\ held' = held \ {k}
    /\ UNCHANGED <<pending, ui, file, agent, box, typed, missed>>

\* KEYBINDING_SEQUENCE_TIMEOUT_MS after the last stroke of a chord begun.
SequenceTimeout ==
    /\ pending # <<>>
    /\ Forget
    /\ UNCHANGED <<held, ui, file, agent, box, missed>>

\* An item of the application menu: the bars above and below stay in reach while a
\* selector or the palette is open.
MenuItem(c) ==
    /\ Run(c, "menu")
    /\ UNCHANGED <<held, pending, agent, typed, missed>>

\* A button of the bottom bar.
BarButton(m) ==
    /\ ui' = CASE m \in LeftModes   -> [ui EXCEPT !.left = Toggled(m, @)]
              [] m \in CenterModes -> [ui EXCEPT !.center = Toggled(m, @)]
              [] m \in RightModes  -> [ui EXCEPT !.right = Toggled(m, @)]
              [] OTHER             -> ToggleBottom(ui, m)
    /\ UNCHANGED <<held, pending, file, agent, box, typed, missed>>

\* The close button of a panel, and startNewTerminal of the terminal's own header.
PanelButton ==
    /\ \/ \E p \in {"left", "center", "bottom", "right"} :
              ui[p] # NoId /\ ui' = [ui EXCEPT ![p] = NoId]
       \/ ui.started /\ agent /\ ui' = [ui EXCEPT !.bottom = "terminal"]
    /\ UNCHANGED <<held, pending, file, agent, box, typed, missed>>

-----------------------------------------------------------------------------
(* The palette: each key passes handleKeyDown first, which is suppressed   *)

\* What a key does on its way to the palette.
PaletteKey == ui.palette /\ Forget /\ UNCHANGED <<held, agent, missed>>

PaletteMouse == ui.palette /\ UNCHANGED <<held, pending, agent, typed, missed>>

\* setQuery; useDeferredValue renders the list later.
PaletteType(q) ==
    /\ PaletteKey
    /\ box' = [box EXCEPT !.query = q]
    /\ UNCHANGED <<ui, file>>

\* The deferred value follows and the effect on it selects the first row.
PaletteShow ==
    /\ PaletteMouse /\ box.shown # box.query
    /\ box' = [query |-> box.query, shown |-> box.query, index |-> 0]
    /\ UNCHANGED <<ui, file>>

PaletteArrow(d) ==
    /\ PaletteKey /\ Rows # <<>>
    /\ box' = [box EXCEPT !.index = (@ + d + Len(Rows)) % Len(Rows)]
    /\ UNCHANGED <<ui, file>>

\* runSelectedCommand: the selected row, or the last one; Ctrl-Enter is another key.
PaletteEnter ==
    /\ PaletteKey /\ held \cap {"ctrl", "cmd"} = {} /\ Rows # <<>>
    /\ Run(Rows[IF box.index < Len(Rows) THEN box.index + 1 ELSE Len(Rows)], "palette")

PaletteClick(i) ==
    /\ PaletteMouse /\ i \in DOMAIN Rows
    /\ Run(Rows[i], "palette")

\* openKeybindingChange, by Ctrl-Enter or from the footer.
PaletteKeymap ==
    /\ PaletteKey \/ PaletteMouse
    /\ Run("zed.openKeymap", "palette")

\* Escape, or a press beside the palette.
PaletteClose ==
    /\ PaletteKey \/ PaletteMouse
    /\ ui' = [ui EXCEPT !.palette = FALSE] /\ box' = ClosedBox
    /\ UNCHANGED file

\* Files open and sessions come and go on their own.
Surroundings ==
    /\ file' \in BOOLEAN /\ agent' \in BOOLEAN
    /\ UNCHANGED <<held, pending, ui, box, typed, missed>>

KeyboardNext ==
    \/ \E k \in Keys, editable \in BOOLEAN : KeyDown(k, editable)
    \/ \E k \in Keys : KeyUp(k)
    \/ SequenceTimeout
    \/ \E c \in Commands : MenuItem(c)
    \/ \E m \in BarModes : BarButton(m)
    \/ PanelButton
    \/ \E q \in Queries : PaletteType(q)
    \/ PaletteShow
    \/ \E d \in {1, -1} : PaletteArrow(d)
    \/ PaletteEnter
    \/ \E i \in 1..Len(Rows) : PaletteClick(i)
    \/ PaletteKeymap \/ PaletteClose \/ Surroundings

KeyboardSpec == KeyboardInit /\ [][KeyboardNext]_keyboardVars

-----------------------------------------------------------------------------
(* Properties                                                              *)

KeyboardTypeOK ==
    /\ held \subseteq Modifiers /\ Len(pending) <= 1 /\ Len(typed) <= 1
    /\ ui \in Panels
    /\ file \in BOOLEAN /\ agent \in BOOLEAN /\ missed \in BOOLEAN
    /\ box.query \in Queries /\ box.shown \in Queries

(* A chord runs its command whatever was typed before it: strokes that begin another
   chord, or the same one again, do not use up its first stroke.  (Strokes are what
   the browser reports: releasing the modifier between two of them is none, pressing it
   again is one.)  [useWorkbenchKeybindings.js: handleKeyDown] *)
ChordRuns == ~missed
=============================================================================
