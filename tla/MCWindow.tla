------------------------------- MODULE MCWindow -------------------------------
(***************************************************************************)
(* The parts of a window that share no state with each other, and the      *)
(* gateway's preparation of the remote server, checked side by side: a     *)
(* behaviour is one of a single part, the others stay as they were at the  *)
(* start.                                                                  *)
(***************************************************************************)
EXTENDS Integers, Sequences, ManagedBinary, Workbench, Themes, ProjectTree, EditorHost, Terminal,
        Projects, SemanticTokens, TextEdits

VARIABLE part       \* the part that runs

-----------------------------------------------------------------------------
(* The parts and their constants, which the configuration gives these      *)
(* values.                                                                 *)

MCMatching ==
    [q \in Queries |->
        IF q = "q" THEN <<"file.save">>
        ELSE <<"commandPalette.toggle", "zed.openKeymap", "file.save",
               "editPrediction.toggleMenu">>]

One == [name |-> "one", themes |-> <<"oneDark", "oneLight">>]
Ayu == [name |-> "ayu", themes |-> <<"ayuDark">>]
InstallA == [name |-> "a", themes |-> <<"a1">>]
InstallM == [name |-> "m", themes |-> <<"m1">>]

MCBuiltIn == <<Ayu, One>>
MCMayFail == {One}
MCFallback == [name |-> "fallback", themes |-> <<"fallbackDark">>]
MCPacks == <<InstallA, InstallM>>

\* Three directories below one another and a fourth beside the second.
MCParent == [a |-> "", ab |-> "a", abc |-> "ab", e |-> "a"]

Token(line, start, length, endLine, end, type, modifiers) ==
    [line |-> line, startCharacter |-> start, length |-> length, endLine |-> endLine,
     endCharacter |-> end, type |-> type, modifiers |-> modifiers]

MCTokens ==
    {Token(0, 4, 2, -1, -1, <<"keyword", "x">>, {}),
     Token(1, 2, -1, 1, 5, <<"function", "method", "x">>, {"static", "foo"}),
     Token(1, 0, 1, -1, -1, <<"typeParameter">>, {"declaration", "readonly"}),
     Token(2, 1, -1, 3, 4, <<"string">>, {}),
     Token(1, 2, 3, -1, -1, <<"spell">>, {}),
     Token(2, -1, 3, -1, -1, <<"string", "regexp">>, {}),
     Token(2, 3, 0, -1, -1, <<"tag">>, {})}
MCArrays == {<<-1>>, <<1, 0, 2, 3, 0>>}

MCUtf8 == [ascii |-> 1, accent |-> 2, emoji |-> 4, newline |-> 1, mark |-> 3]
MCUtf16 == [ascii |-> 1, accent |-> 1, emoji |-> 2, newline |-> 1, mark |-> 1]
MCFiles == {<<>>, <<"emoji", "newline", "accent">>, <<"emoji", "emoji", "newline", "ascii">>,
            <<"mark", "ascii", "accent", "ascii">>}
MCInserted == {<<>>, <<"emoji", "newline">>}

-----------------------------------------------------------------------------
(* The window                                                              *)

Parts == {"keyboard", "theme", "tree", "highlight", "text", "editor", "shell", "binary",
          "backups"}

Init ==
    /\ part \in Parts
    /\ KeyboardInit /\ ThemeInit /\ TreeInit /\ HighlightInit /\ TextInit
    /\ EditorInit /\ TerminalInit /\ BinaryInit /\ BackupsInit

Runs(p) ==
    /\ part = p /\ UNCHANGED part
    /\ p # "keyboard" => UNCHANGED keyboardVars
    /\ p # "theme" => UNCHANGED themeVars
    /\ p # "tree" => UNCHANGED treeVars
    /\ p # "highlight" => UNCHANGED highlightVars
    /\ p # "text" => UNCHANGED textVars
    /\ p # "editor" => UNCHANGED editorVars
    /\ p # "shell" => UNCHANGED terminalVars
    /\ p # "binary" => UNCHANGED binaryVars
    /\ p # "backups" => UNCHANGED backupsVars

Next ==
    \/ Runs("keyboard") /\ KeyboardNext
    \/ Runs("theme") /\ ThemeNext
    \/ Runs("tree") /\ TreeNext
    \/ Runs("highlight") /\ HighlightNext
    \/ Runs("text") /\ TextNext
    \/ Runs("editor") /\ EditorNext
    \/ Runs("shell") /\ TerminalNext
    \/ Runs("binary") /\ BinaryNext
    \/ Runs("backups") /\ BackupsNext

vars ==
    <<part, keyboardVars, themeVars, treeVars, highlightVars, textVars, editorVars, terminalVars,
      binaryVars, backupsVars>>

\* Fair where the modules say so; a part that does not run has nothing to do.
FairSpec ==
    /\ Init /\ [][Next]_vars
    /\ TreeFairness /\ EditorFairness /\ TerminalFairness

-----------------------------------------------------------------------------
(* Properties, each stated in the module of its part and checked as it     *)
(* stands there.  A part that does not run keeps its initial state.        *)

\* Every part keeps its types.
TypeOK ==
    /\ KeyboardTypeOK /\ ThemeTypeOK /\ TreeTypeOK /\ HighlightTypeOK /\ TextTypeOK
    /\ EditorTypeOK /\ TerminalTypeOK /\ BinaryTypeOK /\ BackupsTypeOK
=============================================================================
