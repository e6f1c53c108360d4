----------------------------- MODULE EditorHost -----------------------------
(***************************************************************************)
(* The editor of the active tab (components/editor/EditorPane.jsx), Monaco *)
(* that is loaded for it once a page (lib/monacoLoader.js), and the        *)
(* semantic token providers Monaco is given for the session (lib/          *)
(* languages/monacoLanguages.js).                                          *)
(*                                                                         *)
(* Each run of the pane's main effect has a number.  A pane is a mounted   *)
(* component, one for each path shown; its session may change under it.    *)
(***************************************************************************)
EXTENDS Naturals, FiniteSets

CONSTANTS
    Paths,          \* files the user may show
    PaneSessions,   \* sessions, as options of the providers
    Able,           \* sessions that come with the semantic token capability
    MaxEffects      \* bound: runs of the main effect

VARIABLES
    script,         \* the loader's <script>: "absent", "loading", "ready", "failed"
    promise,        \* monacoPromise, by what it waits for: None, "script", "main", "never"
    monaco,         \* window.monaco.editor is there
    waits,          \* effects that wait for loadMonaco: [effect, path, session, got]
    paneSession,    \* the session of the window
    pane,           \* [effect, path, status], path None while no editor is shown
    editors,        \* Monaco editors that live, [effect, path]
    attached,       \* paths with a model attached in bufferRuntime
    provider        \* languageState(monaco): [session, registered]

editorVars == <<script, promise, monaco, waits, paneSession, pane, editors, attached, provider>>

None == "none"
Unanswered == "unanswered"
Statuses == {None, "loading", "ready", "error"}

\* What the constants are: a name that is no path stands for the pane that shows none.
PathsNamed == None \notin Paths /\ MaxEffects \in Nat

ASSUME PathsAssumption == PathsNamed

EditorInit ==
    /\ script = "absent" /\ promise = None /\ monaco = FALSE /\ waits = {}
    /\ paneSession = None
    /\ pane = [effect |-> 0, path |-> None, status |-> None]
    /\ editors = {} /\ attached = {}
    /\ provider = [session |-> None, registered |-> FALSE]

-----------------------------------------------------------------------------
(* loadMonaco                                                              *)

\* Mutant: any script element found is waited for, one that was read already too.
AssetsFound == IF script = "absent" THEN "script" ELSE "never"

\* ensureMonacoAssets: what the new promise waits for.  A script element that failed is
\* still in the document, and its events have been.
Assets ==
    CASE script = "ready"  -> "main"
      [] script = "absent" -> "script"
      [] OTHER             -> "never"

\* The shared promise, or a new one.
LoadMonaco ==
    IF monaco \/ promise # None THEN UNCHANGED <<script, promise>>
    ELSE /\ promise' = Assets
         /\ script' = IF script = "absent" THEN "loading" ELSE script

\* The waits are told.
Settle(got) == waits' = {[w EXCEPT !.got = got] : w \in waits}

UnchangedPane == UNCHANGED <<paneSession, pane, editors, attached, provider>>

\* preloadEditorRuntime, on an idle moment after the page was loaded.
Preload == LoadMonaco /\ UNCHANGED <<monaco, waits>> /\ UnchangedPane

\* configureAmdLoader and loadEditorMain follow the load event.
ScriptLoads ==
    /\ promise = "script"
    /\ script' = "ready" /\ promise' = "main"
    /\ UNCHANGED <<monaco, waits>> /\ UnchangedPane

ScriptFails ==
    /\ promise = "script"
    /\ script' = "failed" /\ promise' = None
    /\ Settle("failure")
    /\ UNCHANGED monaco /\ UnchangedPane

MainLoads ==
    /\ promise = "main" /\ promise' = None
    /\ monaco' = TRUE
    /\ Settle("monaco")
    /\ UNCHANGED script /\ UnchangedPane

MainFails ==
    /\ promise = "main" /\ promise' = None
    /\ Settle("failure")
    /\ UNCHANGED <<script, monaco>> /\ UnchangedPane

-----------------------------------------------------------------------------
(* The pane                                                                *)

\* The clean-up of the main effect: its editor goes and the model is detached.
CleanUp ==
    /\ editors' = {e \in editors : e.effect # pane.effect}
    /\ attached' = attached \ {pane.path}

\* The main effect of a pane with a path and a session.
Effect(path, s) ==
    /\ pane.effect < MaxEffects
    /\ waits' = waits \cup {[effect |-> pane.effect + 1, path |-> path, session |-> s,
                             got |-> IF monaco THEN "monaco" ELSE Unanswered]}
    /\ LoadMonaco
    /\ UNCHANGED <<monaco, provider>>

\* Another tab is shown, or this one again: panes are keyed by their path.
Show(path) ==
    /\ path # pane.path
    /\ CleanUp /\ Effect(path, paneSession)
    /\ pane' = [effect |-> pane.effect + 1, path |-> path, status |-> "loading"]
    /\ UNCHANGED paneSession

\* A panel takes the place of the editor, or the last tab is closed.
Hide ==
    /\ pane.path # None
    /\ CleanUp
    /\ pane' = [pane EXCEPT !.path = None, !.status = None]
    /\ UNCHANGED <<script, promise, monaco, waits, paneSession, provider>>

\* A session opens or is reconnected: the effect runs again in the same pane, and one that
\* shows an error goes on showing it.  The effect that would only renew the providers
\* finds no monaco by then.
ChangeSession(s) ==
    /\ s # paneSession /\ paneSession' = s
    /\ CleanUp
    /\ IF pane.path = None
       THEN UNCHANGED <<script, promise, monaco, waits, pane, provider>>
       ELSE /\ Effect(pane.path, s)
            /\ pane' = [effect |-> pane.effect + 1, path |-> pane.path,
                        status |-> IF pane.status = "error" THEN "error" ELSE "loading"]

\* Mutant: the effect's own clean-up is not looked at.
LiveShown(w) == pane.path # None

\* Not disposed, and the container is in the document.
Live(w) == w.effect = pane.effect /\ pane.path # None

\* installZedSemanticTokens: registered for a session with the capability, else disposed.
Installed(s) == [session |-> s, registered |-> s \in Able]

\* then: the model is made or found and attached, and the editor created on it.
Create(w) ==
    /\ w \in waits /\ w.got = "monaco"
    /\ waits' = waits \ {w}
    /\ IF Live(w) /\ pane.status # "error"
       THEN /\ editors' = editors \cup {[effect |-> w.effect, path |-> w.path]}
            /\ attached' = attached \cup {w.path}
            /\ provider' = Installed(w.session)
            /\ pane' = [pane EXCEPT !.status = "ready"]
       ELSE UNCHANGED <<editors, attached, provider, pane>>
    /\ UNCHANGED <<script, promise, monaco, paneSession>>

\* catch
ShowError(w) ==
    /\ w \in waits /\ w.got = "failure"
    /\ waits' = waits \ {w}
    /\ pane' = IF Live(w) THEN [pane EXCEPT !.status = "error"] ELSE pane
    /\ UNCHANGED <<script, promise, monaco, paneSession, editors, attached, provider>>

EditorNext ==
    \/ Preload \/ ScriptLoads \/ ScriptFails \/ MainLoads \/ MainFails
    \/ \E p \in Paths : Show(p)
    \/ Hide
    \/ \E s \in PaneSessions : ChangeSession(s)
    \/ \E w \in waits : Create(w) \/ ShowError(w)

EditorSpec == EditorInit /\ [][EditorNext]_editorVars

\* A script loads or fails, and the continuations of a promise run.
EditorFairness ==
    /\ WF_editorVars(ScriptLoads \/ ScriptFails)
    /\ WF_editorVars(MainLoads \/ MainFails)
    /\ \A n \in 1..MaxEffects :
        WF_editorVars(\E w \in waits : w.effect = n /\ (Create(w) \/ ShowError(w)))

EditorFairSpec == EditorSpec /\ EditorFairness

-----------------------------------------------------------------------------
(* Properties                                                              *)

EditorTypeOK ==
    /\ script \in {"absent", "loading", "ready", "failed"}
    /\ promise \in {None, "script", "main", "never"}
    /\ pane.path \in Paths \cup {None} /\ pane.status \in Statuses
    /\ pane.effect \in 0..MaxEffects /\ attached \subseteq Paths
    /\ \A w \in waits : w.effect \in 1..pane.effect /\ w.session \in PaneSessions \cup {None}

(* However tabs, panels and sessions change while Monaco is being loaded, the one editor
   that lives is that of the path shown, the runtime writes to its model and to no other,
   and the providers ask the session of the window, if it has the capability.
   [EditorPane.jsx:52-136; monacoLanguages.js: installZedSemanticTokens] *)
EditorCurrent ==
    /\ \A e \in editors : e.effect = pane.effect /\ e.path = pane.path /\ pane.status = "ready"
    /\ attached = {e.path : e \in editors}
    /\ pane.status = "ready" =>
        editors # {} /\ provider = [session |-> paneSession, registered |-> paneSession \in Able]

(* A pane comes to its editor, or to an error, or is shown no longer; a loader whose script
   once failed is given up for the life of the page.
   [monacoLoader.js: loadMonaco, ensureMonacoAssets; EditorPane.jsx: the main effect] *)
LoaderSettles ==
    \A n \in 1..MaxEffects :
        pane.effect = n /\ pane.status = "loading" /\ script # "failed"
            ~> pane.effect # n \/ pane.status # "loading" \/ script = "failed"
=============================================================================
