----------------------------- MODULE ProjectTree -----------------------------
(***************************************************************************)
(* The project tree of the left dock: the listing of the project's root    *)
(* (loadTree of hooks/useRemoteWorkspace.js) and the directories that are  *)
(* listed when they are expanded (components/project/ProjectTree.jsx).     *)
(* Every listing is a round trip; the session may be replaced and the root *)
(* listed again while some are under way.                                  *)
(*                                                                         *)
(* Only directories are modelled, in one tree all sessions share: what     *)
(* matters is whose answer fills which directory.                          *)
(***************************************************************************)
EXTENDS Naturals, FiniteSets

CONSTANTS
    Sessions,       \* ids of sessions opened one after the other, 1..n
    Dirs,           \* directories below the root
    Parent,         \* Parent[d]: a directory, or Root
    Root,
    MaxGeneration,  \* bound: resets of the tree
    MaxAsks         \* bound: listings under way

VARIABLES
    session,        \* the store's session, 0 before the first
    listed,         \* the store's tree: a root listing has arrived
    generation,     \* loadGenerationRef
    known,          \* knownDirectoryPathsRef
    filled,         \* loadedDirectoryPathsRef, and who filled it: [dir, generation, session]
    loading,        \* loadingDirectoryPathsRef
    failed,         \* failedDirectoryPathsRef
    expanded,       \* directories expanded in the widget
    asks            \* listings under way: [dir, generation, session]

treeVars == <<session, listed, generation, known, filled, loading, failed, expanded, asks>>

\* What the constants are: a forest below the root, or any graph of that shape.
TreeShape ==
    /\ Sessions \subseteq Nat /\ MaxGeneration \in Nat \ {0}
    /\ Root \notin Dirs /\ Parent \in [Dirs -> Dirs \cup {Root}]

ASSUME TreeAssumption == TreeShape

Children(d) == {c \in Dirs : Parent[c] = d}

\* directoryPathsFromTreePaths over a listing of depth PROJECT_TREE_PREFETCH_DEPTH.
Listed(d) == Children(d) \cup UNION {Children(c) : c \in Children(d)}

\* loaded_paths of such a listing: the directories it tells all the children of.
LoadedPaths(d) == ({d} \cup Children(d)) \ {Root}

Loaded == {r.dir : r \in filled}

Fill(ds, g, s) == {[dir |-> d, generation |-> g, session |-> s] : d \in ds}

TreeInit ==
    /\ session = 0 /\ listed = FALSE /\ generation = 1
    /\ known = {} /\ filled = {} /\ loading = {} /\ failed = {} /\ expanded = {}
    /\ asks = {}

\* Mutant: the directories that were loading are not forgotten with the tree.
ResetBusy(hasTree, s) ==
    /\ generation < MaxGeneration /\ generation' = generation + 1
    /\ known' = IF hasTree THEN Listed(Root) ELSE {}
    /\ filled' = IF hasTree THEN Fill(LoadedPaths(Root), generation + 1, s) ELSE {}
    /\ loading' = loading /\ failed' = {} /\ expanded' = {}

\* The effect on [loadedTreePaths, rootPaths, session.id]; resetPaths collapses all.
Reset(hasTree, s) ==
    /\ generation < MaxGeneration /\ generation' = generation + 1
    /\ known' = IF hasTree THEN Listed(Root) ELSE {}
    /\ filled' = IF hasTree THEN Fill(LoadedPaths(Root), generation + 1, s) ELSE {}
    /\ loading' = {} /\ failed' = {} /\ expanded' = {}

\* loadTree of the root for a session; whichever answer comes last is the tree.
AskRoot(s) == [dir |-> Root, generation |-> generation, session |-> s]

\* openSession, once the session exists: the old tree stays until its own listing.
OpenSession ==
    /\ session + 1 \in Sessions /\ session' = session + 1
    /\ Cardinality(asks) < MaxAsks
    /\ asks' = asks \cup {AskRoot(session + 1)}
    /\ Reset(listed, session + 1)
    /\ UNCHANGED listed

\* onRefreshTree
Refresh ==
    /\ session # 0 /\ Cardinality(asks) < MaxAsks
    /\ asks' = asks \cup {AskRoot(session)}
    /\ UNCHANGED <<session, listed, generation, known, filled, loading, failed, expanded>>

\* setTree, or the status message of a failure.
RootAnswer(q) ==
    /\ q \in asks /\ q.dir = Root
    /\ asks' = asks \ {q}
    /\ \/ listed' = TRUE /\ Reset(TRUE, session)
       \/ UNCHANGED <<listed, generation, known, filled, loading, failed, expanded>>
    /\ UNCHANGED session

\* The dock shows another panel and then this one: the component starts anew.
Remount ==
    /\ Reset(listed, session)
    /\ UNCHANGED <<session, listed, asks>>

-----------------------------------------------------------------------------
(* Directories listed on demand                                            *)

\* loadExpandedDirectories after a notification of the widget: what is left to list.
Wanted(knownDirs, open, busy, done) ==
    IF session = 0 THEN {} ELSE (knownDirs \cap open) \ (busy \cup done)

Start(ds) ==
    /\ loading' = loading \cup ds
    /\ asks' = asks \cup Fill(ds, generation, session)

Expand(d) ==
    /\ d \in known \ expanded /\ Parent[d] \in expanded \cup {Root}
    /\ Cardinality(asks) < MaxAsks
    /\ expanded' = expanded \cup {d}
    /\ Start(Wanted(known, expanded', loading, Loaded \cup failed))
    /\ UNCHANGED <<session, listed, generation, known, filled, failed>>

Collapse(d) ==
    /\ d \in expanded
    /\ expanded' = expanded \ {d}
    /\ UNCHANGED <<session, listed, generation, known, filled, loading, failed, asks>>

\* Mutant: only the session of an answer is looked at.
StaleSession(q) == session # q.session

\* An answer nobody waits for any more changes nothing.
Stale(q) == session # q.session \/ generation # q.generation

\* loadDirectoryChildren after its await: the listing, or null when both the command and
\* the HTTP request failed.
DirAnswer(q) ==
    /\ q \in asks /\ q.dir # Root
    /\ asks' = asks \ {q}
    /\ IF Stale(q) THEN UNCHANGED <<known, filled, loading, failed>>
       ELSE /\ loading' = loading \ {q.dir}
            /\ \/ /\ filled' = filled \cup Fill(LoadedPaths(q.dir), q.generation, q.session)
                  /\ known' = known \cup Listed(q.dir) \cup LoadedPaths(q.dir)
                  /\ failed' = failed \ {q.dir}
               \/ failed' = failed \cup {q.dir} /\ UNCHANGED <<known, filled>>
    /\ UNCHANGED <<session, listed, generation, expanded>>

TreeNext ==
    \/ OpenSession \/ Refresh \/ Remount
    \/ \E q \in asks : RootAnswer(q) \/ DirAnswer(q)
    \/ \E d \in Dirs : Expand(d) \/ Collapse(d)

TreeSpec == TreeInit /\ [][TreeNext]_treeVars

\* A listing always ends: the command has a timer, and the browser gives up a request.
TreeFairness ==
    \A d \in Dirs, g \in 1..MaxGeneration :
        WF_treeVars(\E q \in asks : q.dir = d /\ q.generation = g /\ DirAnswer(q))

TreeFairSpec == TreeSpec /\ TreeFairness

-----------------------------------------------------------------------------
(* Properties                                                              *)

TreeTypeOK ==
    /\ session \in Sessions \cup {0} /\ generation \in 1..MaxGeneration
    /\ known \cup Loaded \cup loading \cup failed \cup expanded \subseteq Dirs
    /\ \A q \in asks : q.dir \in Dirs \cup {Root} /\ q.generation <= generation

(* A directory is filled by an answer that was asked for since the tree was last reset,
   of the session that is open: no late answer brings rows of an earlier listing or of
   another project back.  A directory that has its rows is neither loading nor failed.
   [ProjectTree.jsx:177-185 and loadDirectoryChildren] *)
TreeCurrent ==
    /\ \A r \in filled : r.generation = generation /\ r.session = session
    /\ \A d \in loading : [dir |-> d, generation |-> generation, session |-> session] \in asks
    /\ Loaded \cap failed = {}

(* A directory the user expands is listed, or marked as failed, or collapsed, by the user
   or by a reset.  [ProjectTree.jsx: loadExpandedDirectories, loadDirectoryChildren] *)
ExpandSettles ==
    \A d \in Dirs : (session # 0 /\ d \in expanded) ~> (d \in Loaded \cup failed \/ d \notin expanded)
=============================================================================
