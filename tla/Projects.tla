------------------------------ MODULE Projects ------------------------------
(***************************************************************************)
(* One window over two projects with a file of the same path: the working  *)
(* copy of that path (store/bufferRuntime.js), which belongs to no         *)
(* project, and its backups, which are kept by workspaceKey.  Opening a    *)
(* session replaces the project and closes nothing, so timers, requests    *)
(* and restores of the one before go on under the key of the next          *)
(* (configureWorkspace and the hook useRemoteWorkspace.js).                *)
(*                                                                         *)
(* What matters of a text is whose it is: the set of projects whose file   *)
(* or edits are in it.  HotExit has the text itself, within one project.   *)
(* The database does not fail here, and opens at any time.                 *)
(***************************************************************************)
EXTENDS Naturals, Sequences, FiniteSets

CONSTANTS
    ProjectKeys,    \* projects, by their createWorkspaceKey
    Crosses,        \* a project may be opened over something of the one before
    MaxQueue,       \* bound: database requests not carried out
    MaxCalls        \* bound: requests to the gateway under way

VARIABLES
    workspace,      \* workspaceKey, NoProject before the first session
    copy,           \* the working copy: [of, dirty, conflict, differs]
    tab,            \* its tab
    timer,          \* backupTimers has the path
    opened,         \* dbPromise is resolved
    queue,          \* database requests: [op, key, of, disposed]
    db,             \* db[k]: the record of project k, {of}, or no record, {}
    calls,          \* requests to the gateway: [kind, project]
    restores,       \* restores that wait for syncRemoteVersions: [of, disposed]
    owed            \* history: backups found by a page, and not given up since

backupsVars == <<workspace, copy, tab, timer, opened, queue, db, calls, restores, owed>>

NoProject == "none"

ASSUME ProjectsAssumption == NoProject \notin ProjectKeys

\* differs: the content is not the base.
NoCopy == [of |-> {}, dirty |-> FALSE, conflict |-> FALSE, differs |-> FALSE]
Clean(of) == [NoCopy EXCEPT !.of = of]

BackupsInit ==
    /\ workspace = NoProject /\ copy = NoCopy /\ tab = "closed" /\ timer = FALSE
    /\ opened = FALSE /\ queue = <<>> /\ db = [k \in ProjectKeys |-> {}]
    /\ calls = {} /\ restores = {} /\ owed = {}

-----------------------------------------------------------------------------
(* The database                                                            *)

\* Mutant: records are kept by their path only.
PathKey(k) == CHOOSE any \in ProjectKeys : TRUE

\* backupKey, of one path
BackupKey(k) == k

\* A put has its key from the start; a delete, and the filter of a read, take that of the
\* moment the database answers.
Request(op, key, of) == [op |-> op, key |-> key, of |-> of, disposed |-> FALSE]

Enqueue(request) == Len(queue) < MaxQueue /\ queue' = Append(queue, request)

\* deleteBackup: the key is computed after openDb.
DeleteBackup ==
    Enqueue(Request("delete", IF opened THEN BackupKey(workspace) ELSE NoProject, {}))

Carried(records, request) ==
    IF request.op = "read" THEN records ELSE [records EXCEPT ![request.key] = request.of]

OpenDb ==
    /\ ~opened /\ queue # <<>> /\ opened' = TRUE
    /\ queue' = [i \in DOMAIN queue |->
                    IF queue[i].op = "delete" THEN [queue[i] EXCEPT !.key = BackupKey(workspace)]
                    ELSE queue[i]]
    /\ UNCHANGED <<workspace, copy, tab, timer, db, calls, restores, owed>>

\* readWorkspaceBackups filters by the workspaceKey there is when it has all records.
CarryOut ==
    /\ opened /\ queue # <<>> /\ queue' = Tail(queue)
    /\ db' = Carried(db, Head(queue))
    /\ restores' = IF Head(queue).op # "read" THEN restores
                   ELSE restores \cup {[of |-> of, disposed |-> Head(queue).disposed] :
                                           of \in db[BackupKey(workspace)]}
    /\ UNCHANGED <<workspace, copy, tab, timer, opened, calls, owed>>

\* scheduleBackup
Scheduled == timer \/ copy'.dirty \/ copy'.differs

\* writeBackup
FireTimer ==
    /\ timer /\ timer' = FALSE
    /\ IF copy.dirty \/ copy.conflict
       THEN Enqueue(Request("put", BackupKey(workspace), {copy.of}))
       ELSE UNCHANGED queue
    /\ UNCHANGED <<workspace, copy, tab, opened, db, calls, restores, owed>>

-----------------------------------------------------------------------------
(* Sessions                                                                *)

Reading == \E i \in DOMAIN queue : queue[i].op = "read"

\* What of the project would go on under another.
Busy ==
    \/ tab # "closed" \/ calls # {} \/ restores # {} \/ Reading
    \/ timer /\ (copy.dirty \/ copy.conflict)

\* setSession, then both effects: configureWorkspace and restoreWorkspace.
SetSession(k) ==
    /\ workspace' = k
    /\ Len(queue) < MaxQueue
    /\ queue' = Append([i \in DOMAIN queue |-> [queue[i] EXCEPT !.disposed = TRUE]],
                       Request("read", NoProject, {}))
    /\ restores' = {[r EXCEPT !.disposed = TRUE] : r \in restores}
    /\ k # workspace /\ Busy => Crosses
    /\ UNCHANGED <<copy, tab, timer, opened, db, owed>>

\* openSession, from the answer on; typing another gateway's address does the same.
OpenProject(k) == SetSession(k) /\ UNCHANGED calls

\* Nothing looks at what the copy is by then; only openTab is left out for a session
\* that was replaced.
ApplyRestore(r) ==
    /\ r \in restores /\ restores' = restores \ {r}
    /\ \E conflict \in BOOLEAN :
        copy' = [of |-> r.of, dirty |-> TRUE, conflict |-> conflict, differs |-> TRUE]
    /\ tab' = IF r.disposed \/ tab # "closed" THEN tab ELSE "ready"
    /\ UNCHANGED <<workspace, timer, opened, queue, db, calls, owed>>

-----------------------------------------------------------------------------
(* The file                                                                *)

Call(kind) ==
    /\ workspace # NoProject /\ Len(queue) < MaxQueue
    /\ [kind |-> kind, project |-> workspace] \notin calls
    /\ Cardinality(calls) < MaxCalls
    /\ calls' = calls \cup {[kind |-> kind, project |-> workspace]}

\* openFile up to its await
Open ==
    /\ tab # "loading" /\ Call("open")
    /\ tab' = "loading"
    /\ \E differs \in BOOLEAN : copy' = [NoCopy EXCEPT !.differs = differs]
    /\ owed' = owed \ {workspace}
    /\ UNCHANGED <<workspace, timer, opened, queue, db, restores>>

\* saveActiveFile, revertActiveFile and reconnect up to theirs
Begin(kind) ==
    /\ kind \in {"save", "revert"} => tab = "ready"
    /\ Call(kind)
    /\ UNCHANGED <<workspace, copy, tab, timer, opened, queue, db, restores, owed>>

Answer(c, kind) == c \in calls /\ c.kind = kind /\ calls' = calls \ {c}

GivenUp(c) == owed' = owed \ {c.project}

\* The chunks with finishLoading, or the file fetched over HTTP, which shows the tab again.
OpenAnswered(c) ==
    /\ Answer(c, "open")
    /\ copy' = Clean(copy.of \cup {c.project})
    /\ tab' \in {"ready", tab} \ {"loading"}
    /\ DeleteBackup /\ GivenUp(c)
    /\ UNCHANGED <<workspace, timer, opened, db, restores>>

\* failLoading; chunks may have come before.
OpenFailed(c) ==
    /\ Answer(c, "open")
    /\ copy' = [copy EXCEPT !.of = @ \cup {c.project}]
    /\ tab' = IF tab = "loading" THEN "failed" ELSE tab
    /\ UNCHANGED <<workspace, timer, opened, queue, db, restores, owed>>

Edit ==
    /\ tab = "ready" /\ workspace # NoProject
    /\ copy' = [copy EXCEPT !.of = @ \cup {workspace}, !.dirty = TRUE, !.differs = TRUE]
    /\ timer' = Scheduled
    /\ UNCHANGED <<workspace, tab, opened, queue, db, calls, restores, owed>>

\* handleSaveComplete, or markSaved after the PUT
Saved(c) ==
    /\ Answer(c, "save")
    /\ copy' = Clean(copy.of)
    /\ DeleteBackup /\ GivenUp(c)
    /\ UNCHANGED <<workspace, tab, timer, opened, db, restores>>

SaveConflicts(c) ==
    /\ Answer(c, "save")
    /\ copy' = [copy EXCEPT !.conflict = TRUE]
    /\ timer' = Scheduled
    /\ UNCHANGED <<workspace, tab, opened, queue, db, restores, owed>>

Reverted(c) ==
    /\ Answer(c, "revert")
    /\ copy' = Clean({c.project})
    /\ DeleteBackup /\ GivenUp(c)
    /\ UNCHANGED <<workspace, tab, timer, opened, db, restores>>

Reconnected(c) == Answer(c, "reconnect") /\ SetSession(c.project)

\* A save, a revert or a reconnect that fails
Failed(c) ==
    /\ c.kind # "open" /\ Answer(c, c.kind)
    /\ UNCHANGED <<workspace, copy, tab, timer, opened, queue, db, restores, owed>>

\* closeWorkingCopyTab; an editor that is open puts the discarded text back into the copy.
Close ==
    /\ tab # "closed" /\ tab' = "closed"
    /\ IF copy.dirty \/ copy.conflict \/ copy.differs
       THEN /\ \E differs \in {FALSE, copy.differs} :
                   copy' = [Clean(copy.of) EXCEPT !.differs = differs]
            /\ DeleteBackup /\ owed' = owed \ {workspace}
       ELSE UNCHANGED <<copy, queue, owed>>
    /\ UNCHANGED <<workspace, timer, opened, db, calls, restores>>

Writes(i, k) == queue[i].op # "read" /\ queue[i].key = k

\* The last of the first n requests that writes the record of k, or 0.
LastWrite(k, n, last) ==
    /\ last # 0 => Writes(last, k)
    /\ \A i \in last+1..n : ~Writes(i, k)

\* The page is loaded again, after any number of the requests the database had begun.
ReloadPage ==
    /\ \E n \in 0..(IF opened THEN Len(queue) ELSE 0) : \E last \in [ProjectKeys -> 0..n] :
        /\ \A k \in ProjectKeys : LastWrite(k, n, last[k])
        /\ db' = [k \in ProjectKeys |-> IF last[k] = 0 THEN db[k] ELSE queue[last[k]].of]
    /\ owed' = {k \in ProjectKeys : db'[BackupKey(k)] # {}}
    /\ workspace' = NoProject /\ copy' = NoCopy /\ tab' = "closed" /\ timer' = FALSE
    /\ opened' = FALSE /\ queue' = <<>> /\ calls' = {} /\ restores' = {}

BackupsNext ==
    \/ \E k \in ProjectKeys : OpenProject(k)
    \/ OpenDb \/ CarryOut \/ FireTimer
    \/ \E r \in restores : ApplyRestore(r)
    \/ Open \/ Edit \/ Close
    \/ \E kind \in {"save", "revert", "reconnect"} : Begin(kind)
    \/ \E c \in calls :
        \/ OpenAnswered(c) \/ OpenFailed(c) \/ Saved(c) \/ SaveConflicts(c)
        \/ Reverted(c) \/ Reconnected(c) \/ Failed(c)
    \/ ReloadPage

BackupsSpec == BackupsInit /\ [][BackupsNext]_backupsVars

-----------------------------------------------------------------------------
(* Properties                                                              *)

BackupsTypeOK ==
    /\ workspace \in ProjectKeys \cup {NoProject}
    /\ tab \in {"closed", "loading", "ready", "failed"}
    /\ copy \in [of : SUBSET ProjectKeys,
                 dirty : BOOLEAN, conflict : BOOLEAN, differs : BOOLEAN]
    /\ db \in [ProjectKeys -> SUBSET SUBSET ProjectKeys] /\ owed \subseteq ProjectKeys

(* A user who has closed the tabs of one project and waited for its requests before the
   next is opened finds each project's backups as that project left them, however often
   the page is loaded again in between: the record of a project is of its own text, it
   stays until the project's own file is saved, reverted, closed or opened anew, and an
   open tab shows the text of the project.  [bufferRuntime.js:554-640; the two effects of
   useRemoteWorkspace.js on the session] *)
BackupsApart ==
    /\ \A k \in ProjectKeys : \A of \in db[k] : of \subseteq {k}
    /\ \A k \in owed : db[k] # {}
    /\ tab = "ready" => copy.of \subseteq {workspace}
=============================================================================
