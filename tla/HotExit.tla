------------------------------- MODULE HotExit -------------------------------
(***************************************************************************)
(* Hot exit: the working copy of one file in bufferRuntime.js, its backup  *)
(* record in IndexedDB, and the page around them (EditorPane attaches and  *)
(* detaches the editor's model, useRemoteWorkspace opens, saves, reverts   *)
(* and restores).                                                          *)
(*                                                                         *)
(* JavaScript runs one callback at a time; what interleaves are the        *)
(* database, the backup timer, the network and the user.  Database         *)
(* requests are carried out in the order they are made, and the first ones *)
(* wait until the database is open.  A reload of the page loses the        *)
(* memory and what the database has not begun.                             *)
(*                                                                         *)
(* A content is the sequence of the edits that made it; a version names    *)
(* the content of the file it was taken from.                              *)
(***************************************************************************)
EXTENDS Naturals, Sequences, FiniteSets

CONSTANTS
    MaxEdits,       \* bound: edits typed
    MaxOutside,     \* bound: changes made to the file by others
    MaxOpens,       \* bound: opens and reverts
    MaxSaves,       \* bound: saves
    MaxReloads,     \* bound: reloads of the page
    MaxSessions,    \* bound: sessions opened, reconnects included
    MaxFaults,      \* bound: opens and database requests that fail
    Unshown,        \* a copy no editor shows may be edited, as applyWorkspaceEdit can do;
                    \* only tests call it
    Overlaps,       \* a restore may come in over open files: after a reconnect, or for
                    \* a user who does not wait for it
    SlowDatabase    \* files can be opened and edited before the database is open

ASSUME HotExitAssumption ==
    /\ MaxEdits \in Nat /\ MaxOutside \in Nat /\ MaxOpens \in Nat /\ MaxSaves \in Nat
    /\ MaxReloads \in Nat /\ MaxSessions \in Nat /\ MaxFaults \in Nat
    /\ Unshown \in BOOLEAN /\ Overlaps \in BOOLEAN /\ SlowDatabase \in BOOLEAN

VARIABLES
    copy,       \* the entry of workingCopies
    live,       \* liveModels has the path
    text,       \* the text of the editor's model, while live
    tab,        \* what the page lets the user do with the file
    timer,      \* backupTimers has the path
    enabled,    \* hotExitEnabled
    conn,       \* dbPromise: pending or never made, resolved, rejected
    queue,      \* database requests made and not carried out
    restore,    \* restoreWorkspace under way
    db,         \* the backup record
    session,    \* the page has a session
    job,        \* the save under way
    file,       \* the remote file (external)
    spent,      \* counters of the bounds
    gone,       \* history: edits given up by the user, or lost with the memory
    overtaken   \* history: a restore came in over a copy the page was using

pageVars == <<copy, live, text, tab, timer, enabled, conn, queue, restore, session>>
vars == <<pageVars, db, job, file, spent, gone, overtaken>>

Edits == 1..(MaxEdits + MaxOutside)
Bound == [edits |-> MaxEdits, outside |-> MaxOutside, opens |-> MaxOpens, saves |-> MaxSaves,
          reloads |-> MaxReloads, sessions |-> MaxSessions, faults |-> MaxFaults]
Spend(b) == spent[b] < Bound[b] /\ spent' = [spent EXCEPT ![b] = @ + 1]

Occurs(s) == {s[i] : i \in DOMAIN s}

\* The pending batches as one: edits behind a text, or a whole new text.
NoBatches == [whole |-> FALSE, text |-> <<>>]
Snapshot(content) == [whole |-> TRUE, text |-> content]         \* buildSnapshotBatch
Result(content, batches) ==
    IF batches.whole THEN batches.text ELSE content \o batches.text

UnknownVersion == <<0>>         \* DEFAULT_RESOURCE_VERSION names no content
NoCopy == [base |-> <<>>, ver |-> UnknownVersion, cur |-> <<>>, pend |-> NoBatches,
           dirty |-> FALSE, conflict |-> FALSE]
NoRecord == [none |-> TRUE]
Idle == [pc |-> "idle"]
NoJob == [pc |-> "none"]

Content == IF live THEN text ELSE copy.cur      \* getContent

Init ==
    /\ copy = NoCopy /\ live = FALSE /\ text = <<>> /\ tab = "closed"
    /\ timer = FALSE /\ enabled = TRUE /\ conn = "pending" /\ queue = <<>>
    /\ restore = Idle /\ session = FALSE
    /\ db = NoRecord /\ job = NoJob /\ file = <<>>
    /\ spent = [b \in DOMAIN Bound |-> 0]
    /\ gone = {} /\ overtaken = FALSE

-----------------------------------------------------------------------------
(* Database requests                                                       *)

Put(rec) == [op |-> "put", rec |-> rec, shared |-> conn # "open"]
Delete == [op |-> "delete", rec |-> NoRecord, shared |-> FALSE]
ReadAll == [op |-> "read", rec |-> NoRecord, shared |-> FALSE]

\* The record a backup will store holds the array of pending batches itself until the
\* database is open and takes its copy: a batch pushed meanwhile is in it, an array
\* that was replaced stays as it was.
WithBatch(e) ==
    [i \in DOMAIN queue |->
        IF queue[i].shared THEN [queue[i] EXCEPT !.rec.pend.text = Append(@, e)] ELSE queue[i]]
ArrayReplaced == [i \in DOMAIN queue |-> [queue[i] EXCEPT !.shared = FALSE]]

\* Mutant: an armed timer is cleared and none set
OnlyClears(dirty) == timer' = (~timer /\ enabled /\ dirty)

\* scheduleBackup
ScheduleBackup(dirty) == timer' = (timer \/ (enabled /\ dirty))

\* deleteBackup, at the end of everything that makes the copy clean
DeleteBackup ==
    queue' = IF enabled THEN Append(ArrayReplaced, Delete) ELSE ArrayReplaced

\* Mutant: without the test
NeedsNoReason == TRUE

NeedsBackup == copy.dirty \/ copy.conflict

\* Mutant: the text that was saved last, not the one on the screen
BaseRecord == [base |-> copy.base, ver |-> copy.ver, cur |-> copy.base, pend |-> NoBatches,
               conflict |-> copy.conflict]

BackupRecord == [base |-> copy.base, ver |-> copy.ver, cur |-> Content, pend |-> copy.pend,
                 conflict |-> copy.conflict]

\* The timer's callback, writeBackup
FireTimer ==
    /\ timer /\ timer' = FALSE
    /\ queue' = IF NeedsBackup /\ conn # "broken" THEN Append(queue, Put(BackupRecord)) ELSE queue
    /\ UNCHANGED <<copy, live, text, tab, enabled, conn, restore, session, db, job, file,
                   spent, gone, overtaken>>

OpenDb ==
    /\ conn = "pending" /\ queue # <<>>
    /\ conn' = "open"
    /\ queue' = ArrayReplaced
    /\ UNCHANGED <<copy, live, text, tab, timer, enabled, restore, session, db, job, file,
                   spent, gone, overtaken>>

Carried(record, request) ==
    CASE request.op = "put" -> request.rec
      [] request.op = "delete" -> NoRecord
      [] request.op = "read" -> record

\* readWorkspaceBackups goes on to syncRemoteVersions, if there is a record
CarryOut ==
    /\ conn = "open" /\ queue # <<>>
    /\ db' = Carried(db, Head(queue))
    /\ queue' = Tail(queue)
    /\ restore' = IF Head(queue).op # "read" THEN restore
                  ELSE IF db = NoRecord THEN Idle ELSE [pc |-> "syncing", rec |-> db]
    /\ UNCHANGED <<copy, live, text, tab, timer, enabled, conn, session, job, file,
                   spent, gone, overtaken>>

\* The database does not open, or the next request fails: hot exit is off until the
\* page is loaded again.
DbFails ==
    /\ Spend("faults")
    /\ queue # <<>>
    /\ enabled' = FALSE
    /\ \/ conn = "pending" /\ conn' = "broken" /\ queue' = <<>>
          /\ restore' = IF restore.pc = "reading" THEN Idle ELSE restore
       \/ conn = "open" /\ queue' = Tail(queue) /\ UNCHANGED conn
          /\ restore' = IF Head(queue).op = "read" THEN Idle ELSE restore
    /\ UNCHANGED <<copy, live, text, tab, timer, session, db, job, file, gone, overtaken>>

-----------------------------------------------------------------------------
(* The session and restoring                                               *)

\* setSession, at open and at reconnect; the effect runs restoreWorkspace.  One restore
\* at a time.
NewSession ==
    /\ Spend("sessions")
    /\ restore = Idle
    /\ session => Overlaps
    /\ session' = TRUE
    /\ IF enabled
       THEN restore' = [pc |-> "reading"] /\ queue' = Append(queue, ReadAll)
       ELSE UNCHANGED <<restore, queue>>
    /\ UNCHANGED <<copy, live, text, tab, timer, enabled, conn, db, job, file, gone, overtaken>>

\* Mutant: the batches of the record are left out
RestoredWithout(rec) == NoBatches

RestoredBatches(rec) ==
    IF rec.pend = NoBatches /\ rec.base # rec.cur THEN Snapshot(rec.cur) ELSE rec.pend

\* The rest of restoreWorkspace, when syncRemoteVersions has answered or failed.  It
\* sets the working copy and leaves the editor's model alone.
ApplyRestore(changed) ==
    /\ restore.pc = "syncing"
    /\ changed => file # restore.rec.ver
    /\ restore' = Idle
    /\ copy' = [base |-> restore.rec.base, ver |-> restore.rec.ver,
                cur |-> restore.rec.cur, pend |-> RestoredBatches(restore.rec),
                dirty |-> TRUE, conflict |-> restore.rec.conflict \/ changed]
    /\ queue' = ArrayReplaced
    /\ tab' = IF tab = "closed" THEN "ready" ELSE tab
    /\ overtaken' = (tab # "closed" \/ copy # NoCopy)
    /\ UNCHANGED <<live, text, timer, enabled, conn, session, db, job, file, spent, gone>>

-----------------------------------------------------------------------------
(* The editor                                                              *)

UserReady ==
    /\ conn = "pending" => SlowDatabase
    /\ restore # Idle => Overlaps

\* attachModel, then setContent if the model still has an older text
Attach ==
    /\ tab # "closed" /\ ~live
    /\ live' = TRUE /\ text' = copy.cur
    /\ UNCHANGED <<copy, tab, timer, enabled, conn, queue, restore, session, db, job, file,
                   spent, gone, overtaken>>

\* detachModel: another tab is shown
Detach ==
    /\ live
    /\ live' = FALSE /\ text' = <<>>
    /\ copy' = [copy EXCEPT !.cur = text]
    /\ UNCHANGED <<tab, timer, enabled, conn, queue, restore, session, db, job, file,
                   spent, gone, overtaken>>

\* onModelContentChanged of the editor that shows the file, or applyWorkspaceEdit
Edit ==
    /\ tab = "ready" /\ (live \/ Unshown)
    /\ UserReady
    /\ Spend("edits")
    /\ LET content == Append(Content, spent'.edits)
       IN  /\ text' = IF live THEN content ELSE text
           /\ copy' = [copy EXCEPT !.cur = content, !.dirty = TRUE,
                                   !.pend.text = Append(@, spent'.edits)]
           /\ queue' = WithBatch(spent'.edits)
    /\ ScheduleBackup(TRUE)
    /\ UNCHANGED <<live, tab, enabled, conn, restore, session, db, job, file, gone, overtaken>>

InCopy == Occurs(Content) \cup Occurs(copy.cur) \cup Occurs(copy.pend.text)

\* openFile: startLoading empties the copy before anything is known.  One open of the
\* file at a time, and the tab is not closed meanwhile.
StartOpen ==
    /\ session /\ tab # "loading"
    /\ UserReady
    /\ Spend("opens")
    /\ tab' = "loading"
    /\ gone' = gone \cup InCopy
    /\ copy' = [copy EXCEPT !.cur = <<>>, !.pend = NoBatches, !.dirty = FALSE, !.conflict = FALSE]
    /\ text' = <<>>
    /\ queue' = ArrayReplaced
    /\ UNCHANGED <<live, timer, enabled, conn, restore, session, db, job, file, overtaken>>

Clean(content, version) ==
    [base |-> content, ver |-> version, cur |-> content, pend |-> NoBatches,
     dirty |-> FALSE, conflict |-> FALSE]

\* appendChunk adds to what the copy holds now, then finishLoading
FinishOpen ==
    /\ tab = "loading"
    /\ tab' = "ready"
    /\ LET content == Content \o file
       IN  /\ copy' = Clean(content, file)
           /\ text' = IF live THEN content ELSE text
    /\ DeleteBackup
    /\ overtaken' = FALSE
    /\ UNCHANGED <<live, timer, enabled, conn, restore, session, db, job, file, spent, gone>>

\* failLoading
FailOpen ==
    /\ Spend("faults")
    /\ tab = "loading" /\ tab' = "failed"
    /\ UNCHANGED <<copy, live, text, timer, enabled, conn, queue, restore, session, db, job,
                   file, gone, overtaken>>

\* revertActiveFile, from the answer on: finishLoading, then the rest of revert
Revert ==
    /\ session /\ tab # "closed"
    /\ UserReady
    /\ Spend("opens")
    /\ gone' = gone \cup InCopy
    /\ copy' = Clean(file, file)
    /\ text' = IF live THEN file ELSE text
    /\ DeleteBackup
    /\ overtaken' = FALSE
    /\ UNCHANGED <<live, tab, timer, enabled, conn, restore, session, db, job, file>>

\* closeWorkingCopyTab: a copy with unsaved edits is discarded, the user agreeing; the
\* tab goes and with it the editor, whose detachModel puts its text into the copy.
Close ==
    /\ tab # "closed" /\ tab # "loading"
    /\ tab' = "closed"
    /\ LET unsaved == copy.dirty \/ copy.conflict \/ copy.cur # copy.base
       IN  /\ copy' = [copy EXCEPT !.cur = IF live THEN text ELSE IF unsaved THEN copy.base ELSE @,
                                   !.pend = IF unsaved THEN NoBatches ELSE @,
                                   !.dirty = FALSE, !.conflict = FALSE]
           /\ IF unsaved THEN DeleteBackup ELSE UNCHANGED queue
    /\ gone' = gone \cup InCopy
    /\ live' = FALSE /\ text' = <<>>
    /\ UNCHANGED <<timer, enabled, conn, restore, session, db, job, file, spent, overtaken>>

-----------------------------------------------------------------------------
(* Saving (BufferSave has the details; here one save at a time)            *)

StartSave ==
    /\ session /\ tab = "ready" /\ job = NoJob
    /\ Spend("saves")
    /\ job' = [pc |-> "sent", ver |-> copy.ver, pend |-> copy.pend, full |-> Content,
               awaited |-> TRUE]
    /\ UNCHANGED <<pageVars, db, file, gone, overtaken>>

GatewaySave ==
    /\ job.pc = "sent"
    /\ LET new == Result(file, job.pend)
       IN  \/ /\ file = job.ver /\ Len(new) = Len(job.full)
              /\ file' = new
              /\ job' = [job EXCEPT !.pc = "saved", !.ver = new]
           \/ /\ file = job.ver /\ Len(new) # Len(job.full)
              /\ job' = [job EXCEPT !.pc = "error"]
              /\ UNCHANGED file
           \/ /\ file # job.ver
              /\ job' = [job EXCEPT !.pc = "conflict"]
              /\ UNCHANGED file
    /\ UNCHANGED <<pageVars, db, spent, gone, overtaken>>

\* handleSaveComplete
SaveAnswered ==
    /\ job.pc \in {"saved", "conflict", "error"}
    /\ job' = NoJob
    /\ \/ /\ job.awaited /\ job.pc = "saved"
          /\ copy' = Clean(Content, job.ver)
          /\ DeleteBackup
          /\ UNCHANGED timer
       \/ /\ job.awaited /\ job.pc = "conflict"
          /\ copy' = [copy EXCEPT !.conflict = TRUE]
          /\ ScheduleBackup(copy.dirty \/ copy.cur # copy.base)
          /\ UNCHANGED queue
       \/ /\ ~job.awaited \/ job.pc = "error"
          /\ UNCHANGED <<copy, timer, queue>>
    /\ UNCHANGED <<live, text, tab, enabled, conn, restore, session, db, file, spent, gone,
                   overtaken>>

-----------------------------------------------------------------------------
(* Around the page                                                         *)

ChangeOutside ==
    /\ Spend("outside")
    /\ file' = Append(file, MaxEdits + spent'.outside)
    /\ UNCHANGED <<pageVars, db, job, gone, overtaken>>

InRecord(rec) == IF rec = NoRecord THEN {} ELSE Occurs(rec.cur)
InMemory == InCopy \cup (IF restore.pc = "syncing" THEN InRecord(restore.rec) ELSE {})

\* Timers and requests are through, and there is something to keep.
AtRest == ~timer /\ queue = <<>> /\ restore = Idle /\ enabled
BackedUp == AtRest /\ copy.dirty /\ tab = "ready" /\ ~overtaken

\* The page is loaded again, or crashes and is: the database finishes the requests it
\* has begun, the gateway the save it was sent.
ReloadPage ==
    /\ Spend("reloads")
    /\ \/ UNCHANGED db
       \/ /\ conn = "open"
          /\ \E i \in DOMAIN queue : queue[i].op # "read" /\ db' = Carried(db, queue[i])
    /\ copy' = NoCopy /\ live' = FALSE /\ text' = <<>> /\ tab' = "closed"
    /\ timer' = FALSE /\ enabled' = TRUE /\ conn' = "pending" /\ queue' = <<>>
    /\ restore' = Idle /\ session' = FALSE
    /\ job' = IF job = NoJob THEN NoJob ELSE [job EXCEPT !.awaited = FALSE]
    /\ gone' = IF BackedUp THEN gone ELSE gone \cup (InMemory \ InRecord(db'))
    /\ overtaken' = FALSE
    /\ UNCHANGED file

UserStep ==
    \/ NewSession \/ Attach \/ Detach \/ Edit \/ StartOpen \/ Revert \/ Close \/ StartSave

Next ==
    \/ UserStep
    \/ FireTimer \/ OpenDb \/ CarryOut \/ DbFails
    \/ \E changed \in BOOLEAN : ApplyRestore(changed)
    \/ FinishOpen \/ FailOpen \/ GatewaySave \/ SaveAnswered
    \/ ChangeOutside \/ ReloadPage

Spec == Init /\ [][Next]_vars

\* Timers fire and the database works; the user, the network and failures are not fair.
Fairness == WF_vars(FireTimer) /\ WF_vars(OpenDb) /\ WF_vars(CarryOut)

FairSpec == Spec /\ Fairness

-----------------------------------------------------------------------------
(* Properties                                                              *)

\* Once timers and requests are through, an open file with unsaved edits has a backup
\* from which a restore would make the copy again, and one without has none, after any
\* order of edits, saves, conflicts, reverts, late timers and reloads.  Exempt is a copy
\* that a restore replaced under the user (scheduleBackup, writeBackup, deleteBackup).
BackupExact ==
    (AtRest /\ tab = "ready" /\ ~overtaken) =>
        /\ copy.dirty => /\ db # NoRecord
                         /\ <<db.base, db.ver, db.cur, RestoredBatches(db)>> =
                               <<copy.base, copy.ver, Content, copy.pend>>
        /\ ~copy.dirty /\ ~copy.conflict => db = NoRecord

\* What the user sees is the base with the pending batches applied, also after a reload
\* and a restore: the next save sends what is on the screen (restoreWorkspace).
WorkingCopyExact == (tab = "ready" /\ ~overtaken) => Content = Result(copy.base, copy.pend)

\* An edit does not vanish: it stays in the copy, in a restore under way, in the backup
\* or in the file, unless the user gives it up (close, revert, opening anew) or the page
\* is lost while its backup is still to be made.
Held == InMemory \cup InRecord(db) \cup Occurs(file)
EditsHeld == [][Held \subseteq Held' \cup gone']_vars

\* An unsaved edit gets into the backup, unless it is saved or given up first, hot exit
\* was switched off, or a restore came in over the copy (scheduleBackup).
EditBackedUp ==
    \A e \in 1..MaxEdits :
        (copy.dirty /\ e \in Occurs(Content)) ~>
            (e \in InRecord(db) \/ ~copy.dirty \/ e \notin Occurs(Content) \/ ~enabled
             \/ overtaken)
=============================================================================
