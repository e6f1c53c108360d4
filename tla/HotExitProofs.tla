---------------------------- MODULE HotExitProofs ----------------------------
(***************************************************************************)
(* Proofs about HotExit, for any number of edits, saves, opens, sessions,  *)
(* reloads, outside changes and failures: the backup of an open file is    *)
(* its copy (BackupExact), and, when no restore comes in over open files,  *)
(* what is restored is what was on the screen (WorkingCopyExact) and no    *)
(* edit vanishes (EditsHeld).                                              *)
(***************************************************************************)
EXTENDS HotExit, TLAPS

Texts    == Seq(Nat \ {0})
Batches  == [whole: BOOLEAN, text: Texts]
Copies   == [base: Texts, ver: Texts \cup {UnknownVersion}, cur: Texts, pend: Batches,
             dirty: BOOLEAN, conflict: BOOLEAN]
Records  == [base: Texts, ver: Texts, cur: Texts, pend: Batches, conflict: BOOLEAN]
Requests == [op: {"put"}, rec: Records, shared: BOOLEAN]
            \cup [op: {"delete", "read"}, rec: {NoRecord}, shared: {FALSE}]
Restores == {Idle, [pc |-> "reading"]} \cup [pc: {"syncing"}, rec: Records]
Jobs     == [pc: {"sent", "saved", "conflict", "error"}, ver: Texts, pend: Batches,
             full: Texts, awaited: BOOLEAN]
Awaited  == job.pc # "none" /\ job.awaited

(* The types.  What is backed up or saved has a version: the timer runs and  *)
(* a save is awaited only for a copy that was opened or restored.            *)
TypeOK ==
    /\ copy \in Copies /\ live \in BOOLEAN /\ text \in Texts
    /\ tab \in {"closed", "loading", "ready", "failed"}
    /\ timer \in BOOLEAN /\ enabled \in BOOLEAN /\ conn \in {"pending", "open", "broken"}
    /\ queue \in Seq(Requests)
    /\ restore \in Restores
    /\ session \in BOOLEAN /\ overtaken \in BOOLEAN
    /\ db \in Records \cup {NoRecord}
    /\ job \in {NoJob} \cup Jobs
    /\ file \in Texts
    /\ spent \in [DOMAIN Bound -> Nat]
    /\ timer \/ tab = "ready" \/ Awaited => copy.ver \in Texts
    /\ tab = "closed" => ~live

-----------------------------------------------------------------------------
(* Texts, batches and requests                                             *)

LEMMA TextOps ==
    ASSUME NEW s \in Texts, NEW t \in Texts, NEW e \in Nat \ {0}
    PROVE  s \o t \in Texts /\ Append(s, e) \in Texts /\ <<>> \in Texts
  BY DEF Texts

LEMMA NotUnknown == UnknownVersion \notin Texts
  <1> SUFFICES ASSUME UnknownVersion \in Texts PROVE FALSE
    OBVIOUS
  <1>1. Len(UnknownVersion) = 1 /\ UnknownVersion[1] = 0
    BY DEF UnknownVersion
  <1>2. 1 \in 1..Len(UnknownVersion)
    BY <1>1
  <1>3. UnknownVersion[1] \in Nat \ {0}
    BY <1>2 DEF Texts
  <1> QED BY <1>1, <1>3

LEMMA RecordIsOne == NoRecord \notin Records
  <1> SUFFICES ASSUME NoRecord \in Records PROVE FALSE
    OBVIOUS
  <1>1. DOMAIN NoRecord = {"none"}
    BY DEF NoRecord
  <1>2. "base" \in DOMAIN NoRecord
    BY DEF Records
  <1> QED BY <1>1, <1>2

LEMMA BatchTypes ==
    /\ NoBatches \in Batches
    /\ \A c \in Texts : Snapshot(c) \in Batches
    /\ \A c \in Texts, b \in Batches : Result(c, b) \in Texts
    /\ \A r \in Records : RestoredBatches(r) \in Batches
  <1>0. <<>> \in Texts
    BY DEF Texts
  <1>1. NoBatches \in Batches /\ \A c \in Texts : Snapshot(c) \in Batches
    BY <1>0 DEF NoBatches, Snapshot, Batches
  <1>2. ASSUME NEW c \in Texts, NEW b \in Batches PROVE Result(c, b) \in Texts
    <2>1. b.text \in Texts
      BY DEF Batches
    <2>2. c \o b.text \in Texts
      BY <2>1 DEF Texts
    <2> QED BY <2>1, <2>2 DEF Result
  <1>3. ASSUME NEW r \in Records PROVE RestoredBatches(r) \in Batches
    <2>1. r.pend \in Batches /\ r.cur \in Texts
      BY DEF Records
    <2> QED BY <1>1, <2>1 DEF RestoredBatches
  <1> QED BY <1>1, <1>2, <1>3

LEMMA ContentType == TypeOK => Content \in Texts
  BY DEF TypeOK, Content, Copies

LEMMA CleanType ==
    ASSUME NEW c \in Texts, NEW v \in Texts PROVE Clean(c, v) \in Copies /\ Clean(c, v).ver = v
  BY BatchTypes DEF Clean, Copies

\* A sequence of the same length over another set.
LEMMA SameLength ==
    ASSUME NEW S, NEW T, NEW q \in Seq(S), NEW f,
           f = [i \in DOMAIN q |-> f[i]], \A i \in 1..Len(q) : f[i] \in T
    PROVE  f \in Seq(T) /\ Len(f) = Len(q)
  <1>1. DOMAIN q = 1..Len(q) /\ Len(q) \in Nat
    OBVIOUS
  <1>2. f \in [1..Len(q) -> T]
    BY <1>1
  <1> QED BY <1>1, <1>2

LEMMA RequestParts ==
    ASSUME NEW r \in Requests
    PROVE  /\ r.op \in {"put", "delete", "read"} /\ r.shared \in BOOLEAN
           /\ r.op = "put" => r.rec \in Records
           /\ r.op # "put" => r.rec = NoRecord /\ ~r.shared
  BY DEF Requests

\* ArrayReplaced and WithBatch leave the requests where they are.
LEMMA ReplacedType ==
    ASSUME TypeOK
    PROVE  /\ ArrayReplaced \in Seq(Requests) /\ Len(ArrayReplaced) = Len(queue)
           /\ \A i \in 1..Len(queue) : /\ ArrayReplaced[i].op = queue[i].op
                                       /\ ArrayReplaced[i].rec = queue[i].rec
                                       /\ ~ArrayReplaced[i].shared
  <1> DEFINE f == ArrayReplaced
  <1>1. queue \in Seq(Requests) /\ DOMAIN queue = 1..Len(queue)
    BY DEF TypeOK
  <1>2. ASSUME NEW i \in 1..Len(queue)
        PROVE  f[i] \in Requests /\ f[i].op = queue[i].op /\ f[i].rec = queue[i].rec /\ ~f[i].shared
    <2>1. queue[i] \in Requests
      BY <1>1
    <2>2. f[i] = [queue[i] EXCEPT !.shared = FALSE]
      BY <1>1 DEF ArrayReplaced
    <2> QED BY <2>1, <2>2 DEF Requests
  <1>3. f = [i \in DOMAIN queue |-> f[i]]
    BY DEF ArrayReplaced
  <1> HIDE DEF f
  <1>4. f \in Seq(Requests) /\ Len(f) = Len(queue)
    BY <1>1, <1>2, <1>3, SameLength
  <1> QED BY <1>2, <1>4 DEF f

LEMMA WithBatchType ==
    ASSUME TypeOK, NEW e \in Nat \ {0}
    PROVE  /\ WithBatch(e) \in Seq(Requests) /\ Len(WithBatch(e)) = Len(queue)
           /\ \A i \in 1..Len(queue) : /\ WithBatch(e)[i].op = queue[i].op
                                       /\ WithBatch(e)[i].shared = queue[i].shared
                                       /\ ~queue[i].shared => WithBatch(e)[i].rec = queue[i].rec
  <1> DEFINE f == WithBatch(e)
  <1>1. queue \in Seq(Requests) /\ DOMAIN queue = 1..Len(queue)
    BY DEF TypeOK
  <1>2. ASSUME NEW i \in 1..Len(queue)
        PROVE  /\ f[i] \in Requests /\ f[i].op = queue[i].op /\ f[i].shared = queue[i].shared
               /\ ~queue[i].shared => f[i].rec = queue[i].rec
    <2>1. queue[i] \in Requests
      BY <1>1
    <2>2. CASE ~queue[i].shared
      <3>1. f[i] = queue[i]
        BY <1>1, <2>2 DEF WithBatch
      <3> QED BY <2>1, <2>2, <3>1
    <2>3. CASE queue[i].shared
      <3>1. f[i] = [queue[i] EXCEPT !.rec.pend.text = Append(@, e)]
        BY <1>1, <2>3 DEF WithBatch
      <3>2. queue[i] \in [op: {"put"}, rec: Records, shared: BOOLEAN]
        BY <2>1, <2>3, RequestParts DEF Requests
      <3>3. queue[i].rec \in Records /\ queue[i].rec.pend \in Batches /\ queue[i].rec.pend.text \in Texts
        BY <3>2 DEF Records, Batches
      <3>4. Append(queue[i].rec.pend.text, e) \in Texts
        BY <3>3, TextOps
      <3>5. [queue[i].rec EXCEPT !.pend.text = Append(@, e)] \in Records
        BY <3>3, <3>4 DEF Records, Batches
      <3>6. f[i] = [queue[i] EXCEPT !.rec = [queue[i].rec EXCEPT !.pend.text = Append(@, e)]]
        BY <3>1, <3>2
      <3>7. f[i] \in [op: {"put"}, rec: Records, shared: BOOLEAN]
            /\ f[i].op = queue[i].op /\ f[i].shared = queue[i].shared
        BY <3>2, <3>5, <3>6
      <3> QED BY <2>3, <3>7 DEF Requests
    <2> QED BY <2>2, <2>3
  <1>3. f = [i \in DOMAIN queue |-> f[i]]
    BY DEF WithBatch
  <1> HIDE DEF f
  <1>4. f \in Seq(Requests) /\ Len(f) = Len(queue)
    BY <1>1, <1>2, <1>3, SameLength
  <1> QED BY <1>2, <1>4 DEF f

-----------------------------------------------------------------------------
(* The types, action by action                                             *)

LEMMA SpendType ==
    ASSUME TypeOK, NEW b \in DOMAIN Bound, Spend(b)
    PROVE  spent' \in [DOMAIN Bound -> Nat] /\ spent'[b] \in Nat \ {0}
  BY DEF TypeOK, Spend

LEMMA QueueTypes ==
    ASSUME TypeOK
    PROVE  /\ Append(queue, ReadAll) \in Seq(Requests)
           /\ Append(queue, Delete) \in Seq(Requests)
           /\ Append(ArrayReplaced, Delete) \in Seq(Requests)
           /\ \A r \in Records : Append(queue, Put(r)) \in Seq(Requests)
           /\ DeleteBackup => queue' \in Seq(Requests)
           /\ <<>> \in Seq(Requests)
  <1>1. Delete \in Requests /\ ReadAll \in Requests /\ \A r \in Records : Put(r) \in Requests
    BY DEF Delete, ReadAll, Put, Requests
  <1>2. queue \in Seq(Requests) /\ ArrayReplaced \in Seq(Requests)
    BY ReplacedType DEF TypeOK
  <1>3. Append(ArrayReplaced, Delete) \in Seq(Requests)
    BY <1>1, <1>2
  <1> QED BY <1>1, <1>2, <1>3 DEF DeleteBackup

LEMMA BackupType == TypeOK /\ copy.ver \in Texts => BackupRecord \in Records
  BY ContentType DEF TypeOK, BackupRecord, Copies, Records

LEMMA DatabaseTypes ==
    ASSUME TypeOK, FireTimer \/ OpenDb \/ CarryOut \/ DbFails
    PROVE  TypeOK'
  <1>1. /\ UNCHANGED <<copy, live, text, tab, session, job, file, overtaken>>
        /\ Awaited' = Awaited
    BY DEF FireTimer, OpenDb, CarryOut, DbFails, Awaited
  <1>2. CASE FireTimer
    <2>1. copy.ver \in Texts
      BY <1>2 DEF FireTimer, TypeOK
    <2>2. queue' \in Seq(Requests)
      <3>1. Append(queue, Put(BackupRecord)) \in Seq(Requests)
        BY <2>1, BackupType, QueueTypes
      <3> QED BY <1>2, <3>1 DEF FireTimer, TypeOK
    <2>3. timer' = FALSE /\ UNCHANGED <<enabled, conn, restore, db, spent>>
      BY <1>2 DEF FireTimer
    <2> QED BY <1>1, <2>2, <2>3 DEF TypeOK
  <1>3. CASE OpenDb
    <2>1. queue' \in Seq(Requests) /\ conn' = "open" /\ UNCHANGED <<timer, enabled, restore, db, spent>>
      BY <1>3, ReplacedType DEF OpenDb
    <2> QED BY <1>1, <2>1 DEF TypeOK
  <1>4. CASE CarryOut
    <2>1. /\ queue \in Seq(Requests) /\ queue # <<>> /\ queue' = Tail(queue)
          /\ UNCHANGED <<timer, enabled, conn, spent>>
      BY <1>4 DEF CarryOut, TypeOK
    <2>2. Head(queue) \in Requests /\ queue' \in Seq(Requests)
      BY <2>1
    <2>3. db' \in Records \cup {NoRecord}
      BY <1>4, <2>2, RequestParts DEF CarryOut, Carried, TypeOK
    <2>4. restore' \in Restores
      <3>1. restore \in Restores /\ Idle \in Restores
        BY DEF TypeOK, Restores
      <3>2. db # NoRecord => [pc |-> "syncing", rec |-> db] \in Restores
        BY DEF TypeOK, Restores
      <3> QED BY <1>4, <3>1, <3>2 DEF CarryOut
    <2> QED BY <1>1, <2>1, <2>2, <2>3, <2>4 DEF TypeOK
  <1>5. CASE DbFails
    <2>1. enabled' = FALSE /\ conn' \in {conn, "broken"} /\ UNCHANGED <<timer, db>>
      BY <1>5 DEF DbFails
    <2>2. queue' \in Seq(Requests)
      <3>1. queue \in Seq(Requests) /\ queue # <<>> /\ (queue' = <<>> \/ queue' = Tail(queue))
        BY <1>5 DEF DbFails, TypeOK
      <3>2. Tail(queue) \in Seq(Requests)
        BY <3>1
      <3> QED BY <3>1, <3>2, QueueTypes
    <2>3. restore' \in Restores
      <3>1. restore \in Restores /\ Idle \in Restores
        BY DEF TypeOK, Restores
      <3> QED BY <1>5, <3>1 DEF DbFails
    <2>4. spent' \in [DOMAIN Bound -> Nat]
      BY <1>5, SpendType DEF DbFails, Bound
    <2> QED BY <1>1, <2>1, <2>2, <2>3, <2>4 DEF TypeOK
  <1> QED BY <1>2, <1>3, <1>4, <1>5

LEMMA NewSessionTypes == ASSUME TypeOK, NewSession PROVE TypeOK'
  <1>1. /\ UNCHANGED <<copy, live, text, tab, timer, enabled, conn, db, job, file, overtaken>>
        /\ session' = TRUE /\ Awaited' = Awaited
    BY DEF NewSession, Awaited
  <1>2. queue' \in Seq(Requests)
    BY QueueTypes DEF NewSession, TypeOK
  <1>3. restore' \in Restores
    BY DEF NewSession, Restores, TypeOK
  <1>4. spent' \in [DOMAIN Bound -> Nat]
    BY SpendType DEF NewSession, Bound
  <1> QED BY <1>1, <1>2, <1>3, <1>4 DEF TypeOK

LEMMA ApplyRestoreTypes ==
    ASSUME TypeOK, NEW changed \in BOOLEAN, ApplyRestore(changed)
    PROVE  TypeOK' /\ restore.rec \in Records
  <1>1. restore.rec \in Records
    BY DEF ApplyRestore, TypeOK, Restores, Idle
  <1>2. /\ UNCHANGED <<live, text, timer, enabled, conn, session, db, job, file, spent>>
        /\ tab' = (IF tab = "closed" THEN "ready" ELSE tab) /\ restore' = Idle
        /\ queue' = ArrayReplaced /\ overtaken' = (tab # "closed" \/ copy # NoCopy)
    BY DEF ApplyRestore
  <1>3. copy' \in Copies /\ copy'.ver \in Texts
    <2>1. RestoredBatches(restore.rec) \in Batches
      BY <1>1, BatchTypes
    <2>2. /\ restore.rec.base \in Texts /\ restore.rec.ver \in Texts /\ restore.rec.cur \in Texts
          /\ restore.rec.conflict \in BOOLEAN
      BY <1>1 DEF Records
    <2>3. copy' = [base |-> restore.rec.base, ver |-> restore.rec.ver,
                   cur |-> restore.rec.cur, pend |-> RestoredBatches(restore.rec),
                   dirty |-> TRUE, conflict |-> restore.rec.conflict \/ changed]
      BY DEF ApplyRestore
    <2>4. (restore.rec.conflict \/ changed) \in BOOLEAN
      BY <2>2
    <2> QED BY <2>1, <2>2, <2>3, <2>4 DEF Copies
  <1>4. queue' \in Seq(Requests)
    BY <1>2, ReplacedType
  <1>5. restore' \in Restores /\ overtaken' \in BOOLEAN
    BY <1>2 DEF Restores
  <1>6. tab' \in {"closed", "loading", "ready", "failed"} /\ tab' # "closed"
    BY <1>2 DEF TypeOK
  <1>7. TypeOK'
    BY <1>2, <1>3, <1>4, <1>5, <1>6 DEF TypeOK
  <1> QED BY <1>1, <1>7

\* What the editor and the user change of the copy keeps its base and version.
LEMMA ModelTypes == ASSUME TypeOK, Attach \/ Detach PROVE TypeOK'
  <1>1. /\ UNCHANGED <<tab, timer, enabled, conn, queue, restore, session, db, job, file, spent,
                       overtaken>>
        /\ Awaited' = Awaited
    BY DEF Attach, Detach, Awaited
  <1>2. CASE Attach
    <2>1. live' = TRUE /\ text' = copy.cur /\ UNCHANGED copy /\ tab # "closed"
      BY <1>2 DEF Attach
    <2>2. text' \in Texts
      BY <2>1 DEF TypeOK, Copies
    <2> QED BY <1>1, <2>1, <2>2 DEF TypeOK
  <1>3. CASE Detach
    <2>1. live' = FALSE /\ text' = <<>> /\ copy' = [copy EXCEPT !.cur = text]
      BY <1>3 DEF Detach
    <2>2. copy' \in Copies /\ copy'.ver = copy.ver
      BY <2>1 DEF TypeOK, Copies
    <2>3. text' \in Texts
      BY <2>1 DEF Texts
    <2> QED BY <1>1, <2>1, <2>2, <2>3 DEF TypeOK
  <1> QED BY <1>2, <1>3

\* The content after an edit, and the copy.
LEMMA EditEffect ==
    ASSUME TypeOK, Edit
    PROVE  \E e \in Nat \ {0} :
              /\ text' = IF live THEN Append(Content, e) ELSE text
              /\ copy' = [base |-> copy.base, ver |-> copy.ver, cur |-> Append(Content, e),
                          pend |-> [whole |-> copy.pend.whole, text |-> Append(copy.pend.text, e)],
                          dirty |-> TRUE, conflict |-> copy.conflict]
              /\ queue' = WithBatch(e)
              /\ spent' \in [DOMAIN Bound -> Nat]
  <1> DEFINE e == spent'.edits
  <1>1. e \in Nat \ {0} /\ spent' \in [DOMAIN Bound -> Nat]
    <2>1. "edits" \in DOMAIN Bound
      BY DEF Bound
    <2>2. Spend("edits")
      BY DEF Edit
    <2> QED BY <2>1, <2>2, SpendType
  <1>2. /\ text' = IF live THEN Append(Content, e) ELSE text
        /\ copy' = [copy EXCEPT !.cur = Append(Content, e), !.dirty = TRUE,
                                !.pend.text = Append(@, e)]
        /\ queue' = WithBatch(e)
    BY DEF Edit
  <1> HIDE DEF e
  <1>3. copy \in Copies /\ copy.pend \in Batches
    BY DEF TypeOK, Copies
  <1>4. copy' = [base |-> copy.base, ver |-> copy.ver, cur |-> Append(Content, e),
                 pend |-> [whole |-> copy.pend.whole, text |-> Append(copy.pend.text, e)],
                 dirty |-> TRUE, conflict |-> copy.conflict]
    BY <1>2, <1>3 DEF Copies, Batches
  <1> QED BY <1>1, <1>2, <1>4

LEMMA EditTypes == ASSUME TypeOK, Edit PROVE TypeOK'
  <1>1. PICK e \in Nat \ {0} :
              /\ text' = IF live THEN Append(Content, e) ELSE text
              /\ copy' = [base |-> copy.base, ver |-> copy.ver, cur |-> Append(Content, e),
                          pend |-> [whole |-> copy.pend.whole, text |-> Append(copy.pend.text, e)],
                          dirty |-> TRUE, conflict |-> copy.conflict]
              /\ queue' = WithBatch(e)
              /\ spent' \in [DOMAIN Bound -> Nat]
    BY EditEffect
  <1>2. Content \in Texts /\ copy \in Copies /\ copy.pend \in Batches /\ text \in Texts
    BY ContentType DEF TypeOK, Copies
  <1>3. Append(Content, e) \in Texts /\ Append(copy.pend.text, e) \in Texts
    BY <1>2, TextOps DEF Batches
  <1>4. copy' \in Copies /\ copy'.ver = copy.ver /\ text' \in Texts
    BY <1>1, <1>2, <1>3 DEF Copies, Batches
  <1>5. queue' \in Seq(Requests)
    BY <1>1, WithBatchType
  <1>6. /\ tab = "ready" /\ timer' \in BOOLEAN /\ Awaited' = Awaited
        /\ UNCHANGED <<live, tab, enabled, conn, restore, session, db, job, file, overtaken>>
    BY DEF Edit, ScheduleBackup, TypeOK, Awaited
  <1> QED BY <1>1, <1>4, <1>5, <1>6 DEF TypeOK

LEMMA OpenTypes == ASSUME TypeOK, StartOpen \/ FinishOpen \/ FailOpen PROVE TypeOK'
  <1>1. CASE StartOpen
    <2>1. /\ copy' = [copy EXCEPT !.cur = <<>>, !.pend = NoBatches, !.dirty = FALSE,
                                  !.conflict = FALSE]
          /\ text' = <<>> /\ tab' = "loading" /\ queue' = ArrayReplaced
          /\ UNCHANGED <<live, timer, enabled, conn, restore, session, db, job, file, overtaken>>
      BY <1>1 DEF StartOpen
    <2>2. text' \in Texts
      BY <2>1 DEF Texts
    <2>5. copy' \in Copies /\ copy'.ver = copy.ver
      <3>1. <<>> \in Texts
        BY DEF Texts
      <3> QED BY <2>1, <3>1, BatchTypes DEF TypeOK, Copies
    <2>3. queue' \in Seq(Requests) /\ Awaited' = Awaited
      BY <2>1, ReplacedType DEF Awaited
    <2>4. spent' \in [DOMAIN Bound -> Nat]
      BY <1>1, SpendType DEF StartOpen, Bound
    <2> QED BY <2>1, <2>2, <2>3, <2>4, <2>5 DEF TypeOK
  <1>2. CASE FinishOpen
    <2> DEFINE c == Content \o file
    <2>1. c \in Texts /\ file \in Texts
      BY ContentType, TextOps DEF TypeOK
    <2>2. /\ copy' = Clean(c, file) /\ text' = (IF live THEN c ELSE text)
          /\ tab = "loading" /\ tab' = "ready" /\ overtaken' = FALSE /\ DeleteBackup
          /\ UNCHANGED <<live, timer, enabled, conn, restore, session, db, job, file, spent>>
      BY <1>2 DEF FinishOpen
    <2> HIDE DEF c
    <2>3. copy' \in Copies /\ copy'.ver \in Texts
      BY <2>1, <2>2, CleanType
    <2>4. queue' \in Seq(Requests) /\ text' \in Texts
      BY <2>1, <2>2, QueueTypes DEF TypeOK
    <2> QED BY <2>2, <2>3, <2>4 DEF TypeOK
  <1>3. CASE FailOpen
    <2>1. /\ UNCHANGED <<copy, live, text, timer, enabled, conn, queue, restore, session, db, job,
                         file, overtaken>>
          /\ tab' = "failed" /\ Awaited' = Awaited
      BY <1>3 DEF FailOpen, Awaited
    <2>2. spent' \in [DOMAIN Bound -> Nat]
      BY <1>3, SpendType DEF FailOpen, Bound
    <2> QED BY <2>1, <2>2 DEF TypeOK
  <1> QED BY <1>1, <1>2, <1>3

LEMMA RevertTypes == ASSUME TypeOK, Revert PROVE TypeOK'
  <1>1. /\ copy' = Clean(file, file) /\ text' = (IF live THEN file ELSE text)
        /\ overtaken' = FALSE /\ DeleteBackup /\ Spend("opens")
        /\ UNCHANGED <<live, tab, timer, enabled, conn, restore, session, db, job, file>>
    BY DEF Revert
  <1>2. copy' \in Copies /\ copy'.ver \in Texts
    BY <1>1, CleanType DEF TypeOK
  <1>3. queue' \in Seq(Requests) /\ text' \in Texts
    BY <1>1, QueueTypes DEF TypeOK
  <1>4. spent' \in [DOMAIN Bound -> Nat]
    BY <1>1, SpendType DEF Bound
  <1> QED BY <1>1, <1>2, <1>3, <1>4 DEF TypeOK

Unsaved == copy.dirty \/ copy.conflict \/ copy.cur # copy.base

LEMMA CloseEffect ==
    ASSUME TypeOK, Close
    PROVE  /\ copy' = [base |-> copy.base, ver |-> copy.ver,
                       cur |-> IF live THEN text ELSE IF Unsaved THEN copy.base ELSE copy.cur,
                       pend |-> IF Unsaved THEN NoBatches ELSE copy.pend,
                       dirty |-> FALSE, conflict |-> FALSE]
           /\ IF Unsaved THEN DeleteBackup ELSE UNCHANGED queue
           /\ tab \in {"ready", "failed"} /\ tab' = "closed" /\ live' = FALSE /\ text' = <<>>
           /\ UNCHANGED <<timer, enabled, conn, restore, session, db, job, file, spent, overtaken>>
  <1>1. copy \in Copies
    BY DEF TypeOK
  <1>2. copy' = [copy EXCEPT !.cur = IF live THEN text ELSE IF Unsaved THEN copy.base ELSE @,
                             !.pend = IF Unsaved THEN NoBatches ELSE @,
                             !.dirty = FALSE, !.conflict = FALSE]
    BY DEF Close, Unsaved
  <1>3. copy' = [base |-> copy.base, ver |-> copy.ver,
                 cur |-> IF live THEN text ELSE IF Unsaved THEN copy.base ELSE copy.cur,
                 pend |-> IF Unsaved THEN NoBatches ELSE copy.pend,
                 dirty |-> FALSE, conflict |-> FALSE]
    BY <1>1, <1>2 DEF Copies
  <1> QED BY <1>3 DEF Close, Unsaved, TypeOK

LEMMA CloseTypes == ASSUME TypeOK, Close PROVE TypeOK'
  <1> DEFINE c == IF live THEN text ELSE IF Unsaved THEN copy.base ELSE copy.cur
             p == IF Unsaved THEN NoBatches ELSE copy.pend
  <1>1. /\ copy \in Copies /\ text \in Texts /\ <<>> \in Texts
        /\ copy.base \in Texts /\ copy.cur \in Texts /\ copy.pend \in Batches
        /\ copy.ver \in Texts \cup {UnknownVersion}
    BY DEF TypeOK, Texts, Copies
  <1>2. c \in Texts /\ p \in Batches
    BY <1>1, BatchTypes
  <1>3. /\ copy' = [base |-> copy.base, ver |-> copy.ver, cur |-> c, pend |-> p,
                    dirty |-> FALSE, conflict |-> FALSE]
        /\ tab' = "closed" /\ live' = FALSE /\ text' = <<>>
        /\ UNCHANGED <<timer, enabled, conn, restore, session, db, job, file, spent, overtaken>>
    BY CloseEffect
  <1> HIDE DEF c, p
  <1>4. copy' \in Copies /\ copy'.ver = copy.ver
    BY <1>1, <1>2, <1>3 DEF Copies
  <1>5. queue' \in Seq(Requests) /\ Awaited' = Awaited
    BY <1>3, CloseEffect, QueueTypes DEF TypeOK, Awaited
  <1> QED BY <1>1, <1>3, <1>4, <1>5 DEF TypeOK

LEMMA SaveTypes == ASSUME TypeOK, StartSave \/ GatewaySave PROVE TypeOK'
  <1>1. /\ UNCHANGED <<copy, live, text, tab, timer, enabled, conn, queue, restore, session, db,
                       overtaken>>
    BY DEF StartSave, GatewaySave, pageVars
  <1>2. copy \in Copies /\ Content \in Texts
    BY ContentType DEF TypeOK
  <1>3. CASE StartSave
    <2>1. tab = "ready" /\ UNCHANGED file /\ copy.ver \in Texts
      BY <1>3 DEF StartSave, TypeOK
    <2>2. job' = [pc |-> "sent", ver |-> copy.ver, pend |-> copy.pend, full |-> Content,
                  awaited |-> TRUE]
      BY <1>3 DEF StartSave
    <2>3. job' \in Jobs
      BY <1>2, <2>1, <2>2 DEF Jobs, Copies
    <2>4. spent' \in [DOMAIN Bound -> Nat]
      BY <1>3, SpendType DEF StartSave, Bound
    <2> QED BY <1>1, <2>1, <2>3, <2>4 DEF TypeOK
  <1>4. CASE GatewaySave
    <2> DEFINE new == Result(file, job.pend)
    <2>1. job \in Jobs /\ job.pc = "sent"
      BY <1>4 DEF GatewaySave, TypeOK, NoJob
    <2>2. new \in Texts
      BY <2>1, BatchTypes DEF TypeOK, Jobs
    <2>3. /\ job' \in {[job EXCEPT !.pc = "saved", !.ver = new], [job EXCEPT !.pc = "error"],
                       [job EXCEPT !.pc = "conflict"]}
          /\ file' \in {new, file} /\ UNCHANGED spent
      BY <1>4 DEF GatewaySave
    <2> HIDE DEF new
    <2>4. job' \in Jobs /\ job'.awaited = job.awaited
      BY <2>1, <2>2, <2>3 DEF Jobs
    <2>5. Awaited' => Awaited
      BY <2>1, <2>4 DEF Awaited
    <2> QED BY <1>1, <2>2, <2>3, <2>4, <2>5 DEF TypeOK
  <1> QED BY <1>3, <1>4

LEMMA SaveAnsweredTypes == ASSUME TypeOK, SaveAnswered PROVE TypeOK'
  <1>1. /\ job' = NoJob
        /\ UNCHANGED <<live, text, tab, enabled, conn, restore, session, db, file, spent, overtaken>>
    BY DEF SaveAnswered
  <1>2. job \in Jobs /\ ~Awaited' /\ Content \in Texts
    BY <1>1, ContentType DEF SaveAnswered, TypeOK, NoJob, Awaited
  <1>3. CASE Awaited /\ job.pc = "saved"
    <2>1. copy' = Clean(Content, job.ver) /\ DeleteBackup /\ UNCHANGED timer
      BY <1>3 DEF SaveAnswered, Awaited
    <2>2. copy' \in Copies /\ copy'.ver \in Texts
      BY <1>2, <2>1, CleanType DEF Jobs
    <2>3. queue' \in Seq(Requests)
      BY <2>1, QueueTypes
    <2> QED BY <1>1, <1>2, <2>1, <2>2, <2>3 DEF TypeOK
  <1>4. CASE Awaited /\ job.pc = "conflict"
    <2>1. /\ copy' = [copy EXCEPT !.conflict = TRUE] /\ UNCHANGED queue
          /\ ScheduleBackup(copy.dirty \/ copy.cur # copy.base) /\ copy.ver \in Texts
      BY <1>4 DEF SaveAnswered, Awaited, TypeOK
    <2>2. copy' \in Copies /\ copy'.ver = copy.ver
      BY <2>1 DEF TypeOK, Copies
    <2>3. timer' \in BOOLEAN
      BY <2>1 DEF ScheduleBackup, TypeOK
    <2> QED BY <1>1, <1>2, <2>1, <2>2, <2>3 DEF TypeOK
  <1>5. CASE UNCHANGED <<copy, timer, queue>>
    BY <1>1, <1>2, <1>5 DEF TypeOK
  <1> QED BY <1>2, <1>3, <1>4, <1>5 DEF SaveAnswered, Awaited

LEMMA ReloadTypes == ASSUME TypeOK, ReloadPage PROVE TypeOK'
  <1>1. /\ copy' = NoCopy /\ live' = FALSE /\ text' = <<>> /\ tab' = "closed"
        /\ timer' = FALSE /\ enabled' = TRUE /\ conn' = "pending" /\ queue' = <<>>
        /\ restore' = Idle /\ session' = FALSE /\ overtaken' = FALSE /\ UNCHANGED file
        /\ job' = IF job = NoJob THEN NoJob ELSE [job EXCEPT !.awaited = FALSE]
    BY DEF ReloadPage
  <1>2. NoCopy \in Copies /\ <<>> \in Texts
    <2>1. <<>> \in Texts
      BY DEF Texts
    <2> QED BY <2>1, BatchTypes DEF NoCopy, Copies
  <1>3. job' \in {NoJob} \cup Jobs /\ ~Awaited'
    BY <1>1 DEF TypeOK, Jobs, Awaited, NoJob
  <1>4. db' \in Records \cup {NoRecord}
    <2>1. CASE UNCHANGED db
      BY <2>1 DEF TypeOK
    <2>2. ASSUME NEW i \in DOMAIN queue, db' = Carried(db, queue[i])
          PROVE  db' \in Records \cup {NoRecord}
      <3>1. queue[i] \in Requests
        BY DEF TypeOK
      <3> QED BY <2>2, <3>1, RequestParts DEF Carried, TypeOK
    <2> QED BY <2>1, <2>2 DEF ReloadPage
  <1>5. spent' \in [DOMAIN Bound -> Nat] /\ restore' \in Restores /\ queue' \in Seq(Requests)
    BY <1>1, SpendType, QueueTypes DEF ReloadPage, Bound, Restores
  <1> QED BY <1>1, <1>2, <1>3, <1>4, <1>5 DEF TypeOK

LEMMA OutsideTypes == ASSUME TypeOK, ChangeOutside PROVE TypeOK'
  <1>1. /\ UNCHANGED <<copy, live, text, tab, timer, enabled, conn, queue, restore, session, db,
                       job, overtaken>>
        /\ file' = Append(file, MaxEdits + spent'.outside) /\ Awaited' = Awaited
    BY DEF ChangeOutside, pageVars, Awaited
  <1>2. spent' \in [DOMAIN Bound -> Nat] /\ spent'.outside \in Nat \ {0}
    <2>1. "outside" \in DOMAIN Bound /\ Spend("outside")
      BY DEF Bound, ChangeOutside
    <2> QED BY <2>1, SpendType
  <1>3. MaxEdits + spent'.outside \in Nat \ {0}
    BY <1>2, HotExitAssumption
  <1>4. file' \in Texts
    BY <1>1, <1>3, TextOps DEF TypeOK
  <1> QED BY <1>1, <1>2, <1>4 DEF TypeOK

LEMMA TypeNext == TypeOK /\ [Next]_vars => TypeOK'
  <1> SUFFICES ASSUME TypeOK, [Next]_vars PROVE TypeOK'
    OBVIOUS
  <1>1. CASE UNCHANGED vars
    BY <1>1 DEF TypeOK, vars, pageVars, Awaited
  <1>2. CASE UserStep
    BY <1>2, NewSessionTypes, ModelTypes, EditTypes, OpenTypes, RevertTypes, CloseTypes, SaveTypes
       DEF UserStep
  <1> QED BY <1>1, <1>2, DatabaseTypes, ApplyRestoreTypes, OpenTypes, SaveTypes, SaveAnsweredTypes,
             OutsideTypes, ReloadTypes
          DEF Next

LEMMA TypeInit == Init => TypeOK
  <1> SUFFICES ASSUME Init PROVE TypeOK
    OBVIOUS
  <1>1. <<>> \in Texts /\ queue \in Seq(Requests)
    BY DEF Texts, Init
  <1>2. NoCopy \in Copies
    BY <1>1, BatchTypes DEF NoCopy, Copies
  <1>3. spent \in [DOMAIN Bound -> Nat]
    BY DEF Init
  <1> QED BY <1>1, <1>2, <1>3 DEF Init, TypeOK, Restores, Awaited, NoJob

-----------------------------------------------------------------------------
(* What the database will hold                                             *)

NoWrite(q)     == \A i \in 1..Len(q) : q[i].op = "read"
LastWrite(q, i) == q[i].op # "read" /\ \A j \in 1..Len(q) : j > i => q[j].op = "read"

\* With d in the database and the requests q under way, r is what it will hold.
EndsWith(d, q, r) ==
    \/ NoWrite(q) /\ r = d
    \/ \E i \in 1..Len(q) : LastWrite(q, i) /\ r = Carried(d, q[i])

LEMMA AppendEnds ==
    ASSUME NEW q \in Seq(Requests), NEW x \in Requests, NEW d, NEW r
    PROVE  /\ x.op # "read" => EndsWith(d, Append(q, x), Carried(d, x))
           /\ x.op = "read" /\ EndsWith(d, q, r) => EndsWith(d, Append(q, x), r)
           /\ x.op = "read" /\ NoWrite(q) => NoWrite(Append(q, x))
  <1> DEFINE z == Append(q, x)
  <1>1. /\ Len(z) = Len(q) + 1 /\ Len(q) \in Nat /\ z[Len(q) + 1] = x
        /\ \A i \in 1..Len(q) : z[i] = q[i]
    OBVIOUS
  <1> HIDE DEF z
  <1>2. ASSUME x.op # "read" PROVE EndsWith(d, z, Carried(d, x))
    <2>1. Len(z) \in 1..Len(z) /\ LastWrite(z, Len(z)) /\ z[Len(z)] = x
      BY <1>1, <1>2 DEF LastWrite
    <2> QED BY <2>1 DEF EndsWith
  <1>3. ASSUME x.op = "read", NoWrite(q) PROVE NoWrite(z)
    BY <1>1, <1>3 DEF NoWrite
  <1>4. ASSUME x.op = "read", EndsWith(d, q, r) PROVE EndsWith(d, z, r)
    <2>1. CASE NoWrite(q) /\ r = d
      BY <1>3, <1>4, <2>1 DEF EndsWith
    <2>2. ASSUME NEW i \in 1..Len(q), LastWrite(q, i), r = Carried(d, q[i])
          PROVE  EndsWith(d, z, r)
      <3>1. i \in 1..Len(z) /\ z[i] = q[i] /\ LastWrite(z, i)
        BY <1>1, <1>4, <2>2 DEF LastWrite
      <3> QED BY <2>2, <3>1 DEF EndsWith
    <2> QED BY <1>4, <2>1, <2>2 DEF EndsWith
  <1> QED BY <1>2, <1>3, <1>4 DEF z

LEMMA TailEnds ==
    ASSUME NEW q \in Seq(Requests), q # <<>>, NEW d, NEW r
    PROVE  /\ EndsWith(d, q, r) => EndsWith(Carried(d, Head(q)), Tail(q), r)
           /\ NoWrite(q) => NoWrite(Tail(q)) /\ Head(q).op = "read"
  <1> DEFINE z == Tail(q)
  <1>1. /\ Len(z) = Len(q) - 1 /\ Len(q) \in Nat /\ Len(q) >= 1 /\ Head(q) = q[1]
        /\ \A i \in 1..(Len(q) - 1) : z[i] = q[i + 1]
    OBVIOUS
  <1> HIDE DEF z
  <1>2. ASSUME NoWrite(q) PROVE NoWrite(z) /\ Head(q).op = "read"
    BY <1>1, <1>2 DEF NoWrite
  <1>3. CASE NoWrite(q) /\ r = d
    <2>1. Carried(d, Head(q)) = d
      BY <1>2, <1>3 DEF Carried
    <2> QED BY <1>2, <1>3, <2>1 DEF EndsWith, z
  <1>4. ASSUME NEW i \in 1..Len(q), LastWrite(q, i), r = Carried(d, q[i])
        PROVE  EndsWith(Carried(d, Head(q)), z, r)
    <2>1. CASE i = 1
      <3>1. NoWrite(z)
        BY <1>1, <1>4, <2>1 DEF LastWrite, NoWrite
      <3> QED BY <1>1, <1>4, <2>1, <3>1 DEF EndsWith
    <2>2. CASE i # 1
      <3>1. i - 1 \in 1..Len(z) /\ z[i - 1] = q[i]
        BY <1>1, <2>2
      <3>2. LastWrite(z, i - 1)
        BY <1>1, <1>4, <2>2, <3>1 DEF LastWrite
      <3>3. q[i] \in Requests
        OBVIOUS
      <3>4. Carried(Carried(d, Head(q)), q[i]) = Carried(d, q[i])
        BY <1>4, <3>3, RequestParts DEF Carried, LastWrite
      <3> QED BY <1>4, <3>1, <3>2, <3>4 DEF EndsWith
    <2> QED BY <2>1, <2>2
  <1> QED BY <1>2, <1>3, <1>4 DEF EndsWith, z

LEMMA ReplacedEnds ==
    ASSUME TypeOK
    PROVE  /\ \A d, r : EndsWith(d, queue, r) => EndsWith(d, ArrayReplaced, r)
           /\ NoWrite(queue) => NoWrite(ArrayReplaced)
  <1> DEFINE z == ArrayReplaced
  <1>1. Len(z) = Len(queue) /\ \A i \in 1..Len(queue) : z[i].op = queue[i].op /\ z[i].rec = queue[i].rec
    BY ReplacedType
  <1> HIDE DEF z
  <1>2. NoWrite(queue) => NoWrite(z)
    BY <1>1 DEF NoWrite
  <1>3. ASSUME NEW d, NEW r, EndsWith(d, queue, r) PROVE EndsWith(d, z, r)
    <2>1. CASE NoWrite(queue) /\ r = d
      BY <1>2, <2>1 DEF EndsWith
    <2>2. ASSUME NEW i \in 1..Len(queue), LastWrite(queue, i), r = Carried(d, queue[i])
          PROVE  EndsWith(d, z, r)
      <3>1. LastWrite(z, i)
        BY <1>1, <2>2 DEF LastWrite
      <3>2. Carried(d, z[i]) = Carried(d, queue[i])
        BY <1>1 DEF Carried
      <3> QED BY <1>1, <2>2, <3>1, <3>2 DEF EndsWith
    <2> QED BY <1>3, <2>1, <2>2 DEF EndsWith
  <1> QED BY <1>2, <1>3 DEF z

LEMMA DeleteEnds ==
    ASSUME TypeOK, DeleteBackup, enabled, NEW d
    PROVE  EndsWith(d, queue', NoRecord)
  <1>1. ArrayReplaced \in Seq(Requests) /\ queue' = Append(ArrayReplaced, Delete)
    BY ReplacedType DEF DeleteBackup
  <1>2. Delete \in Requests /\ Delete.op # "read" /\ Carried(d, Delete) = NoRecord
    BY DEF Delete, Requests, Carried
  <1> QED BY <1>1, <1>2, AppendEnds

-----------------------------------------------------------------------------
(* The backup of an open file is its copy                                  *)

CopyOf(r) ==
    <<r.base, r.ver, r.cur, RestoredBatches(r)>> = <<copy.base, copy.ver, Content, copy.pend>>

\* While nothing was opened or restored, no backup can be on its way, and a restore has
\* what the database has.
Untouched ==
    copy.ver = UnknownVersion =>
        /\ copy = NoCopy /\ text = <<>>
        /\ NoWrite(queue)
        /\ restore.pc = "syncing" => restore.rec = db

\* A copy with edits and no batches has the text of its base; the timer or the last
\* write under way takes care of the rest.
Backed ==
    (tab = "ready" /\ ~overtaken) =>
        /\ copy.dirty /\ copy.pend = NoBatches => Content = copy.base
        /\ enabled /\ copy.dirty /\ ~timer =>
              \E r \in Records : EndsWith(db, queue, r) /\ CopyOf(r)
        /\ enabled /\ ~copy.dirty /\ ~copy.conflict => EndsWith(db, queue, NoRecord)

BackupInv == Untouched /\ (conn = "broken" => ~enabled) /\ Backed

\* Where there is a version, Untouched says nothing.
LEMMA TouchedThen == copy.ver \in Texts => Untouched
  BY NotUnknown DEF Untouched

LEMMA SameCopy ==
    ASSUME TypeOK, Backed, UNCHANGED <<db, queue, timer, enabled, overtaken>>,
           copy'.base = copy.base, copy'.ver = copy.ver, copy'.pend = copy.pend,
           copy'.dirty = copy.dirty, copy'.conflict = copy.conflict, Content' = Content,
           tab' = "ready" => tab = "ready"
    PROVE  Backed'
  BY DEF Backed, CopyOf

LEMMA CleanBacked ==
    ASSUME TypeOK, DeleteBackup, UNCHANGED <<db, enabled>>, ~copy'.dirty
    PROVE  Backed'
  <1>1. enabled => EndsWith(db, queue', NoRecord)
    BY DeleteEnds
  <1> QED BY <1>1 DEF Backed

LEMMA BackupFires ==
    ASSUME TypeOK, BackupInv, FireTimer PROVE BackupInv'
  <1>1. /\ timer /\ timer' = FALSE
        /\ queue' = IF NeedsBackup /\ conn # "broken" THEN Append(queue, Put(BackupRecord)) ELSE queue
        /\ UNCHANGED <<copy, live, text, tab, enabled, conn, restore, db, overtaken>>
    BY DEF FireTimer
  <1>2. copy.ver \in Texts /\ BackupRecord \in Records /\ queue \in Seq(Requests)
    BY <1>1, BackupType DEF TypeOK
  <1>3. Untouched'
    BY <1>1, <1>2, NotUnknown DEF Untouched
  <1>4. Content' = Content
    BY <1>1 DEF Content
  <1>5. ASSUME tab = "ready", ~overtaken, enabled, copy.dirty
        PROVE  EndsWith(db, queue', BackupRecord) /\ CopyOf(BackupRecord)
    <2>1. queue' = Append(queue, Put(BackupRecord))
      BY <1>1, <1>5 DEF NeedsBackup, BackupInv
    <2>2. Put(BackupRecord) \in Requests /\ Put(BackupRecord).op # "read"
          /\ Carried(db, Put(BackupRecord)) = BackupRecord
      BY <1>2 DEF Put, Requests, Carried
    <2>3. EndsWith(db, queue', BackupRecord)
      BY <1>2, <2>1, <2>2, AppendEnds
    <2>4. copy.pend = NoBatches => Content = copy.base
      BY <1>5 DEF BackupInv, Backed
    <2>5. RestoredBatches(BackupRecord) = copy.pend
      BY <2>4 DEF RestoredBatches, BackupRecord
    <2> QED BY <2>3, <2>5 DEF CopyOf, BackupRecord
  <1>6. ASSUME ~copy.dirty, ~copy.conflict PROVE queue' = queue
    BY <1>1, <1>6 DEF NeedsBackup
  <1>7. Backed'
    <2> SUFFICES ASSUME tab = "ready", ~overtaken PROVE Backed'
      BY <1>1 DEF Backed
    <2>1. copy.dirty /\ copy.pend = NoBatches => Content = copy.base
      BY DEF BackupInv, Backed
    <2>3. \A r : CopyOf(r)' = CopyOf(r)
      BY <1>1, <1>4 DEF CopyOf
    <2>4. enabled /\ copy.dirty => \E r \in Records : EndsWith(db, queue', r) /\ CopyOf(r)
      BY <1>2, <1>5
    <2>5. enabled /\ ~copy.dirty /\ ~copy.conflict => EndsWith(db, queue', NoRecord)
      BY <1>6 DEF BackupInv, Backed
    <2> QED BY <1>1, <1>4, <2>1, <2>3, <2>4, <2>5 DEF Backed, CopyOf
  <1> QED BY <1>1, <1>3, <1>7 DEF BackupInv

\* Carrying out the first request changes what the database has, not what it will hold.
LEMMA BackupCarried ==
    ASSUME TypeOK, BackupInv, OpenDb \/ CarryOut \/ DbFails \/ NewSession PROVE BackupInv'
  <1>1. UNCHANGED <<copy, live, text, tab, timer, overtaken>> /\ Content' = Content
    BY DEF OpenDb, CarryOut, DbFails, NewSession, Content
  <1>2. \A r : CopyOf(r)' = CopyOf(r)
    BY <1>1 DEF CopyOf
  <1>3. ASSUME enabled' => /\ enabled
                           /\ \A r : EndsWith(db, queue, r) => EndsWith(db', queue', r)
        PROVE  Backed'
    <2>1. /\ tab = "ready" /\ ~overtaken /\ enabled /\ copy.dirty /\ ~timer =>
                  \E r \in Records : EndsWith(db, queue, r) /\ CopyOf(r)
          /\ tab = "ready" /\ ~overtaken /\ enabled /\ ~copy.dirty /\ ~copy.conflict =>
                  EndsWith(db, queue, NoRecord)
          /\ tab = "ready" /\ ~overtaken /\ copy.dirty /\ copy.pend = NoBatches =>
                  Content = copy.base
      BY DEF BackupInv, Backed
    <2> QED BY <1>1, <1>2, <1>3, <2>1 DEF Backed, CopyOf
  <1>4. queue \in Seq(Requests)
    BY DEF TypeOK
  <1>5. CASE OpenDb
    <2>1. /\ queue' = ArrayReplaced /\ UNCHANGED <<enabled, db, restore>> /\ conn' = "open"
      BY <1>5 DEF OpenDb
    <2>2. \A d, r : EndsWith(d, queue, r) => EndsWith(d, queue', r)
      BY <2>1, ReplacedEnds
    <2>3. Backed'
      BY <1>3, <2>1, <2>2
    <2>4. Untouched'
      BY <1>1, <2>1, ReplacedEnds DEF BackupInv, Untouched
    <2> QED BY <2>1, <2>3, <2>4 DEF BackupInv
  <1>6. CASE CarryOut
    <2>1. /\ queue # <<>> /\ queue' = Tail(queue) /\ db' = Carried(db, Head(queue))
          /\ restore' = IF Head(queue).op # "read" THEN restore
                        ELSE IF db = NoRecord THEN Idle ELSE [pc |-> "syncing", rec |-> db]
          /\ UNCHANGED <<enabled, conn>>
      BY <1>6 DEF CarryOut
    <2>2. Backed'
      BY <1>3, <1>4, <2>1, TailEnds
    <2>3. Untouched'
      <3> SUFFICES ASSUME copy.ver = UnknownVersion PROVE Untouched'
        BY <1>1 DEF Untouched
      <3>1. NoWrite(queue) /\ copy = NoCopy /\ text = <<>>
        BY DEF BackupInv, Untouched
      <3>2. NoWrite(queue') /\ Head(queue).op = "read" /\ db' = db
        BY <1>4, <2>1, <3>1, TailEnds DEF Carried
      <3>3. restore'.pc = "syncing" => restore'.rec = db'
        BY <2>1, <3>2 DEF Idle
      <3> QED BY <1>1, <3>1, <3>2, <3>3 DEF Untouched
    <2> QED BY <2>1, <2>2, <2>3 DEF BackupInv
  <1>7. CASE DbFails
    <2>1. /\ enabled' = FALSE /\ UNCHANGED db /\ queue # <<>>
          /\ queue' = <<>> \/ queue' = Tail(queue)
          /\ restore' = Idle \/ restore' = restore
      BY <1>7 DEF DbFails
    <2>2. NoWrite(<<>>) /\ (NoWrite(queue) => NoWrite(queue'))
      BY <1>4, <2>1, TailEnds DEF NoWrite
    <2>3. Untouched'
      BY <1>1, <2>1, <2>2 DEF BackupInv, Untouched, Idle
    <2> QED BY <1>3, <2>1, <2>3 DEF BackupInv
  <1>8. CASE NewSession
    <2>1. /\ UNCHANGED <<db, enabled, conn>>
          /\ \/ queue' = Append(queue, ReadAll) /\ restore' = [pc |-> "reading"]
             \/ UNCHANGED <<queue, restore>>
      BY <1>8 DEF NewSession
    <2>2. ReadAll \in Requests /\ ReadAll.op = "read"
      BY DEF ReadAll, Requests
    <2>3. /\ NoWrite(queue) => NoWrite(queue')
          /\ \A r : EndsWith(db, queue, r) => EndsWith(db, queue', r)
      BY <1>4, <2>1, <2>2, AppendEnds
    <2>4. Untouched'
      BY <1>1, <2>1, <2>3 DEF BackupInv, Untouched
    <2> QED BY <1>3, <2>1, <2>3, <2>4 DEF BackupInv
  <1> QED BY <1>5, <1>6, <1>7, <1>8

\* A restore that finds the copy untouched makes it from the record the database has,
\* and no write is on its way.
LEMMA BackupRestored ==
    ASSUME TypeOK, BackupInv, NEW changed \in BOOLEAN, ApplyRestore(changed) PROVE BackupInv'
  <1>1. PICK rec \in Records : rec = restore.rec
    BY ApplyRestoreTypes
  <1>2. /\ restore.pc = "syncing" /\ queue' = ArrayReplaced
        /\ copy' = [base |-> rec.base, ver |-> rec.ver, cur |-> rec.cur,
                    pend |-> RestoredBatches(rec), dirty |-> TRUE,
                    conflict |-> rec.conflict \/ changed]
        /\ overtaken' = (tab # "closed" \/ copy # NoCopy)
        /\ UNCHANGED <<live, text, timer, enabled, conn, db>>
    BY <1>1 DEF ApplyRestore
  <1>3. copy'.ver \in Texts
    BY <1>1, <1>2 DEF Records
  <1>4. Untouched'
    BY <1>3, NotUnknown DEF Untouched
  <1>5. ASSUME ~overtaken'
        PROVE  /\ EndsWith(db, queue', rec) /\ CopyOf(rec)'
               /\ copy'.pend = NoBatches => Content' = copy'.base
    <2>1. tab = "closed" /\ copy = NoCopy /\ ~live
      BY <1>2, <1>5 DEF TypeOK
    <2>2. NoWrite(queue) /\ rec = db
      BY <1>1, <1>2, <2>1 DEF BackupInv, Untouched, NoCopy
    <2>3. EndsWith(db, queue', rec)
      BY <1>2, <2>2, ReplacedEnds DEF EndsWith
    <2>4. Content' = rec.cur
      BY <1>2, <2>1 DEF Content
    <2>5. CopyOf(rec)'
      BY <1>2, <2>4 DEF CopyOf
    <2>6. RestoredBatches(rec) = NoBatches => rec.base = rec.cur
      BY DEF RestoredBatches, Snapshot, NoBatches
    <2> QED BY <1>2, <2>3, <2>4, <2>5, <2>6
  <1>6. Backed'
    BY <1>1, <1>2, <1>5 DEF Backed
  <1> QED BY <1>2, <1>4, <1>6 DEF BackupInv

LEMMA BackupModel ==
    ASSUME TypeOK, BackupInv, Attach \/ Detach PROVE BackupInv'
  <1>1. UNCHANGED <<tab, timer, enabled, conn, queue, restore, db, overtaken>> /\ copy \in Copies
    BY DEF Attach, Detach, TypeOK
  <1>2. CASE Attach
    <2>1. ~live /\ live' = TRUE /\ text' = copy.cur /\ UNCHANGED copy
      BY <1>2 DEF Attach
    <2>2. Content' = Content
      BY <2>1 DEF Content
    <2>3. Untouched'
      BY <1>1, <2>1 DEF BackupInv, Untouched, NoCopy
    <2> QED BY <1>1, <2>1, <2>2, <2>3, SameCopy DEF BackupInv
  <1>3. CASE Detach
    <2>1. live /\ live' = FALSE /\ text' = <<>> /\ copy' = [copy EXCEPT !.cur = text]
      BY <1>3 DEF Detach
    <2>2. /\ copy'.base = copy.base /\ copy'.ver = copy.ver /\ copy'.pend = copy.pend
          /\ copy'.dirty = copy.dirty /\ copy'.conflict = copy.conflict /\ copy'.cur = text
      BY <1>1, <2>1 DEF Copies
    <2>3. Content' = Content
      BY <2>1, <2>2 DEF Content
    <2>4. Untouched'
      <3>1. copy' = [base |-> copy.base, ver |-> copy.ver, cur |-> text, pend |-> copy.pend,
                     dirty |-> copy.dirty, conflict |-> copy.conflict]
        BY <1>1, <2>1 DEF Copies
      <3>2. copy = NoCopy /\ text = <<>> => copy' = NoCopy
        BY <3>1 DEF NoCopy
      <3> QED BY <1>1, <2>1, <2>2, <3>2 DEF BackupInv, Untouched
    <2> QED BY <1>1, <2>2, <2>3, <2>4, SameCopy DEF BackupInv
  <1> QED BY <1>2, <1>3

LEMMA BackupEdit == ASSUME TypeOK, BackupInv, Edit PROVE BackupInv'
  <1>1. PICK e \in Nat \ {0} :
              copy' = [base |-> copy.base, ver |-> copy.ver, cur |-> Append(Content, e),
                       pend |-> [whole |-> copy.pend.whole, text |-> Append(copy.pend.text, e)],
                       dirty |-> TRUE, conflict |-> copy.conflict]
    BY EditEffect
  <1>2. tab = "ready" /\ timer' = (timer \/ enabled) /\ UNCHANGED <<enabled, conn>>
    BY DEF Edit, ScheduleBackup
  <1>3. copy.ver \in Texts
    BY <1>2 DEF TypeOK
  <1>4. Untouched'
    BY <1>1, <1>3, NotUnknown DEF Untouched
  <1>5. copy'.pend # NoBatches
    <2>1. copy.pend.text \in Seq(Nat \ {0})
      BY DEF TypeOK, Copies, Batches, Texts
    <2>2. Append(copy.pend.text, e) # <<>>
      BY <2>1
    <2> QED BY <1>1, <2>2 DEF NoBatches
  <1>6. copy'.dirty
    BY <1>1
  <1>7. Backed'
    BY <1>2, <1>5, <1>6 DEF Backed
  <1> QED BY <1>2, <1>4, <1>7 DEF BackupInv

LEMMA BackupOpen ==
    ASSUME TypeOK, BackupInv, StartOpen \/ FinishOpen \/ FailOpen \/ Revert PROVE BackupInv'
  <1>1. UNCHANGED <<conn, enabled, restore, db>>
    BY DEF StartOpen, FinishOpen, FailOpen, Revert
  <1>2. CASE StartOpen
    <2>1. /\ copy' = [copy EXCEPT !.cur = <<>>, !.pend = NoBatches, !.dirty = FALSE,
                                  !.conflict = FALSE]
          /\ text' = <<>> /\ tab' = "loading" /\ queue' = ArrayReplaced
      BY <1>2 DEF StartOpen
    <2>2. copy = NoCopy => copy' = NoCopy
      <3>1. copy' = [base |-> copy.base, ver |-> copy.ver, cur |-> <<>>, pend |-> NoBatches,
                     dirty |-> FALSE, conflict |-> FALSE]
        BY <2>1 DEF TypeOK, Copies
      <3> QED BY <3>1 DEF NoCopy
    <2>3. copy'.ver = copy.ver
      BY <2>1 DEF TypeOK, Copies
    <2>4. Untouched'
      BY <1>1, <2>1, <2>2, <2>3, ReplacedEnds DEF BackupInv, Untouched
    <2>5. Backed'
      BY <2>1 DEF Backed
    <2> QED BY <1>1, <2>4, <2>5 DEF BackupInv
  <1>3. CASE FinishOpen \/ Revert
    <2>1. PICK c : copy' = Clean(c, file) /\ DeleteBackup
      BY <1>3 DEF FinishOpen, Revert
    <2>2. copy'.ver = file /\ ~copy'.dirty /\ file \in Texts
      BY <2>1 DEF Clean, TypeOK
    <2>3. Untouched'
      BY <2>2, NotUnknown DEF Untouched
    <2> QED BY <1>1, <2>1, <2>2, <2>3, CleanBacked DEF BackupInv
  <1>4. CASE FailOpen
    <2>1. tab' = "failed" /\ UNCHANGED <<copy, text, queue>>
      BY <1>4 DEF FailOpen
    <2> QED BY <1>1, <2>1 DEF BackupInv, Untouched, Backed
  <1> QED BY <1>2, <1>3, <1>4

\* A copy that was never opened has nothing to discard.
LEMMA BackupClose == ASSUME TypeOK, BackupInv, Close PROVE BackupInv'
  <1>1. /\ tab' = "closed" /\ text' = <<>> /\ UNCHANGED <<conn, enabled, restore, db>>
        /\ IF Unsaved THEN DeleteBackup ELSE UNCHANGED queue
        /\ copy' = [base |-> copy.base, ver |-> copy.ver,
                    cur |-> IF live THEN text ELSE IF Unsaved THEN copy.base ELSE copy.cur,
                    pend |-> IF Unsaved THEN NoBatches ELSE copy.pend,
                    dirty |-> FALSE, conflict |-> FALSE]
    BY CloseEffect
  <1>2. Untouched'
    <2> SUFFICES ASSUME copy.ver = UnknownVersion PROVE Untouched'
      BY <1>1 DEF Untouched
    <2>1. copy = NoCopy /\ text = <<>> /\ NoWrite(queue)
      BY DEF BackupInv, Untouched
    <2>2. ~Unsaved
      BY <2>1 DEF Unsaved, NoCopy
    <2>3. copy' = NoCopy /\ UNCHANGED queue
      BY <1>1, <2>1, <2>2 DEF NoCopy
    <2> QED BY <1>1, <2>1, <2>3 DEF BackupInv, Untouched
  <1>3. Backed'
    BY <1>1 DEF Backed
  <1> QED BY <1>1, <1>2, <1>3 DEF BackupInv

LEMMA BackupSave ==
    ASSUME TypeOK, BackupInv, StartSave \/ GatewaySave \/ SaveAnswered \/ ChangeOutside
    PROVE  BackupInv'
  <1>1. CASE UNCHANGED <<copy, timer, queue>>
    <2>1. UNCHANGED <<live, text, tab, conn, enabled, restore, db, overtaken>>
      BY DEF StartSave, GatewaySave, SaveAnswered, ChangeOutside, pageVars
    <2>2. Content' = Content
      BY <1>1, <2>1 DEF Content
    <2>3. Backed'
      BY <1>1, <2>1, <2>2, SameCopy DEF BackupInv
    <2> QED BY <1>1, <2>1, <2>3 DEF BackupInv, Untouched
  <1>2. CASE SaveAnswered /\ Awaited
    <2>1. UNCHANGED <<live, text, tab, conn, enabled, restore, db, overtaken>> /\ copy.ver \in Texts
      BY <1>2 DEF SaveAnswered, TypeOK
    <2>2. job \in Jobs
      BY <1>2 DEF SaveAnswered, TypeOK, NoJob
    <2>3. CASE copy' = Clean(Content, job.ver) /\ DeleteBackup
      <3>1. copy'.ver \in Texts /\ ~copy'.dirty
        BY <2>2, <2>3 DEF Clean, Jobs
      <3>2. Untouched'
        BY <3>1, NotUnknown DEF Untouched
      <3> QED BY <2>1, <2>3, <3>1, <3>2, CleanBacked DEF BackupInv
    <2>4. CASE /\ copy' = [copy EXCEPT !.conflict = TRUE] /\ UNCHANGED queue
               /\ ScheduleBackup(copy.dirty \/ copy.cur # copy.base)
      <3>1. /\ copy'.base = copy.base /\ copy'.ver = copy.ver /\ copy'.pend = copy.pend
            /\ copy'.dirty = copy.dirty /\ copy'.conflict /\ copy'.cur = copy.cur
        BY <2>4 DEF TypeOK, Copies
      <3>2. Untouched'
        BY <2>1, <3>1, NotUnknown DEF Untouched
      <3>3. Content' = Content /\ (timer => timer')
        BY <2>1, <2>4, <3>1 DEF Content, ScheduleBackup
      <3>4. \A r : CopyOf(r)' = CopyOf(r)
        BY <3>1, <3>3 DEF CopyOf
      <3>5. Backed'
        <4> SUFFICES ASSUME tab = "ready", ~overtaken PROVE Backed'
          BY <2>1 DEF Backed
        <4>1. /\ copy.dirty /\ copy.pend = NoBatches => Content = copy.base
              /\ enabled /\ copy.dirty /\ ~timer =>
                    \E r \in Records : EndsWith(db, queue, r) /\ CopyOf(r)
          BY DEF BackupInv, Backed
        <4> QED BY <2>1, <2>4, <3>1, <3>3, <3>4, <4>1 DEF Backed
      <3> QED BY <2>1, <3>2, <3>5 DEF BackupInv
    <2> QED BY <1>1, <1>2, <2>3, <2>4 DEF SaveAnswered, Awaited
  <1>3. CASE ~SaveAnswered \/ ~Awaited
    BY <1>1, <1>3 DEF StartSave, GatewaySave, SaveAnswered, ChangeOutside, pageVars, Awaited
  <1> QED BY <1>2, <1>3

LEMMA BackupReload == ASSUME TypeOK, ReloadPage PROVE BackupInv'
  <1>1. /\ copy' = NoCopy /\ text' = <<>> /\ tab' = "closed" /\ conn' = "pending"
        /\ queue' = <<>> /\ restore' = Idle
    BY DEF ReloadPage
  <1>2. NoWrite(<<>>)
    BY DEF NoWrite
  <1> QED BY <1>1, <1>2 DEF BackupInv, Untouched, Backed, Idle

LEMMA BackupNext == TypeOK /\ BackupInv /\ [Next]_vars => BackupInv'
  <1> SUFFICES ASSUME TypeOK, BackupInv, [Next]_vars PROVE BackupInv'
    OBVIOUS
  <1>1. CASE UNCHANGED vars
    <2>1. Content' = Content /\ \A r : CopyOf(r)' = CopyOf(r)
      BY <1>1 DEF vars, pageVars, Content, CopyOf
    <2> QED BY <1>1, <2>1, SameCopy DEF vars, pageVars, BackupInv, Untouched
  <1>2. CASE UserStep
    BY <1>2, BackupCarried, BackupModel, BackupEdit, BackupOpen, BackupClose, BackupSave
       DEF UserStep
  <1> QED BY <1>1, <1>2, BackupFires, BackupCarried, BackupRestored, BackupOpen, BackupSave,
             BackupReload
          DEF Next

\* Once timers and requests are through, an open file with unsaved edits has a backup
\* from which a restore would make the copy again, and one without has none, in every
\* behaviour, with restores over open files and a slow database as well
\* (scheduleBackup, writeBackup, deleteBackup).
THEOREM BackupsExact == Spec => []BackupExact
  <1>1. Init => TypeOK /\ BackupInv
    <2> SUFFICES ASSUME Init PROVE BackupInv
      BY TypeInit
    <2>1. NoWrite(queue)
      BY DEF Init, NoWrite
    <2> QED BY <2>1 DEF Init, BackupInv, Untouched, Backed, Idle
  <1>2. TypeOK /\ BackupInv /\ [Next]_vars => TypeOK' /\ BackupInv'
    BY TypeNext, BackupNext
  <1>3. TypeOK /\ BackupInv => BackupExact
    <2> SUFFICES ASSUME TypeOK, BackupInv, AtRest, tab = "ready", ~overtaken
                 PROVE  /\ copy.dirty => db # NoRecord /\ CopyOf(db)
                        /\ ~copy.dirty /\ ~copy.conflict => db = NoRecord
      BY DEF BackupExact, CopyOf
    <2>1. queue = <<>> /\ ~timer /\ enabled
      BY DEF AtRest
    <2>2. \A r : EndsWith(db, queue, r) => r = db
      BY <2>1 DEF EndsWith
    <2> QED BY <2>1, <2>2, RecordIsOne DEF BackupInv, Backed
  <1> QED BY <1>1, <1>2, <1>3, PTL DEF Spec

-----------------------------------------------------------------------------
(* What is restored is what was on the screen                              *)

RecExact(r) == r # NoRecord => r.cur = Result(r.base, RestoredBatches(r))

\* No record under way can still change, each is exact, and a read is under way only
\* for the restore that waits for it.
QueueSound(q, pc) ==
    \A i \in 1..Len(q) :
        /\ ~q[i].shared /\ RecExact(q[i].rec)
        /\ q[i].op = "read" => pc = "reading" /\ \A j \in 1..Len(q) : q[j].op = "read" => j = i

\* Until the restore is over the file has not been touched.  A backup may be due for a
\* file that is closed or being opened: it then has no batches.
ExactInv ==
    /\ ~overtaken
    /\ QueueSound(queue, restore.pc)
    /\ RecExact(db) /\ (restore.pc = "syncing" => RecExact(restore.rec))
    /\ restore # Idle => session
    /\ ~session \/ restore # Idle => tab = "closed" /\ copy = NoCopy
    /\ conn = "pending" => enabled /\ (session => restore.pc = "reading")
    /\ tab = "ready" => Content = Result(copy.base, copy.pend)
    /\ tab # "ready" \/ ~copy.dirty => copy.pend = NoBatches

LEMMA ResultFacts ==
    /\ \A c \in Texts : Result(c, NoBatches) = c
    /\ \A c, d \in Texts : Result(c, Snapshot(d)) = d
    /\ \A c \in Texts, b \in Batches, e \in Nat \ {0} :
          Result(c, [whole |-> b.whole, text |-> Append(b.text, e)]) = Append(Result(c, b), e)
  <1>1. ASSUME NEW c \in Texts PROVE Result(c, NoBatches) = c
    <2>1. c \o <<>> = c
      BY DEF Texts
    <2> QED BY <2>1 DEF Result, NoBatches
  <1>2. \A c, d \in Texts : Result(c, Snapshot(d)) = d
    BY DEF Result, Snapshot
  <1>3. ASSUME NEW c \in Texts, NEW b \in Batches, NEW e \in Nat \ {0}
        PROVE  Result(c, [whole |-> b.whole, text |-> Append(b.text, e)]) = Append(Result(c, b), e)
    <2>1. b.text \in Seq(Nat \ {0}) /\ c \in Seq(Nat \ {0})
      BY DEF Batches, Texts
    <2>2. c \o Append(b.text, e) = Append(c \o b.text, e)
      BY <2>1
    <2> QED BY <2>2 DEF Result
  <1> QED BY <1>1, <1>2, <1>3

\* A record without batches stands for its whole text.
LEMMA PlainRecord ==
    ASSUME NEW r \in Records, r.pend = NoBatches \/ r.cur = Result(r.base, r.pend)
    PROVE  RecExact(r)
  <1>1. r.base \in Texts /\ r.cur \in Texts
    BY DEF Records
  <1>2. CASE r.pend = NoBatches /\ r.base # r.cur
    BY <1>1, <1>2, ResultFacts DEF RecExact, RestoredBatches
  <1>3. CASE r.pend = NoBatches /\ r.base = r.cur
    BY <1>1, <1>3, ResultFacts DEF RecExact, RestoredBatches
  <1>4. CASE r.pend # NoBatches
    BY <1>4 DEF RecExact, RestoredBatches
  <1> QED BY <1>2, <1>3, <1>4

LEMMA AppendSound ==
    ASSUME NEW q \in Seq(Requests), NEW pc, NEW x \in Requests, ~x.shared, RecExact(x.rec)
    PROVE  /\ x.op # "read" /\ QueueSound(q, pc) => QueueSound(Append(q, x), pc)
           /\ pc # "reading" /\ QueueSound(q, pc) => QueueSound(Append(q, x), "reading")
  <1> DEFINE z == Append(q, x)
  <1>1. /\ Len(z) = Len(q) + 1 /\ Len(q) \in Nat /\ z[Len(q) + 1] = x
        /\ \A i \in 1..Len(q) : z[i] = q[i]
    OBVIOUS
  <1> HIDE DEF z
  <1>2. \A i \in 1..Len(z) : i \in 1..Len(q) \/ i = Len(q) + 1
    BY <1>1
  <1>3. ASSUME x.op # "read", QueueSound(q, pc) PROVE QueueSound(z, pc)
    BY <1>1, <1>2, <1>3 DEF QueueSound
  <1>4. ASSUME pc # "reading", QueueSound(q, pc) PROVE QueueSound(z, "reading")
    <2>1. \A i \in 1..Len(q) : z[i].op # "read" /\ ~z[i].shared /\ RecExact(z[i].rec)
      BY <1>1, <1>4 DEF QueueSound
    <2> QED BY <1>1, <1>2, <2>1 DEF QueueSound
  <1> QED BY <1>3, <1>4 DEF z

LEMMA TailSound ==
    ASSUME NEW q \in Seq(Requests), q # <<>>, NEW pc, QueueSound(q, pc)
    PROVE  /\ RecExact(Head(q).rec)
           /\ Head(q).op # "read" => QueueSound(Tail(q), pc)
           /\ Head(q).op = "read" => pc = "reading" /\ \A p : QueueSound(Tail(q), p)
  <1> DEFINE z == Tail(q)
  <1>1. /\ Len(z) = Len(q) - 1 /\ Len(q) \in Nat /\ Len(q) >= 1 /\ Head(q) = q[1]
        /\ \A i \in 1..(Len(q) - 1) : z[i] = q[i + 1] /\ i + 1 \in 1..Len(q)
    OBVIOUS
  <1> HIDE DEF z
  <1>2. 1 \in 1..Len(q)
    BY <1>1
  <1>3. RecExact(q[1].rec) /\ (q[1].op = "read" => pc = "reading")
    BY <1>2 DEF QueueSound
  <1>4. ASSUME NEW i \in 1..Len(z)
        PROVE  /\ ~z[i].shared /\ RecExact(z[i].rec)
               /\ z[i].op = "read" => pc = "reading" /\ q[1].op # "read"
               /\ z[i].op = "read" => \A j \in 1..Len(z) : z[j].op = "read" => j = i
    <2>1. i + 1 \in 1..Len(q) /\ z[i] = q[i + 1] /\ i + 1 # 1
      BY <1>1
    <2>2. /\ ~z[i].shared /\ RecExact(z[i].rec)
          /\ z[i].op = "read" => pc = "reading" /\ q[1].op # "read"
      BY <1>2, <2>1 DEF QueueSound
    <2>3. ASSUME z[i].op = "read", NEW j \in 1..Len(z), z[j].op = "read" PROVE j = i
      <3>1. j + 1 \in 1..Len(q) /\ q[j + 1].op = "read" /\ q[i + 1].op = "read"
        BY <1>1, <2>1, <2>3
      <3>2. j + 1 = i + 1
        BY <2>1, <3>1 DEF QueueSound
      <3> QED BY <3>2
    <2> QED BY <2>2, <2>3
  <1>5. q[1].op # "read" => QueueSound(z, pc)
    BY <1>4 DEF QueueSound
  <1>6. q[1].op = "read" => \A p : QueueSound(z, p)
    BY <1>4 DEF QueueSound
  <1> QED BY <1>1, <1>3, <1>5, <1>6 DEF z

LEMMA SameSound ==
    ASSUME TypeOK, NEW pc, QueueSound(queue, pc), NEW e \in Nat \ {0}
    PROVE  QueueSound(ArrayReplaced, pc) /\ QueueSound(WithBatch(e), pc)
  <1>1. /\ Len(ArrayReplaced) = Len(queue)
        /\ \A i \in 1..Len(queue) : /\ ArrayReplaced[i].op = queue[i].op
                                    /\ ArrayReplaced[i].rec = queue[i].rec
                                    /\ ~ArrayReplaced[i].shared
    BY ReplacedType
  <1>2. /\ Len(WithBatch(e)) = Len(queue)
        /\ \A i \in 1..Len(queue) : /\ WithBatch(e)[i].op = queue[i].op
                                    /\ WithBatch(e)[i].shared = queue[i].shared
                                    /\ ~queue[i].shared => WithBatch(e)[i].rec = queue[i].rec
    BY WithBatchType
  <1> QED BY <1>1, <1>2 DEF QueueSound

LEMMA DeleteSound ==
    ASSUME TypeOK, NEW pc, QueueSound(queue, pc), DeleteBackup PROVE QueueSound(queue', pc)
  <1>1. QueueSound(ArrayReplaced, pc) /\ ArrayReplaced \in Seq(Requests)
    <2>1. 1 \in Nat \ {0}
      OBVIOUS
    <2> QED BY <2>1, SameSound, ReplacedType
  <1>2. /\ Delete \in Requests /\ ~Delete.shared /\ Delete.op # "read" /\ RecExact(Delete.rec)
    BY DEF Delete, Requests, RecExact
  <1> QED BY <1>1, <1>2, AppendSound DEF DeleteBackup

\* Whoever has a copy is through with the restore.
LEMMA TouchedReady ==
    ASSUME TypeOK, ExactInv, tab # "closed" \/ copy.ver \in Texts
    PROVE  session /\ restore = Idle /\ conn # "pending"
  <1>1. copy.ver \in Texts => copy # NoCopy
    BY NotUnknown DEF NoCopy
  <1> QED BY <1>1 DEF ExactInv, Idle

LEMMA ExactFires ==
    ASSUME TypeOK, ExactInv, FireTimer PROVE ExactInv'
  <1>1. /\ timer
        /\ queue' = IF NeedsBackup /\ conn # "broken" THEN Append(queue, Put(BackupRecord)) ELSE queue
        /\ UNCHANGED <<copy, live, text, tab, enabled, conn, restore, session, db, overtaken>>
    BY DEF FireTimer
  <1>2. copy.ver \in Texts /\ BackupRecord \in Records /\ queue \in Seq(Requests)
    BY <1>1, BackupType DEF TypeOK
  <1>3. RecExact(BackupRecord)
    <2>1. tab = "ready" => Content = Result(copy.base, copy.pend)
      BY DEF ExactInv
    <2>2. tab # "ready" => copy.pend = NoBatches
      BY DEF ExactInv
    <2>3. /\ BackupRecord.pend = copy.pend /\ BackupRecord.cur = Content
          /\ BackupRecord.base = copy.base
      BY DEF BackupRecord
    <2> QED BY <1>2, <2>1, <2>2, <2>3, PlainRecord
  <1>4. QueueSound(queue', restore.pc)
    <2>1. CASE NeedsBackup /\ conn # "broken"
      <3>1. conn = "open"
        BY <1>2, <2>1, TouchedReady DEF TypeOK
      <3>2. /\ Put(BackupRecord) \in Requests /\ ~Put(BackupRecord).shared
            /\ Put(BackupRecord).op # "read" /\ Put(BackupRecord).rec = BackupRecord
        BY <1>2, <3>1 DEF Put, Requests
      <3>3. QueueSound(queue, restore.pc)
        BY DEF ExactInv
      <3> QED BY <1>1, <1>2, <1>3, <2>1, <3>2, <3>3, AppendSound
    <2>2. CASE ~(NeedsBackup /\ conn # "broken")
      BY <1>1, <2>2 DEF ExactInv
    <2> QED BY <2>1, <2>2
  <1>5. Content' = Content
    BY <1>1 DEF Content
  <1> QED BY <1>1, <1>4, <1>5 DEF ExactInv

LEMMA ExactDatabase ==
    ASSUME TypeOK, ExactInv, OpenDb \/ CarryOut \/ DbFails PROVE ExactInv'
  <1>1. UNCHANGED <<copy, live, text, tab, session, overtaken>> /\ Content' = Content
    BY DEF OpenDb, CarryOut, DbFails, Content
  <1>2. queue \in Seq(Requests) /\ QueueSound(queue, restore.pc) /\ restore \in Restores
    BY DEF TypeOK, ExactInv
  <1>3. CASE OpenDb
    <2>1. queue' = ArrayReplaced /\ conn' = "open" /\ UNCHANGED <<enabled, restore, db>>
      BY <1>3 DEF OpenDb
    <2>2. QueueSound(queue', restore.pc)
      <3>1. 1 \in Nat \ {0}
        OBVIOUS
      <3> QED BY <1>2, <2>1, <3>1, SameSound
    <2> QED BY <1>1, <2>1, <2>2 DEF ExactInv
  <1>4. CASE CarryOut
    <2>1. /\ conn = "open" /\ queue # <<>> /\ queue' = Tail(queue) /\ db' = Carried(db, Head(queue))
          /\ restore' = IF Head(queue).op # "read" THEN restore
                        ELSE IF db = NoRecord THEN Idle ELSE [pc |-> "syncing", rec |-> db]
          /\ UNCHANGED <<enabled, conn>>
      BY <1>4 DEF CarryOut
    <2>2. Head(queue) \in Requests
      BY <1>2, <2>1
    <2>3. RecExact(db')
      <3>1. RecExact(db) /\ RecExact(Head(queue).rec) /\ RecExact(NoRecord)
        BY <1>2, <2>1, TailSound DEF ExactInv, RecExact
      <3> QED BY <2>1, <2>2, <3>1, RequestParts DEF Carried
    <2>4. CASE Head(queue).op # "read"
      <3>1. restore' = restore /\ QueueSound(queue', restore.pc)
        BY <1>2, <2>1, <2>4, TailSound
      <3> QED BY <1>1, <2>1, <2>3, <3>1 DEF ExactInv
    <2>5. CASE Head(queue).op = "read"
      <3>1. restore.pc = "reading" /\ QueueSound(queue', restore'.pc)
        BY <1>2, <2>1, <2>5, TailSound
      <3>2. restore # Idle /\ session /\ tab = "closed" /\ copy = NoCopy
        BY <3>1 DEF ExactInv, Idle
      <3>3. restore'.pc = "syncing" => restore'.rec = db /\ RecExact(db)
        BY <2>1, <2>5 DEF ExactInv, Idle
      <3> QED BY <1>1, <2>1, <2>3, <3>1, <3>2, <3>3 DEF ExactInv
    <2> QED BY <2>4, <2>5
  <1>5. CASE DbFails
    <2>1. /\ queue # <<>> /\ enabled' = FALSE /\ UNCHANGED db
          /\ \/ conn' = "broken" /\ queue' = <<>>
                /\ restore' = IF restore.pc = "reading" THEN Idle ELSE restore
             \/ conn = "open" /\ conn' = conn /\ queue' = Tail(queue)
                /\ restore' = IF Head(queue).op = "read" THEN Idle ELSE restore
      BY <1>5 DEF DbFails
    <2>2. conn' # "pending"
      BY <2>1
    <2>3. QueueSound(queue', restore'.pc)
      <3>1. \A p : QueueSound(<<>>, p)
        BY DEF QueueSound
      <3>2. CASE queue' = <<>>
        BY <3>1, <3>2
      <3>3. CASE queue' = Tail(queue) /\ Head(queue).op = "read"
        BY <1>2, <2>1, <3>3, TailSound
      <3>4. CASE queue' = Tail(queue) /\ Head(queue).op # "read" /\ restore' = restore
        BY <1>2, <2>1, <3>4, TailSound
      <3> QED BY <2>1, <3>2, <3>3, <3>4
    <2>4. restore' \in {Idle, restore} /\ (restore'.pc = "syncing" => RecExact(restore'.rec))
      BY <2>1 DEF ExactInv, Idle
    <2> QED BY <1>1, <2>1, <2>2, <2>3, <2>4 DEF ExactInv
  <1> QED BY <1>3, <1>4, <1>5

\* Without overlaps a restore runs once for each load of the page, before a file is open.
LEMMA ExactSession ==
    ASSUME TypeOK, ExactInv, ~Overlaps, NewSession PROVE ExactInv'
  <1>1. /\ UNCHANGED <<copy, live, text, tab, enabled, conn, db, overtaken>> /\ session'
        /\ restore = Idle /\ ~session
    BY DEF NewSession
  <1>2. tab = "closed" /\ copy = NoCopy /\ Content' = Content
    BY <1>1 DEF ExactInv, Content
  <1>3. CASE enabled
    <2>1. restore' = [pc |-> "reading"] /\ queue' = Append(queue, ReadAll)
      BY <1>3 DEF NewSession
    <2>2. QueueSound(queue', "reading")
      <3>1. /\ ReadAll \in Requests /\ ~ReadAll.shared /\ RecExact(ReadAll.rec)
        BY DEF ReadAll, Requests, RecExact
      <3>2. queue \in Seq(Requests) /\ QueueSound(queue, restore.pc) /\ restore.pc # "reading"
        BY <1>1 DEF TypeOK, ExactInv, Idle
      <3> QED BY <2>1, <3>1, <3>2, AppendSound
    <2> QED BY <1>1, <1>2, <1>3, <2>1, <2>2 DEF ExactInv
  <1>4. CASE ~enabled
    <2>1. UNCHANGED <<restore, queue>>
      BY <1>4 DEF NewSession
    <2> QED BY <1>1, <1>2, <1>4, <2>1 DEF ExactInv
  <1> QED BY <1>3, <1>4

LEMMA ExactRestored ==
    ASSUME TypeOK, ExactInv, NEW changed \in BOOLEAN, ApplyRestore(changed) PROVE ExactInv'
  <1>1. PICK rec \in Records : rec = restore.rec
    BY ApplyRestoreTypes
  <1>2. /\ restore.pc = "syncing" /\ restore' = Idle /\ queue' = ArrayReplaced
        /\ copy' = [base |-> rec.base, ver |-> rec.ver, cur |-> rec.cur,
                    pend |-> RestoredBatches(rec), dirty |-> TRUE,
                    conflict |-> rec.conflict \/ changed]
        /\ tab' = (IF tab = "closed" THEN "ready" ELSE tab)
        /\ overtaken' = (tab # "closed" \/ copy # NoCopy)
        /\ UNCHANGED <<live, text, enabled, conn, session, db>>
    BY <1>1 DEF ApplyRestore
  <1>3. tab = "closed" /\ copy = NoCopy /\ session /\ conn # "pending" /\ ~live
    BY <1>2 DEF ExactInv, Idle, TypeOK
  <1>4. Content' = Result(copy'.base, copy'.pend)
    <2>1. Content' = rec.cur
      BY <1>2, <1>3 DEF Content
    <2>2. RecExact(rec)
      BY <1>1, <1>2 DEF ExactInv
    <2>3. rec.cur = Result(rec.base, RestoredBatches(rec))
      BY <2>2, RecordIsOne DEF RecExact
    <2> QED BY <1>2, <2>1, <2>3
  <1>5. QueueSound(queue', restore'.pc)
    <2>1. \A i \in 1..Len(queue) : queue[i].op # "read"
      BY <1>2 DEF ExactInv, QueueSound
    <2>2. QueueSound(queue, "idle")
      BY <2>1 DEF ExactInv, QueueSound
    <2>3. 1 \in Nat \ {0}
      OBVIOUS
    <2> QED BY <1>2, <2>2, <2>3, SameSound DEF Idle
  <1> QED BY <1>2, <1>3, <1>4, <1>5 DEF ExactInv, Idle

LEMMA ExactModel ==
    ASSUME TypeOK, ExactInv, Attach \/ Detach PROVE ExactInv'
  <1>1. /\ UNCHANGED <<tab, enabled, conn, queue, restore, session, db, overtaken>>
        /\ copy \in Copies /\ tab # "closed"
    BY DEF Attach, Detach, TypeOK
  <1>2. session /\ restore = Idle /\ conn # "pending"
    BY <1>1, TouchedReady
  <1>3. /\ copy'.base = copy.base /\ copy'.pend = copy.pend /\ copy'.dirty = copy.dirty
        /\ Content' = Content
    <2>1. CASE Attach
      BY <2>1 DEF Attach, Content
    <2>2. CASE Detach
      <3>1. live /\ ~live' /\ copy' = [copy EXCEPT !.cur = text]
        BY <2>2 DEF Detach
      <3> QED BY <1>1, <3>1 DEF Content, Copies
    <2> QED BY <2>1, <2>2
  <1> QED BY <1>1, <1>2, <1>3 DEF ExactInv

LEMMA ExactEdit ==
    ASSUME TypeOK, ExactInv, Edit PROVE ExactInv'
  <1>1. PICK e \in Nat \ {0} :
              /\ text' = IF live THEN Append(Content, e) ELSE text
              /\ copy' = [base |-> copy.base, ver |-> copy.ver, cur |-> Append(Content, e),
                          pend |-> [whole |-> copy.pend.whole, text |-> Append(copy.pend.text, e)],
                          dirty |-> TRUE, conflict |-> copy.conflict]
              /\ queue' = WithBatch(e)
    BY EditEffect
  <1>2. tab = "ready" /\ UNCHANGED <<live, tab, enabled, conn, restore, session, db, overtaken>>
    BY DEF Edit
  <1>3. session /\ restore = Idle /\ conn # "pending"
    BY <1>2, TouchedReady
  <1>4. Content' = Append(Content, e)
    BY <1>1, <1>2 DEF Content
  <1>5. Content = Result(copy.base, copy.pend)
    BY <1>2 DEF ExactInv
  <1>6. copy.base \in Texts /\ copy.pend \in Batches
    BY DEF TypeOK, Copies
  <1>7. Content' = Result(copy'.base, copy'.pend)
    BY <1>1, <1>4, <1>5, <1>6, ResultFacts
  <1>8. QueueSound(queue', restore.pc)
    BY <1>1, SameSound DEF ExactInv
  <1> QED BY <1>1, <1>2, <1>3, <1>7, <1>8 DEF ExactInv

\* A clean copy: opened, reverted or saved.
LEMMA ExactClean ==
    ASSUME TypeOK, ExactInv, session, restore = Idle, conn # "pending", ~overtaken',
           UNCHANGED <<enabled, conn, restore, session, db>>, DeleteBackup,
           NEW c \in Texts, NEW v \in Texts, copy' = Clean(c, v), Content' = c
    PROVE  ExactInv'
  <1>1. copy'.base = c /\ copy'.pend = NoBatches
    BY DEF Clean
  <1>2. Content' = Result(copy'.base, copy'.pend)
    BY <1>1, ResultFacts
  <1>3. QueueSound(queue', restore.pc)
    BY DeleteSound DEF ExactInv
  <1> QED BY <1>1, <1>2, <1>3 DEF ExactInv

LEMMA ExactOpen ==
    ASSUME TypeOK, ExactInv, ~Overlaps, StartOpen \/ FinishOpen \/ FailOpen \/ Revert
    PROVE  ExactInv'
  <1>1. UNCHANGED <<live, enabled, conn, restore, session, db>> /\ file \in Texts
    BY DEF StartOpen, FinishOpen, FailOpen, Revert, TypeOK
  <1>2. session /\ restore = Idle /\ conn # "pending"
    <2>1. CASE StartOpen \/ Revert
      <3>1. session /\ restore = Idle
        BY <2>1 DEF StartOpen, Revert, UserReady
      <3> QED BY <3>1 DEF ExactInv, Idle
    <2>2. CASE FinishOpen \/ FailOpen
      BY <2>2, TouchedReady DEF FinishOpen, FailOpen
    <2> QED BY <2>1, <2>2
  <1>3. CASE StartOpen
    <2>1. /\ copy' = [copy EXCEPT !.cur = <<>>, !.pend = NoBatches, !.dirty = FALSE,
                                  !.conflict = FALSE]
          /\ tab' = "loading" /\ queue' = ArrayReplaced /\ UNCHANGED overtaken
      BY <1>3 DEF StartOpen
    <2>2. copy'.pend = NoBatches
      BY <2>1 DEF TypeOK, Copies
    <2>3. QueueSound(queue', restore.pc)
      <3>1. 1 \in Nat \ {0}
        OBVIOUS
      <3> QED BY <2>1, <3>1, SameSound DEF ExactInv
    <2> QED BY <1>1, <1>2, <2>1, <2>2, <2>3 DEF ExactInv
  <1>4. CASE FinishOpen
    <2>1. PICK c : c = Content \o file
      OBVIOUS
    <2>2. c \in Texts
      BY <1>1, <2>1, ContentType, TextOps
    <2>3. copy' = Clean(c, file) /\ text' = (IF live THEN c ELSE text) /\ DeleteBackup /\ ~overtaken'
      BY <1>4, <2>1 DEF FinishOpen
    <2>4. Content' = c
      BY <1>1, <2>3 DEF Content, Clean
    <2> QED BY <1>1, <1>2, <2>2, <2>3, <2>4, ExactClean
  <1>5. CASE Revert
    <2>1. copy' = Clean(file, file) /\ text' = (IF live THEN file ELSE text) /\ DeleteBackup
          /\ ~overtaken'
      BY <1>5 DEF Revert
    <2>2. PICK c : c = file
      OBVIOUS
    <2>3. Content' = c
      BY <1>1, <2>1, <2>2 DEF Content, Clean
    <2> QED BY <1>1, <1>2, <2>1, <2>2, <2>3, ExactClean
  <1>6. CASE FailOpen
    <2>1. tab = "loading" /\ tab' = "failed" /\ UNCHANGED <<copy, queue, overtaken>>
      BY <1>6 DEF FailOpen
    <2> QED BY <1>1, <1>2, <2>1 DEF ExactInv
  <1> QED BY <1>3, <1>4, <1>5, <1>6

LEMMA ExactClose == ASSUME TypeOK, ExactInv, Close PROVE ExactInv'
  <1>1. /\ tab # "closed" /\ tab' = "closed"
        /\ UNCHANGED <<conn, enabled, restore, session, db, overtaken>>
        /\ IF Unsaved THEN DeleteBackup ELSE UNCHANGED queue
        /\ copy'.pend = IF Unsaved THEN NoBatches ELSE copy.pend
    BY CloseEffect
  <1>2. session /\ restore = Idle /\ conn # "pending"
    BY <1>1, TouchedReady
  <1>3. copy'.pend = NoBatches
    BY <1>1 DEF ExactInv, Unsaved
  <1>4. QueueSound(queue', restore.pc)
    BY <1>1, DeleteSound DEF ExactInv
  <1> QED BY <1>1, <1>2, <1>3, <1>4 DEF ExactInv

LEMMA ExactSave ==
    ASSUME TypeOK, ExactInv, StartSave \/ GatewaySave \/ SaveAnswered \/ ChangeOutside
    PROVE  ExactInv'
  <1>1. UNCHANGED <<live, text, tab, conn, enabled, restore, session, db, overtaken>>
    BY DEF StartSave, GatewaySave, SaveAnswered, ChangeOutside, pageVars
  <1>2. CASE UNCHANGED <<copy, queue>>
    <2>1. Content' = Content
      BY <1>1, <1>2 DEF Content
    <2> QED BY <1>1, <1>2, <2>1 DEF ExactInv
  <1>3. CASE SaveAnswered /\ Awaited
    <2>1. session /\ restore = Idle /\ conn # "pending"
      BY <1>3, TouchedReady DEF TypeOK
    <2>2. job \in Jobs
      BY <1>3 DEF SaveAnswered, TypeOK, NoJob
    <2>3. CASE copy' = Clean(Content, job.ver) /\ DeleteBackup
      <3>1. PICK c \in Texts : c = Content
        BY ContentType
      <3>2. Content' = c
        BY <1>1, <2>3, <3>1 DEF Content, Clean
      <3>3. PICK v \in Texts : v = job.ver
        BY <2>2 DEF Jobs
      <3>4. ~overtaken'
        BY <1>1 DEF ExactInv
      <3> QED BY <1>1, <2>1, <2>3, <3>1, <3>2, <3>3, <3>4, ExactClean
    <2>4. CASE copy' = [copy EXCEPT !.conflict = TRUE] /\ UNCHANGED queue
      <3>1. /\ copy'.base = copy.base /\ copy'.pend = copy.pend /\ copy'.dirty = copy.dirty
            /\ copy'.cur = copy.cur
        BY <2>4 DEF TypeOK, Copies
      <3>2. Content' = Content
        BY <1>1, <3>1 DEF Content
      <3> QED BY <1>1, <2>1, <2>4, <3>1, <3>2 DEF ExactInv
    <2> QED BY <1>2, <1>3, <2>3, <2>4 DEF SaveAnswered, Awaited
  <1>4. CASE ~SaveAnswered \/ ~Awaited
    BY <1>2, <1>4 DEF StartSave, GatewaySave, SaveAnswered, ChangeOutside, pageVars, Awaited
  <1> QED BY <1>3, <1>4

LEMMA ExactReload == ASSUME TypeOK, ExactInv, ReloadPage PROVE ExactInv'
  <1>1. /\ copy' = NoCopy /\ tab' = "closed" /\ conn' = "pending" /\ enabled' = TRUE
        /\ queue' = <<>> /\ restore' = Idle /\ session' = FALSE /\ overtaken' = FALSE
    BY DEF ReloadPage
  <1>2. QueueSound(<<>>, "idle")
    BY DEF QueueSound
  <1>3. RecExact(db')
    <2>1. CASE UNCHANGED db
      BY <2>1 DEF ExactInv
    <2>2. ASSUME NEW i \in DOMAIN queue, db' = Carried(db, queue[i]) PROVE RecExact(db')
      <3>1. queue[i] \in Requests /\ i \in 1..Len(queue)
        BY DEF TypeOK
      <3>2. RecExact(queue[i].rec) /\ RecExact(db) /\ RecExact(NoRecord)
        BY <3>1 DEF ExactInv, QueueSound, RecExact
      <3> QED BY <2>2, <3>1, <3>2, RequestParts DEF Carried
    <2> QED BY <2>1, <2>2 DEF ReloadPage
  <1> QED BY <1>1, <1>2, <1>3 DEF ExactInv, Idle, NoCopy

LEMMA ExactNext ==
    ASSUME ~Overlaps PROVE TypeOK /\ ExactInv /\ [Next]_vars => ExactInv'
  <1> SUFFICES ASSUME TypeOK, ExactInv, [Next]_vars PROVE ExactInv'
    OBVIOUS
  <1>1. CASE UNCHANGED vars
    <2>1. Content' = Content
      BY <1>1 DEF vars, pageVars, Content
    <2> QED BY <1>1, <2>1 DEF vars, pageVars, ExactInv
  <1>2. CASE UserStep
    BY <1>2, ExactSession, ExactModel, ExactEdit, ExactOpen, ExactClose, ExactSave DEF UserStep
  <1> QED BY <1>1, <1>2, ExactFires, ExactDatabase, ExactRestored, ExactOpen, ExactSave,
             ExactReload
          DEF Next

\* When no restore comes in over open files, what the user sees is the base with the
\* pending batches applied, after any reloads and restores: the next save sends what is
\* on the screen (restoreWorkspace, writeBackup).
THEOREM CopyRestored ==
    ASSUME ~Overlaps PROVE Spec => []WorkingCopyExact
  <1>1. Init => TypeOK /\ ExactInv
    <2> SUFFICES ASSUME Init PROVE ExactInv
      BY TypeInit
    <2>1. QueueSound(<<>>, "idle")
      BY DEF QueueSound
    <2> QED BY <2>1 DEF Init, ExactInv, Idle, NoCopy, RecExact
  <1>2. TypeOK /\ ExactInv /\ [Next]_vars => TypeOK' /\ ExactInv'
    BY TypeNext, ExactNext
  <1>3. ExactInv => WorkingCopyExact
    BY DEF ExactInv, WorkingCopyExact
  <1> QED BY <1>1, <1>2, <1>3, PTL DEF Spec

-----------------------------------------------------------------------------
(* No edit vanishes                                                        *)

\* What is on the screen, or was given up.
Lost == Occurs(Content) \cup gone

\* A record has the edits of the version it is of, but for those given up.
Behind(r, g) == r # NoRecord => Occurs(r.ver) \subseteq Occurs(r.cur) \cup g

\* No edit is in the database only.
Stored ==
    /\ InRecord(db) \subseteq Lost
    /\ \A i \in 1..Len(queue) : InRecord(queue[i].rec) \subseteq Lost

\* Stored holds once the restore is over, or hot exit was off before it could begin and
\* the database stays as it was.  A save replaces the file by a text that has its edits.
HeldInv ==
    /\ live => copy.cur = text
    /\ copy.ver # UnknownVersion => Occurs(copy.ver) \subseteq Lost
    /\ Behind(db, gone) /\ (restore.pc = "syncing" => Behind(restore.rec, gone))
    /\ \A i \in 1..Len(queue) : Behind(queue[i].rec, gone)
    /\ session /\ restore = Idle => Stored \/ (~enabled /\ ~timer /\ NoWrite(queue))
    /\ Awaited => Occurs(job.ver) \cup Occurs(job.pend.text) \subseteq Lost
    /\ job.pc = "sent" /\ job.pend.whole => Occurs(job.ver) \subseteq Occurs(job.pend.text) \cup gone

LEMMA OccursFacts ==
    /\ Occurs(<<>>) = {}
    /\ \A s, t \in Texts : Occurs(s \o t) = Occurs(s) \cup Occurs(t)
    /\ \A s \in Texts, e \in Nat \ {0} : Occurs(Append(s, e)) = Occurs(s) \cup {e}
    /\ \A c \in Texts, b \in Batches :
          /\ Occurs(b.text) \subseteq Occurs(Result(c, b))
          /\ ~b.whole => Occurs(c) \subseteq Occurs(Result(c, b))
          /\ Occurs(Result(c, b)) \subseteq Occurs(c) \cup Occurs(b.text)
          /\ b.whole => Result(c, b) = b.text
  <1>1. Occurs(<<>>) = {}
    BY DEF Occurs
  <1>2. ASSUME NEW s \in Texts, NEW t \in Texts PROVE Occurs(s \o t) = Occurs(s) \cup Occurs(t)
    <2>1. /\ Len(s \o t) = Len(s) + Len(t) /\ Len(s) \in Nat /\ Len(t) \in Nat
          /\ DOMAIN s = 1..Len(s) /\ DOMAIN t = 1..Len(t) /\ DOMAIN (s \o t) = 1..(Len(s) + Len(t))
          /\ \A i \in 1..Len(s) : (s \o t)[i] = s[i]
          /\ \A i \in 1..Len(t) : (s \o t)[Len(s) + i] = t[i]
      BY DEF Texts
    <2>2. ASSUME NEW x \in Occurs(s \o t) PROVE x \in Occurs(s) \cup Occurs(t)
      <3>1. PICK i \in 1..(Len(s) + Len(t)) : x = (s \o t)[i]
        BY <2>1 DEF Occurs
      <3>2. CASE i \in 1..Len(s)
        BY <2>1, <3>1, <3>2 DEF Occurs
      <3>3. CASE i \notin 1..Len(s)
        <4>1. i - Len(s) \in 1..Len(t) /\ i = Len(s) + (i - Len(s))
          BY <2>1, <3>1, <3>3
        <4>2. x = t[i - Len(s)]
          BY <2>1, <3>1, <4>1
        <4> QED BY <2>1, <4>1, <4>2 DEF Occurs
      <3> QED BY <3>2, <3>3
    <2>3. Occurs(s) \subseteq Occurs(s \o t)
      <3>1. \A i \in 1..Len(s) : i \in 1..(Len(s) + Len(t))
        BY <2>1
      <3> QED BY <2>1, <3>1 DEF Occurs
    <2>4. Occurs(t) \subseteq Occurs(s \o t)
      <3>1. \A i \in 1..Len(t) : Len(s) + i \in 1..(Len(s) + Len(t))
        BY <2>1
      <3> QED BY <2>1, <3>1 DEF Occurs
    <2> QED BY <2>2, <2>3, <2>4
  <1>3. ASSUME NEW s \in Texts, NEW e \in Nat \ {0} PROVE Occurs(Append(s, e)) = Occurs(s) \cup {e}
    <2>1. /\ Len(s) \in Nat /\ DOMAIN s = 1..Len(s) /\ DOMAIN Append(s, e) = 1..(Len(s) + 1)
          /\ \A i \in 1..Len(s) : Append(s, e)[i] = s[i]
          /\ Append(s, e)[Len(s) + 1] = e
      BY DEF Texts
    <2>2. \A i \in 1..(Len(s) + 1) : i \in 1..Len(s) \/ i = Len(s) + 1
      BY <2>1
    <2>3. 1..Len(s) \subseteq 1..(Len(s) + 1) /\ Len(s) + 1 \in 1..(Len(s) + 1)
      BY <2>1
    <2> QED BY <2>1, <2>2, <2>3 DEF Occurs
  <1>4. ASSUME NEW c \in Texts, NEW b \in Batches
        PROVE  /\ Occurs(b.text) \subseteq Occurs(Result(c, b))
               /\ ~b.whole => Occurs(c) \subseteq Occurs(Result(c, b))
               /\ Occurs(Result(c, b)) \subseteq Occurs(c) \cup Occurs(b.text)
               /\ b.whole => Result(c, b) = b.text
    <2>1. b.text \in Texts
      BY DEF Batches
    <2> QED BY <1>2, <2>1 DEF Result
  <1> QED BY <1>1, <1>2, <1>3, <1>4

\* The copy has no edit that is not on the screen.
LEMMA InCopyIs ==
    TypeOK /\ ExactInv /\ (live => copy.cur = text) => InCopy = Occurs(Content)
  <1> SUFFICES ASSUME TypeOK, ExactInv, live => copy.cur = text
               PROVE  InCopy = Occurs(Content)
    OBVIOUS
  <1>1. copy.cur = Content
    BY DEF Content
  <1>2. copy.base \in Texts /\ copy.pend \in Batches
    BY DEF TypeOK, Copies
  <1>3. Occurs(copy.pend.text) \subseteq Occurs(Content)
    <2>1. CASE tab = "ready"
      <3>1. Content = Result(copy.base, copy.pend)
        BY <2>1 DEF ExactInv
      <3> QED BY <1>2, <3>1, OccursFacts
    <2>2. CASE tab # "ready"
      <3>1. copy.pend.text = <<>>
        BY <2>2 DEF ExactInv, NoBatches
      <3> QED BY <3>1, OccursFacts
    <2> QED BY <2>1, <2>2
  <1> QED BY <1>1, <1>3 DEF InCopy

\* Each request of q has the record of one under way, or none.
SameRecords(q) ==
    \A i \in 1..Len(q) : \/ q[i].rec = NoRecord
                         \/ \E j \in 1..Len(queue) : q[i].rec = queue[j].rec

LEMMA QueueKept ==
    ASSUME TypeOK, ExactInv, NEW e \in Nat \ {0}
    PROVE  /\ SameRecords(queue) /\ SameRecords(ArrayReplaced) /\ SameRecords(WithBatch(e))
           /\ NoWrite(queue) => NoWrite(ArrayReplaced) /\ NoWrite(WithBatch(e))
           /\ DeleteBackup => SameRecords(queue')
           /\ DeleteBackup /\ ~enabled /\ NoWrite(queue) => NoWrite(queue')
  <1>1. /\ Len(ArrayReplaced) = Len(queue) /\ ArrayReplaced \in Seq(Requests)
        /\ \A i \in 1..Len(queue) : /\ ArrayReplaced[i].op = queue[i].op
                                    /\ ArrayReplaced[i].rec = queue[i].rec
    BY ReplacedType
  <1>2. \A i \in 1..Len(queue) : ~queue[i].shared
    BY DEF ExactInv, QueueSound
  <1>3. /\ Len(WithBatch(e)) = Len(queue)
        /\ \A i \in 1..Len(queue) : /\ WithBatch(e)[i].op = queue[i].op
                                    /\ WithBatch(e)[i].rec = queue[i].rec
    BY <1>2, WithBatchType
  <1>4. SameRecords(queue) /\ SameRecords(ArrayReplaced) /\ SameRecords(WithBatch(e))
    BY <1>1, <1>3 DEF SameRecords
  <1>5. NoWrite(queue) => NoWrite(ArrayReplaced) /\ NoWrite(WithBatch(e))
    BY <1>1, <1>3 DEF NoWrite
  <1>6. ASSUME DeleteBackup PROVE SameRecords(queue')
    <2>1. CASE ~enabled
      BY <1>4, <1>6, <2>1 DEF DeleteBackup
    <2>2. CASE enabled
      <3> DEFINE z == Append(ArrayReplaced, Delete)
      <3>1. /\ Len(z) = Len(queue) + 1 /\ z[Len(queue) + 1] = Delete /\ Len(queue) \in Nat
            /\ \A i \in 1..Len(queue) : z[i] = ArrayReplaced[i]
        BY <1>1
      <3>2. queue' = z /\ Delete.rec = NoRecord
        BY <1>6, <2>2 DEF DeleteBackup, Delete
      <3> HIDE DEF z
      <3>3. \A i \in 1..Len(z) : i \in 1..Len(queue) \/ i = Len(queue) + 1
        BY <3>1
      <3>4. SameRecords(z)
        BY <1>1, <3>1, <3>2, <3>3 DEF SameRecords
      <3> QED BY <3>2, <3>4
    <2> QED BY <2>1, <2>2
  <1>7. DeleteBackup /\ ~enabled /\ NoWrite(queue) => NoWrite(queue')
    BY <1>5 DEF DeleteBackup
  <1> QED BY <1>4, <1>5, <1>6, <1>7

AllInv == TypeOK /\ ExactInv /\ BackupInv /\ HeldInv

\* A step that leaves the database alone and gives up what it takes off the screen.
LEMMA HeldKept ==
    ASSUME AllInv, TypeOK', ExactInv',
           UNCHANGED <<db, restore, session>>, job' \in {job, NoJob},
           Occurs(file) \subseteq Occurs(file)', gone \subseteq gone',
           Occurs(Content) \subseteq Occurs(Content)' \cup gone',
           live' => copy'.cur = text',
           copy'.ver = copy.ver \/ Occurs(copy'.ver) \subseteq Occurs(Content)' \cup gone',
           SameRecords(queue'), enabled' => enabled, timer' => timer \/ enabled,
           ~enabled /\ NoWrite(queue) => NoWrite(queue')
    PROVE  HeldInv' /\ Held \subseteq Held' \cup gone'
  <1>1. TypeOK /\ ExactInv /\ HeldInv
    BY DEF AllInv
  <1>2. Lost \subseteq Lost'
    BY DEF Lost
  <1>3. \A r : Behind(r, gone) => Behind(r, gone')
    BY DEF Behind
  <1>4. Behind(db, gone') /\ (restore.pc = "syncing" => Behind(restore.rec, gone'))
    BY <1>1, <1>3 DEF HeldInv
  <1>5. \A i \in 1..Len(queue') : Behind(queue'[i].rec, gone')
    <2> SUFFICES ASSUME NEW i \in 1..Len(queue') PROVE Behind(queue'[i].rec, gone')
      OBVIOUS
    <2>1. CASE queue'[i].rec = NoRecord
      BY <2>1 DEF Behind
    <2>2. ASSUME NEW j \in 1..Len(queue), queue'[i].rec = queue[j].rec PROVE Behind(queue'[i].rec, gone')
      <3>1. Behind(queue[j].rec, gone)
        BY <1>1 DEF HeldInv
      <3> QED BY <2>2, <3>1 DEF Behind
    <2> QED BY <2>1, <2>2 DEF SameRecords
  <1>6. Stored => Stored'
    <2> SUFFICES ASSUME Stored PROVE Stored'
      OBVIOUS
    <2>1. InRecord(db') \subseteq Lost'
      BY <1>2 DEF Stored
    <2>2. ASSUME NEW i \in 1..Len(queue') PROVE InRecord(queue'[i].rec) \subseteq Lost'
      <3>1. CASE queue'[i].rec = NoRecord
        BY <3>1 DEF InRecord
      <3>2. ASSUME NEW j \in 1..Len(queue), queue'[i].rec = queue[j].rec
            PROVE  InRecord(queue'[i].rec) \subseteq Lost'
        BY <1>2, <3>2 DEF Stored
      <3> QED BY <3>1, <3>2 DEF SameRecords
    <2> QED BY <2>1, <2>2 DEF Stored
  <1>7. session /\ restore = Idle => Stored' \/ (~enabled' /\ ~timer' /\ NoWrite(queue'))
    BY <1>1, <1>6 DEF HeldInv
  <1>8. copy'.ver # UnknownVersion => Occurs(copy'.ver) \subseteq Lost'
    BY <1>1, <1>2 DEF HeldInv, Lost
  <1>9. Awaited' => Occurs(job'.ver) \cup Occurs(job'.pend.text) \subseteq Lost'
    BY <1>1, <1>2 DEF HeldInv, Awaited, NoJob
  <1>10. job'.pc = "sent" /\ job'.pend.whole =>
             Occurs(job'.ver) \subseteq Occurs(job'.pend.text) \cup gone'
    BY <1>1 DEF HeldInv, NoJob
  <1>11. HeldInv'
    BY <1>4, <1>5, <1>7, <1>8, <1>9, <1>10 DEF HeldInv
  <1>12. InCopy = Occurs(Content) /\ InCopy' = Occurs(Content)'
    <2>1. InCopy = Occurs(Content)
      BY <1>1, InCopyIs DEF HeldInv
    <2>2. (TypeOK /\ ExactInv /\ (live => copy.cur = text) => InCopy = Occurs(Content))'
      BY InCopyIs, PTL
    <2> QED BY <2>1, <2>2
  <1>13. Held \subseteq Held' \cup gone'
    BY <1>12 DEF Held, InMemory
  <1> QED BY <1>11, <1>13

LEMMA HeldEditor ==
    ASSUME AllInv, TypeOK', ExactInv', Attach \/ Detach \/ Edit \/ OpenDb
    PROVE  HeldInv' /\ Held \subseteq Held' \cup gone'
  <1>1. TypeOK /\ ExactInv /\ HeldInv /\ 1 \in Nat \ {0} /\ Content \in Texts /\ copy \in Copies
    BY ContentType DEF AllInv, TypeOK
  <1>2. UNCHANGED <<db, restore, session, job, file, gone, enabled>>
    BY DEF Attach, Detach, Edit, OpenDb
  <1>3. CASE Attach \/ OpenDb
    <2>1. /\ UNCHANGED <<copy, timer>> /\ queue' \in {queue, ArrayReplaced}
          /\ live' => text' = copy.cur
          /\ Content' = Content
      BY <1>1, <1>3 DEF Attach, OpenDb, Content, HeldInv
    <2>2. SameRecords(queue') /\ (NoWrite(queue) => NoWrite(queue'))
      BY <1>1, <2>1, QueueKept
    <2> QED BY <1>2, <2>1, <2>2, HeldKept
  <1>4. CASE Detach
    <2>1. live /\ ~live' /\ copy' = [copy EXCEPT !.cur = text] /\ UNCHANGED <<timer, queue>>
      BY <1>4 DEF Detach
    <2>2. copy'.ver = copy.ver /\ Content' = Content
      BY <1>1, <2>1 DEF Content, Copies
    <2>3. SameRecords(queue')
      BY <1>1, <2>1, QueueKept
    <2> QED BY <1>2, <2>1, <2>2, <2>3, HeldKept
  <1>5. CASE Edit
    <2>1. PICK e \in Nat \ {0} :
              /\ text' = IF live THEN Append(Content, e) ELSE text
              /\ copy' = [base |-> copy.base, ver |-> copy.ver, cur |-> Append(Content, e),
                          pend |-> [whole |-> copy.pend.whole, text |-> Append(copy.pend.text, e)],
                          dirty |-> TRUE, conflict |-> copy.conflict]
              /\ queue' = WithBatch(e)
      BY <1>1, <1>5, EditEffect
    <2>2. UNCHANGED live /\ timer' = (timer \/ enabled)
      BY <1>5 DEF Edit, ScheduleBackup
    <2>3. Content' = Append(Content, e) /\ (live' => copy'.cur = text') /\ copy'.ver = copy.ver
      BY <2>1, <2>2 DEF Content
    <2>4. Occurs(Content) \subseteq Occurs(Content)'
      BY <1>1, <2>3, OccursFacts
    <2>5. SameRecords(queue') /\ (NoWrite(queue) => NoWrite(queue'))
      BY <1>1, <2>1, QueueKept
    <2> QED BY <1>2, <2>2, <2>3, <2>4, <2>5, HeldKept
  <1> QED BY <1>3, <1>4, <1>5

\* The user gives up what an open, a revert or a close takes from the screen.
LEMMA HeldOpen ==
    ASSUME AllInv, TypeOK', ExactInv', StartOpen \/ FinishOpen \/ FailOpen \/ Revert \/ Close
    PROVE  HeldInv' /\ Held \subseteq Held' \cup gone'
  <1>1. /\ TypeOK /\ ExactInv /\ HeldInv /\ 1 \in Nat \ {0} /\ Content \in Texts
        /\ copy \in Copies /\ file \in Texts
    BY ContentType DEF AllInv, TypeOK
  <1>2. UNCHANGED <<db, restore, session, job, file, enabled, timer>>
    BY DEF StartOpen, FinishOpen, FailOpen, Revert, Close
  <1>3. Occurs(Content) \subseteq InCopy
    BY DEF InCopy
  <1>4. CASE StartOpen
    <2>1. /\ copy' = [copy EXCEPT !.cur = <<>>, !.pend = NoBatches, !.dirty = FALSE,
                                  !.conflict = FALSE]
          /\ text' = <<>> /\ queue' = ArrayReplaced /\ gone' = gone \cup InCopy
      BY <1>4 DEF StartOpen
    <2>2. copy'.ver = copy.ver /\ copy'.cur = text'
      BY <1>1, <2>1 DEF Copies
    <2>3. SameRecords(queue') /\ (NoWrite(queue) => NoWrite(queue'))
      BY <1>1, <2>1, QueueKept
    <2> QED BY <1>2, <1>3, <2>1, <2>2, <2>3, HeldKept
  <1>5. CASE FinishOpen
    <2>1. PICK c : c = Content \o file
      OBVIOUS
    <2>2. /\ copy' = Clean(c, file) /\ text' = (IF live THEN c ELSE text) /\ DeleteBackup
          /\ UNCHANGED <<live, gone>>
      BY <1>5, <2>1 DEF FinishOpen
    <2>3. Content' = c /\ (live' => copy'.cur = text') /\ copy'.ver = file
      BY <2>2 DEF Content, Clean
    <2>4. Occurs(Content) \subseteq Occurs(Content)' /\ Occurs(copy'.ver) \subseteq Occurs(Content)'
      BY <1>1, <2>1, <2>3, OccursFacts
    <2>5. SameRecords(queue') /\ (~enabled /\ NoWrite(queue) => NoWrite(queue'))
      BY <1>1, <2>2, QueueKept
    <2> QED BY <1>2, <2>2, <2>3, <2>4, <2>5, HeldKept
  <1>6. CASE FailOpen
    <2>1. UNCHANGED <<copy, live, text, queue, gone>>
      BY <1>6 DEF FailOpen
    <2>2. Content' = Content /\ (live' => copy'.cur = text')
      BY <1>1, <2>1 DEF Content, HeldInv
    <2>3. SameRecords(queue')
      BY <1>1, <2>1, QueueKept
    <2> QED BY <1>2, <2>1, <2>2, <2>3, HeldKept
  <1>7. CASE Revert
    <2>1. /\ copy' = Clean(file, file) /\ text' = (IF live THEN file ELSE text) /\ DeleteBackup
          /\ gone' = gone \cup InCopy /\ UNCHANGED live
      BY <1>7 DEF Revert
    <2>2. Content' = file /\ (live' => copy'.cur = text') /\ copy'.ver = file
      BY <2>1 DEF Content, Clean
    <2>3. SameRecords(queue') /\ (~enabled /\ NoWrite(queue) => NoWrite(queue'))
      BY <1>1, <2>1, QueueKept
    <2> QED BY <1>2, <1>3, <2>1, <2>2, <2>3, HeldKept
  <1>8. CASE Close
    <2>1. /\ copy'.ver = copy.ver /\ ~live' /\ (DeleteBackup \/ queue' = queue)
          /\ gone' = gone \cup InCopy
      BY <1>1, <1>8, CloseEffect DEF Close
    <2>2. SameRecords(queue') /\ (~enabled /\ NoWrite(queue) => NoWrite(queue'))
      BY <1>1, <2>1, QueueKept
    <2> QED BY <1>2, <1>3, <2>1, <2>2, HeldKept
  <1> QED BY <1>4, <1>5, <1>6, <1>7, <1>8

LEMMA HeldAnswered ==
    ASSUME AllInv, TypeOK', ExactInv', SaveAnswered \/ ChangeOutside
    PROVE  HeldInv' /\ Held \subseteq Held' \cup gone'
  <1>1. TypeOK /\ ExactInv /\ HeldInv /\ 1 \in Nat \ {0} /\ copy \in Copies /\ file \in Texts
    BY DEF AllInv, TypeOK
  <1>2. UNCHANGED <<live, text, db, restore, session, gone, enabled>> /\ job' \in {job, NoJob}
    BY DEF SaveAnswered, ChangeOutside, pageVars
  <1>3. Occurs(file) \subseteq Occurs(file)'
    <2>1. CASE SaveAnswered
      BY <2>1 DEF SaveAnswered
    <2>2. CASE ChangeOutside
      <3>1. file' = Append(file, MaxEdits + spent'.outside)
        BY <2>2 DEF ChangeOutside
      <3>2. spent'.outside \in Nat \ {0}
        <4>1. "outside" \in DOMAIN Bound /\ Spend("outside")
          BY <2>2 DEF Bound, ChangeOutside
        <4> QED BY <1>1, <4>1, SpendType
      <3>3. MaxEdits + spent'.outside \in Nat \ {0}
        BY <3>2, HotExitAssumption
      <3> QED BY <1>1, <3>1, <3>3, OccursFacts
    <2> QED BY <2>1, <2>2
  <1>4. CASE UNCHANGED <<copy, queue, timer>>
    <2>1. Content' = Content /\ (live' => copy'.cur = text')
      BY <1>1, <1>2, <1>4 DEF Content, HeldInv
    <2>2. SameRecords(queue')
      BY <1>1, <1>4, QueueKept
    <2> QED BY <1>2, <1>3, <1>4, <2>1, <2>2, HeldKept
  <1>5. CASE Awaited /\ copy' = Clean(Content, job.ver) /\ DeleteBackup /\ UNCHANGED timer
    <2>1. Content' = Content /\ (live' => copy'.cur = text') /\ copy'.ver = job.ver
      BY <1>2, <1>5 DEF Content, Clean
    <2>2. Occurs(copy'.ver) \subseteq Occurs(Content)' \cup gone'
      BY <1>1, <1>2, <1>5, <2>1 DEF HeldInv, Lost
    <2>3. SameRecords(queue') /\ (~enabled /\ NoWrite(queue) => NoWrite(queue'))
      BY <1>1, <1>5, QueueKept
    <2> QED BY <1>2, <1>3, <1>5, <2>1, <2>2, <2>3, HeldKept
  <1>6. CASE /\ copy' = [copy EXCEPT !.conflict = TRUE] /\ UNCHANGED queue
             /\ ScheduleBackup(copy.dirty \/ copy.cur # copy.base)
    <2>1. copy'.ver = copy.ver /\ copy'.cur = copy.cur
      BY <1>1, <1>6 DEF Copies
    <2>2. Content' = Content /\ (live' => copy'.cur = text') /\ (timer' => timer \/ enabled)
      BY <1>1, <1>2, <1>6, <2>1 DEF Content, HeldInv, ScheduleBackup
    <2>3. SameRecords(queue')
      BY <1>1, <1>6, QueueKept
    <2> QED BY <1>2, <1>3, <1>6, <2>1, <2>2, <2>3, HeldKept
  <1> QED BY <1>4, <1>5, <1>6 DEF SaveAnswered, ChangeOutside, pageVars, Awaited

LEMMA QueueParts ==
    ASSUME NEW q \in Seq(Requests)
    PROVE  /\ NoWrite(q) => \A i \in 1..Len(q) : q[i].rec = NoRecord
           /\ q # <<>> => /\ 1 \in 1..Len(q) /\ Head(q) = q[1]
                          /\ \A i \in 1..Len(Tail(q)) : \E j \in 1..Len(q) : Tail(q)[i] = q[j]
           /\ \A x : \A i \in 1..Len(Append(q, x)) :
                        Append(q, x)[i] = x \/ \E j \in 1..Len(q) : Append(q, x)[i] = q[j]
  <1>1. NoWrite(q) => \A i \in 1..Len(q) : q[i].rec = NoRecord
    BY RequestParts DEF NoWrite
  <1>2. ASSUME q # <<>>
        PROVE  /\ 1 \in 1..Len(q) /\ Head(q) = q[1]
               /\ \A i \in 1..Len(Tail(q)) : \E j \in 1..Len(q) : Tail(q)[i] = q[j]
    <2>1. /\ Len(q) \in Nat /\ Len(q) >= 1 /\ Len(Tail(q)) = Len(q) - 1
          /\ \A i \in 1..(Len(q) - 1) : Tail(q)[i] = q[i + 1] /\ i + 1 \in 1..Len(q)
      BY <1>2
    <2> QED BY <2>1
  <1>3. ASSUME NEW x, NEW i \in 1..Len(Append(q, x))
        PROVE  Append(q, x)[i] = x \/ \E j \in 1..Len(q) : Append(q, x)[i] = q[j]
    <2>1. /\ Len(q) \in Nat /\ Len(Append(q, x)) = Len(q) + 1
          /\ Append(q, x)[Len(q) + 1] = x /\ \A j \in 1..Len(q) : Append(q, x)[j] = q[j]
      OBVIOUS
    <2>2. i \in 1..Len(q) \/ i = Len(q) + 1
      BY <1>3, <2>1
    <2> QED BY <2>1, <2>2
  <1> QED BY <1>1, <1>2, <1>3

LEMMA HeldFires ==
    ASSUME AllInv, FireTimer
    PROVE  HeldInv' /\ Held \subseteq Held' \cup gone'
  <1>1. TypeOK /\ ExactInv /\ HeldInv /\ queue \in Seq(Requests)
    BY DEF AllInv, TypeOK
  <1>2. /\ timer /\ ~timer'
        /\ queue' = IF NeedsBackup /\ conn # "broken" THEN Append(queue, Put(BackupRecord)) ELSE queue
        /\ UNCHANGED <<copy, live, text, enabled, restore, session, db, job, file, gone>>
    BY DEF FireTimer
  <1>3. copy.ver \in Texts /\ copy.ver # UnknownVersion
    BY <1>1, <1>2, NotUnknown DEF TypeOK
  <1>4. session /\ restore = Idle
    BY <1>1, <1>3, TouchedReady
  <1>5. Content' = Content /\ InCopy' = InCopy
    BY <1>2 DEF Content, InCopy
  <1>6. Stored
    BY <1>1, <1>2, <1>4 DEF HeldInv
  <1>7. /\ Put(BackupRecord).rec = BackupRecord /\ BackupRecord.cur = Content
        /\ BackupRecord.ver = copy.ver
    BY DEF Put, BackupRecord
  <1>8. Behind(BackupRecord, gone) /\ InRecord(BackupRecord) \subseteq Lost
    BY <1>1, <1>3, <1>7 DEF HeldInv, Behind, InRecord, Lost
  <1>9. ASSUME NEW i \in 1..Len(queue')
        PROVE  queue'[i].rec = BackupRecord \/ \E j \in 1..Len(queue) : queue'[i] = queue[j]
    <2>1. CASE queue' = queue
      BY <2>1
    <2>2. CASE queue' = Append(queue, Put(BackupRecord))
      BY <1>1, <1>7, <2>2, QueueParts
    <2> QED BY <1>2, <2>1, <2>2
  <1>10. Lost' = Lost
    BY <1>2, <1>5 DEF Lost
  <1>11. ASSUME NEW i \in 1..Len(queue')
         PROVE  Behind(queue'[i].rec, gone) /\ InRecord(queue'[i].rec) \subseteq Lost
    BY <1>1, <1>6, <1>8, <1>9 DEF HeldInv, Stored
  <1>12. Stored'
    BY <1>2, <1>6, <1>10, <1>11 DEF Stored
  <1>13. HeldInv'
    BY <1>1, <1>2, <1>10, <1>11, <1>12 DEF HeldInv, Awaited
  <1> QED BY <1>2, <1>5, <1>13 DEF Held, InMemory

\* What the database drops is on the screen or given up.
LEMMA HeldCarried ==
    ASSUME AllInv, CarryOut
    PROVE  HeldInv' /\ Held \subseteq Held' \cup gone'
  <1>1. TypeOK /\ ExactInv /\ HeldInv /\ Untouched /\ queue \in Seq(Requests)
    BY DEF AllInv, BackupInv, TypeOK
  <1>2. /\ queue # <<>> /\ queue' = Tail(queue) /\ db' = Carried(db, Head(queue))
        /\ restore' = IF Head(queue).op # "read" THEN restore
                      ELSE IF db = NoRecord THEN Idle ELSE [pc |-> "syncing", rec |-> db]
        /\ UNCHANGED <<copy, live, text, timer, enabled, session, job, file, gone>>
    BY DEF CarryOut
  <1>3. Head(queue) \in Requests /\ queue' \in Seq(Requests)
    BY <1>1, <1>2
  <1>4. Content' = Content /\ InCopy' = InCopy /\ Lost' = Lost
    BY <1>2 DEF Content, InCopy, Lost
  <1>5. \A i \in 1..Len(queue') : \E j \in 1..Len(queue) : queue'[i] = queue[j]
    BY <1>1, <1>2, QueueParts
  <1>6. \A i \in 1..Len(queue') : Behind(queue'[i].rec, gone)
    BY <1>1, <1>5 DEF HeldInv
  <1>7. CASE Head(queue).op = "read"
    <2>1. db' = db
      BY <1>2, <1>7 DEF Carried
    <2>2. restore.pc = "reading"
      BY <1>1, <1>2, <1>7, TailSound DEF ExactInv
    <2>3. NoWrite(queue)
      BY <1>1, <2>2 DEF ExactInv, Untouched, NoCopy, Idle
    <2>4. \A i \in 1..Len(queue') : queue'[i].rec = NoRecord
      BY <1>1, <1>2, <1>3, <2>3, TailEnds, QueueParts
    <2>5. restore' = Idle => Stored'
      <3>1. restore' = Idle => db = NoRecord
        BY <1>2, <1>7 DEF Idle
      <3> QED BY <2>1, <2>4, <3>1 DEF Stored, InRecord
    <2>6. restore'.pc = "syncing" => restore'.rec = db /\ Behind(restore'.rec, gone)
      BY <1>1, <1>2, <1>7 DEF HeldInv, Idle
    <2>7. HeldInv'
      BY <1>1, <1>2, <1>4, <1>6, <2>1, <2>5, <2>6 DEF HeldInv, Awaited
    <2> QED BY <1>2, <1>4, <2>1, <2>2, <2>7 DEF Held, InMemory
  <1>8. CASE Head(queue).op # "read"
    <2>1. ~NoWrite(queue)
      BY <1>1, <1>2, <1>8, TailEnds
    <2>2. session /\ restore = Idle
      BY <1>1, <2>1 DEF ExactInv, Untouched, NoCopy
    <2>3. Stored /\ restore' = restore
      BY <1>1, <1>2, <1>8, <2>1, <2>2 DEF HeldInv
    <2>4. Behind(db', gone) /\ InRecord(db') \subseteq Lost
      <3>1. Behind(Head(queue).rec, gone) /\ InRecord(Head(queue).rec) \subseteq Lost
        BY <1>1, <1>2, <2>3, QueueParts DEF HeldInv, Stored
      <3>2. Behind(NoRecord, gone) /\ InRecord(NoRecord) \subseteq Lost
        BY DEF Behind, InRecord
      <3>3. db' = Head(queue).rec \/ db' = NoRecord
        BY <1>2, <1>3, <1>8, RequestParts DEF Carried
      <3> QED BY <3>1, <3>2, <3>3
    <2>5. Stored'
      BY <1>4, <1>5, <2>3, <2>4 DEF Stored
    <2>6. HeldInv'
      BY <1>1, <1>2, <1>4, <1>6, <2>3, <2>4, <2>5 DEF HeldInv, Awaited
    <2>7. InRecord(db) \subseteq Occurs(Content)' \cup gone' /\ Occurs(Content)' \subseteq InCopy'
      BY <1>2, <1>4, <2>3 DEF Stored, Lost, InCopy
    <2> QED BY <1>2, <1>4, <2>3, <2>6, <2>7 DEF Held, InMemory
  <1> QED BY <1>7, <1>8

LEMMA HeldFails ==
    ASSUME AllInv, DbFails
    PROVE  HeldInv' /\ Held \subseteq Held' \cup gone'
  <1>1. TypeOK /\ ExactInv /\ HeldInv /\ Untouched /\ queue \in Seq(Requests)
    BY DEF AllInv, BackupInv, TypeOK
  <1>2. /\ ~enabled' /\ queue # <<>> /\ (queue' = <<>> \/ queue' = Tail(queue))
        /\ UNCHANGED <<copy, live, text, timer, session, db, job, file, gone>>
    BY DEF DbFails
  <1>3. restore' = restore \/ (restore' = Idle /\ restore.pc = "reading")
    BY <1>1, TailSound DEF DbFails, ExactInv
  <1>4. Content' = Content /\ InCopy' = InCopy /\ Lost' = Lost
    BY <1>2 DEF Content, InCopy, Lost
  <1>5. \A i \in 1..Len(queue') : \E j \in 1..Len(queue) : queue'[i] = queue[j]
    <2>1. CASE queue' = <<>>
      BY <2>1
    <2>2. CASE queue' = Tail(queue)
      BY <1>1, <1>2, <2>2, QueueParts
    <2> QED BY <1>2, <2>1, <2>2
  <1>6. NoWrite(queue) => NoWrite(queue')
    BY <1>5 DEF NoWrite
  <1>7. session /\ restore' = Idle => Stored' \/ (~timer /\ NoWrite(queue'))
    <2>1. CASE restore = Idle
      <3>1. Stored => Stored'
        BY <1>2, <1>4, <1>5 DEF Stored
      <3> QED BY <1>1, <1>3, <1>6, <2>1, <3>1 DEF HeldInv
    <2>2. CASE restore # Idle
      <3>1. copy.ver = UnknownVersion
        BY <1>1, <2>2 DEF ExactInv, NoCopy
      <3>2. ~timer /\ NoWrite(queue)
        BY <1>1, <3>1, NotUnknown DEF TypeOK, Untouched
      <3> QED BY <1>6, <3>2
    <2> QED BY <2>1, <2>2
  <1>8. HeldInv'
    BY <1>1, <1>2, <1>3, <1>4, <1>5, <1>7 DEF HeldInv, Awaited, Idle
  <1> QED BY <1>2, <1>3, <1>4, <1>8 DEF Held, InMemory

LEMMA HeldSession ==
    ASSUME AllInv, ~Overlaps, NewSession
    PROVE  HeldInv' /\ Held \subseteq Held' \cup gone'
  <1>1. TypeOK /\ ExactInv /\ HeldInv /\ Untouched /\ queue \in Seq(Requests)
    BY DEF AllInv, BackupInv, TypeOK
  <1>2. /\ restore = Idle /\ ~session /\ session'
        /\ IF enabled
           THEN restore' = [pc |-> "reading"] /\ queue' = Append(queue, ReadAll)
           ELSE UNCHANGED <<restore, queue>>
        /\ UNCHANGED <<copy, live, text, timer, enabled, db, job, file, gone>>
    BY DEF NewSession
  <1>3. Content' = Content /\ InCopy' = InCopy /\ Lost' = Lost
    BY <1>2 DEF Content, InCopy, Lost
  <1>4. copy.ver = UnknownVersion /\ ~timer /\ NoWrite(queue)
    <2>1. copy.ver = UnknownVersion
      BY <1>1, <1>2 DEF ExactInv, NoCopy
    <2> QED BY <1>1, <2>1, NotUnknown DEF TypeOK, Untouched
  <1>5. ASSUME NEW i \in 1..Len(queue') PROVE Behind(queue'[i].rec, gone)
    <2>1. CASE queue' = queue
      BY <1>1, <2>1 DEF HeldInv
    <2>2. CASE queue' = Append(queue, ReadAll)
      <3>1. queue'[i] = ReadAll \/ \E j \in 1..Len(queue) : queue'[i] = queue[j]
        BY <1>1, <2>2, QueueParts
      <3>2. Behind(ReadAll.rec, gone)
        BY DEF ReadAll, Behind
      <3> QED BY <1>1, <3>1, <3>2 DEF HeldInv
    <2> QED BY <1>2, <2>1, <2>2
  <1>6. HeldInv'
    BY <1>1, <1>2, <1>3, <1>4, <1>5 DEF HeldInv, Awaited, Idle
  <1> QED BY <1>2, <1>3, <1>6 DEF Held, InMemory, Idle

LEMMA HeldRestored ==
    ASSUME AllInv, NEW changed \in BOOLEAN, ApplyRestore(changed)
    PROVE  HeldInv' /\ Held \subseteq Held' \cup gone'
  <1>1. TypeOK /\ ExactInv /\ HeldInv /\ Untouched /\ queue \in Seq(Requests)
    BY DEF AllInv, BackupInv, TypeOK
  <1>2. PICK rec \in Records : rec = restore.rec
    BY <1>1, ApplyRestoreTypes
  <1>3. /\ restore.pc = "syncing" /\ restore' = Idle /\ queue' = ArrayReplaced
        /\ copy' = [base |-> rec.base, ver |-> rec.ver, cur |-> rec.cur,
                    pend |-> RestoredBatches(rec), dirty |-> TRUE,
                    conflict |-> rec.conflict \/ changed]
        /\ UNCHANGED <<live, text, timer, enabled, session, db, job, file, gone>>
    BY <1>2 DEF ApplyRestore
  <1>4. tab = "closed" /\ copy = NoCopy /\ ~live
    BY <1>1, <1>3 DEF ExactInv, Idle, TypeOK
  <1>5. rec = db /\ NoWrite(queue) /\ ~Awaited
    BY <1>1, <1>2, <1>3, <1>4, NotUnknown DEF Untouched, TypeOK, NoCopy
  <1>6. Content' = rec.cur /\ copy'.ver = rec.ver /\ InRecord(rec) = Occurs(rec.cur)
    BY <1>3, <1>4, RecordIsOne DEF Content, InRecord
  <1>7. Occurs(rec.ver) \subseteq Lost' /\ InRecord(db) \subseteq Lost'
    <2>1. Behind(rec, gone)
      BY <1>1, <1>5 DEF HeldInv
    <2>2. Lost' = Occurs(rec.cur) \cup gone
      BY <1>3, <1>6 DEF Lost
    <2> QED BY <1>5, <1>6, <2>1, <2>2, RecordIsOne DEF Behind
  <1>8. \A i \in 1..Len(queue') : queue'[i].rec = NoRecord
    BY <1>1, <1>3, <1>5, ReplacedType, ReplacedEnds, QueueParts
  <1>9. Stored' /\ \A i \in 1..Len(queue') : Behind(queue'[i].rec, gone)
    BY <1>3, <1>7, <1>8 DEF Stored, InRecord, Behind
  <1>10. HeldInv'
    BY <1>1, <1>3, <1>4, <1>5, <1>6, <1>7, <1>9 DEF HeldInv, Awaited, Idle
  <1>11. Held \subseteq InRecord(rec) \cup InRecord(db) \cup Occurs(file)
    <2>1. Content = <<>> /\ copy.cur = <<>> /\ copy.pend.text = <<>>
      BY <1>4 DEF Content, NoCopy, NoBatches
    <2>2. InCopy = {}
      BY <2>1, OccursFacts DEF InCopy
    <2> QED BY <1>2, <2>2 DEF Held, InMemory
  <1> QED BY <1>3, <1>5, <1>10, <1>11 DEF Held

LEMMA HeldSaves ==
    ASSUME AllInv, StartSave \/ GatewaySave
    PROVE  HeldInv' /\ Held \subseteq Held' \cup gone'
  <1>1. TypeOK /\ ExactInv /\ HeldInv
    BY DEF AllInv
  <1>2. /\ UNCHANGED <<copy, live, text, timer, enabled, queue, restore, session, db, gone>>
        /\ Content' = Content /\ InCopy' = InCopy /\ Lost' = Lost
    BY DEF StartSave, GatewaySave, pageVars, Content, InCopy, Lost
  <1>3. Stored' = Stored
    BY <1>2 DEF Stored
  <1>4. CASE StartSave
    <2>1. /\ job' = [pc |-> "sent", ver |-> copy.ver, pend |-> copy.pend, full |-> Content,
                     awaited |-> TRUE]
          /\ tab = "ready" /\ UNCHANGED file
      BY <1>4 DEF StartSave
    <2>2. copy.ver # UnknownVersion /\ copy.base \in Texts /\ copy.pend \in Batches
      BY <1>1, <2>1, NotUnknown DEF TypeOK, Copies
    <2>3. Content = Result(copy.base, copy.pend)
      BY <1>1, <2>1 DEF ExactInv
    <2>4. /\ Occurs(copy.pend.text) \subseteq Lost
          /\ copy.pend.whole => Occurs(copy.pend.text) = Occurs(Content)
      BY <2>2, <2>3, OccursFacts DEF Lost
    <2>5. Occurs(copy.ver) \subseteq Lost
      BY <1>1, <2>2 DEF HeldInv
    <2>6. /\ job'.ver = copy.ver /\ job'.pend = copy.pend
      BY <2>1
    <2>7. HeldInv'
      BY <1>1, <1>2, <1>3, <2>4, <2>5, <2>6 DEF HeldInv, Awaited, Lost
    <2> QED BY <1>2, <2>1, <2>7 DEF Held, InMemory
  <1>5. CASE GatewaySave
    <2>1. job \in Jobs /\ job.pc = "sent" /\ file \in Texts
      BY <1>1, <1>5 DEF GatewaySave, TypeOK, NoJob
    <2>2. PICK new : new = Result(file, job.pend)
      OBVIOUS
    <2>3. \/ file = job.ver /\ file' = new /\ job' = [job EXCEPT !.pc = "saved", !.ver = new]
          \/ UNCHANGED file /\ job' = [job EXCEPT !.pc = "error"]
          \/ UNCHANGED file /\ job' = [job EXCEPT !.pc = "conflict"]
      BY <1>5, <2>2 DEF GatewaySave
    <2>4. /\ job'.pc \in {"saved", "error", "conflict"} /\ job'.awaited = job.awaited
          /\ job'.pend = job.pend
          /\ job'.ver = job.ver \/ (file = job.ver /\ job'.ver = new)
      BY <2>1, <2>3 DEF Jobs
    <2>5. /\ Occurs(new) \subseteq Occurs(file) \cup Occurs(job.pend.text)
          /\ job.pend.whole => Occurs(new) = Occurs(job.pend.text)
          /\ ~job.pend.whole => Occurs(file) \subseteq Occurs(new)
      <3>1. job.pend \in Batches
        BY <2>1 DEF Jobs
      <3> QED BY <2>1, <2>2, <3>1, OccursFacts
    <2>6. Awaited => Occurs(job'.ver) \cup Occurs(job'.pend.text) \subseteq Lost
      BY <1>1, <2>4, <2>5 DEF HeldInv
    <2>7. Occurs(file) \subseteq Occurs(file)' \cup gone
      BY <1>1, <2>1, <2>3, <2>5 DEF HeldInv
    <2>8. HeldInv'
      BY <1>1, <1>2, <1>3, <2>1, <2>4, <2>6 DEF HeldInv, Awaited
    <2> QED BY <1>2, <2>7, <2>8 DEF Held, InMemory
  <1> QED BY <1>4, <1>5

\* A backup that was due is made; what was still to be backed up counts as lost.
LEMMA HeldReload ==
    ASSUME AllInv, BackupExact, ReloadPage
    PROVE  HeldInv' /\ Held \subseteq Held' \cup gone'
  <1>1. TypeOK /\ ExactInv /\ HeldInv /\ Untouched /\ queue \in Seq(Requests)
    BY DEF AllInv, BackupInv, TypeOK
  <1>2. /\ copy' = NoCopy /\ live' = FALSE /\ queue' = <<>> /\ restore' = Idle /\ session' = FALSE
        /\ job' = (IF job = NoJob THEN NoJob ELSE [job EXCEPT !.awaited = FALSE])
        /\ gone' = (IF BackedUp THEN gone ELSE gone \cup (InMemory \ InRecord(db')))
        /\ UNCHANGED file
    BY DEF ReloadPage
  <1>3. \/ UNCHANGED db
        \/ \E i \in 1..Len(queue) : queue[i].op # "read" /\ db' = Carried(db, queue[i])
    BY <1>1 DEF ReloadPage
  <1>4. gone \subseteq gone'
    BY <1>2
  <1>5. Behind(db', gone')
    <2>1. CASE UNCHANGED db
      BY <1>1, <1>4, <2>1 DEF HeldInv, Behind
    <2>2. ASSUME NEW i \in 1..Len(queue), queue[i].op # "read", db' = Carried(db, queue[i])
          PROVE  Behind(db', gone')
      <3>1. db' = queue[i].rec \/ db' = NoRecord
        BY <1>1, <2>2, RequestParts DEF Carried
      <3>2. Behind(queue[i].rec, gone)
        BY <1>1 DEF HeldInv
      <3> QED BY <1>4, <3>1, <3>2 DEF Behind
    <2> QED BY <1>3, <2>1, <2>2
  <1>6. HeldInv'
    <2>1. copy'.ver = UnknownVersion
      BY <1>2 DEF NoCopy
    <2>2. ~Awaited' /\ (job'.pc = "sent" => job'.ver = job.ver /\ job'.pend = job.pend /\ job.pc = "sent")
      BY <1>1, <1>2 DEF TypeOK, Jobs, NoJob, Awaited
    <2>3. job'.pc = "sent" /\ job'.pend.whole => Occurs(job'.ver) \subseteq Occurs(job'.pend.text) \cup gone'
      BY <1>1, <1>4, <2>2 DEF HeldInv
    <2> QED BY <1>2, <1>5, <2>1, <2>2, <2>3 DEF HeldInv, Idle
  <1>7. InCopy = Occurs(Content)
    BY <1>1, InCopyIs DEF HeldInv
  <1>8. InMemory \subseteq InRecord(db') \cup gone'
    <2>1. CASE ~BackedUp
      BY <1>2, <2>1
    <2>2. CASE BackedUp
      <3>1. AtRest /\ copy.dirty /\ tab = "ready" /\ ~overtaken /\ queue = <<>> /\ restore = Idle
        BY <2>2 DEF BackedUp, AtRest
      <3>2. db' = db
        BY <1>3, <3>1
      <3>3. db # NoRecord /\ db.cur = Content
        BY <3>1 DEF BackupExact
      <3>4. InMemory = Occurs(Content)
        BY <1>7, <3>1 DEF InMemory, Idle
      <3> QED BY <3>2, <3>3, <3>4 DEF InRecord
    <2> QED BY <2>1, <2>2
  <1>9. InRecord(db) \subseteq InRecord(db') \cup InMemory \cup gone'
    <2>1. CASE UNCHANGED db
      BY <2>1
    <2>2. ASSUME NEW i \in 1..Len(queue), queue[i].op # "read"
          PROVE  InRecord(db) \subseteq InMemory \cup gone'
      <3>1. ~NoWrite(queue)
        BY <2>2 DEF NoWrite
      <3>2. session /\ restore = Idle
        BY <1>1, <3>1 DEF ExactInv, Untouched, NoCopy
      <3>3. Stored
        BY <1>1, <3>1, <3>2 DEF HeldInv
      <3> QED BY <1>4, <1>7, <3>3 DEF Stored, Lost, InMemory
    <2> QED BY <1>3, <2>1, <2>2
  <1> QED BY <1>2, <1>6, <1>8, <1>9 DEF Held

\* When no restore comes in over open files, no step lets an edit vanish: it stays on the
\* screen, in a restore under way, in the backup or in the file, unless the user gives it
\* up or the page is lost before its backup was due (bufferRuntime.js: the backups, and
\* the batches a save sends).
THEOREM EditsStay ==
    ASSUME ~Overlaps PROVE Spec => EditsHeld
  <1>1. Init => AllInv
    <2> SUFFICES ASSUME Init PROVE AllInv
      OBVIOUS
    <2>1. TypeOK
      BY TypeInit
    <2>2. QueueSound(<<>>, "idle") /\ NoWrite(<<>>)
      BY DEF QueueSound, NoWrite
    <2>3. ExactInv /\ BackupInv
      BY <2>2 DEF Init, ExactInv, Idle, NoCopy, RecExact, BackupInv, Untouched, Backed
    <2>4. HeldInv
      BY DEF Init, HeldInv, Behind, Awaited, NoJob, NoCopy, Idle
    <2> QED BY <2>1, <2>3, <2>4 DEF AllInv
  <1>2. AllInv /\ BackupExact /\ [Next]_vars => AllInv' /\ Held \subseteq Held' \cup gone'
    <2> SUFFICES ASSUME AllInv, BackupExact, [Next]_vars
                 PROVE  AllInv' /\ Held \subseteq Held' \cup gone'
      OBVIOUS
    <2>1. TypeOK' /\ ExactInv' /\ BackupInv'
      BY TypeNext, ExactNext, BackupNext DEF AllInv
    <2>2. CASE UNCHANGED vars
      <3>1. Content' = Content /\ InCopy' = InCopy
        BY <2>2 DEF vars, pageVars, Content, InCopy
      <3> QED BY <2>1, <2>2, <3>1
              DEF vars, pageVars, AllInv, HeldInv, Lost, Stored, Held, InMemory, Awaited
    <2>3. CASE UserStep
      BY <2>1, <2>3, HeldSession, HeldEditor, HeldOpen, HeldSaves DEF UserStep, AllInv
    <2> QED BY <2>1, <2>2, <2>3, HeldFires, HeldEditor, HeldCarried, HeldFails, HeldRestored,
               HeldOpen, HeldSaves, HeldAnswered, HeldReload
            DEF Next, AllInv
  <1>3. Spec => []BackupExact
    BY BackupsExact
  <1>4. AllInv /\ BackupExact /\ [Next]_vars => [Held \subseteq Held' \cup gone']_vars
    BY <1>2
  <1> QED BY <1>1, <1>2, <1>3, <1>4, PTL DEF Spec, EditsHeld
=============================================================================
