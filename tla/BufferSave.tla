----------------------------- MODULE BufferSave -----------------------------
(***************************************************************************)
(* Opening and saving one remote file from several browser tabs: the       *)
(* working copy of each tab (bufferRuntime.js), saveActiveFile of          *)
(* useRemoteWorkspace.js, the save and open handlers of SessionHandle      *)
(* (registry/handle.rs) and the two ways they reach the file.              *)
(*                                                                         *)
(*   proxy      under the zed_client mutex: open_buffer_by_path, compare   *)
(*              versions, UpdateBuffer, SaveBuffer                         *)
(*   transport  over ssh, without a mutex: read the file, compare its      *)
(*              hash, write the file                                       *)
(*                                                                         *)
(* A content is the sequence of the edits that made it.  An edit counts    *)
(* for one unit of length, or for none (a replacement): the gateway checks *)
(* a length and nothing else of what it is about to write.  An edit whose  *)
(* base has another length fails that check whatever its position.         *)
(***************************************************************************)
EXTENDS Naturals, Sequences, FiniteSets

CONSTANTS
    Tabs,           \* browser tabs on one session
    Jobs,           \* bound: requests of all tabs under way at once
    MaxEdits,       \* bound: edits typed
    MaxOutside,     \* bound: changes made to the file without the gateway
    MaxReloads,     \* bound: reloads by the remote server (two racing writes over
                    \* ssh can put the file back and forth for ever)
    Neutral,        \* edits that leave the length as it is
    ReusesBuffer,   \* the remote server hands out one buffer id per file
    MaxFaults,      \* bound: requests that fail half way, restarts of the proxy
    MaxLost,        \* bound: saves whose answer the tab loses or no longer awaits
    MaxEvents,      \* bound: events of the five bounds above together
    SlowProxy,      \* opens and PUTs may miss their 8 s at the proxy: transport takes over
    OpenedBy        \* the way the tabs' first opens took: "zed", or "ssh" where the proxy was slow

NoJob == 0

ASSUME SaveAssumption ==
    /\ MaxEdits \in Nat /\ MaxOutside \in Nat /\ MaxFaults \in Nat /\ MaxLost \in Nat
    /\ MaxReloads \in Nat /\ MaxEvents \in Nat
    /\ Neutral \subseteq Nat
    /\ ReusesBuffer \in BOOLEAN /\ SlowProxy \in BOOLEAN
    /\ OpenedBy \in {"zed", "ssh"} /\ (OpenedBy = "ssh" => SlowProxy)
    /\ NoJob \notin Jobs

VARIABLES
    base, ver, cur, pend, conflict,     \* the working copies
    job,        \* the requests under way
    lock,       \* holder of SessionHandle.zed_client, or NoJob
    cached,     \* ZedProxyClient.opened_buffers: at most this file's copy
    buf,        \* the remote server's buffer (external)
    file,       \* the file on disk (external)
    spent,      \* counters of the bounds
    known,      \* history: what the gateway last told each tab the file holds
    landed,     \* history: edits reported saved, and outside changes
    author,     \* history: the tab whose save last changed the file or its buffer
    raced,      \* history: tabs whose copy had changed when a save's answer came in
    stale       \* history: operations were made on a text the remote server's buffer no
                \* longer had

tabVars == <<base, ver, cur, pend, conflict>>
vars == <<tabVars, job, lock, cached, buf, file, spent, known, landed, author, raced, stale>>

Edits == 1..(MaxEdits + MaxOutside)

Bound == [edits |-> MaxEdits, outside |-> MaxOutside, faults |-> MaxFaults,
          lost |-> MaxLost, reloads |-> MaxReloads]
Events == spent.edits + spent.outside + spent.faults + spent.lost + spent.reloads
Spend(b) == spent[b] < Bound[b] /\ Events < MaxEvents /\ spent' = [spent EXCEPT ![b] = @ + 1]

ZedVersion(n)   == [scheme |-> "zed", n |-> n, text |-> <<>>]
SshVersion(s)   == [scheme |-> "ssh", n |-> 0, text |-> s]     \* a hash of the content
FallbackVersion == [scheme |-> "ssh", n |-> 1, text |-> <<>>]  \* 'http-fallback'

Occurs(s) == {s[i] : i \in DOMAIN s}
Length(s) == Cardinality({i \in DOMAIN s : s[i] \notin Neutral})

\* Mutant: only the kind of version is compared
SchemeMatches(asked, current) == asked.scheme = current.scheme

VersionMatches(asked, current) == asked = current

LengthMatches(content, length) == Length(content) = length  \* validate_expected_content_length

Free == [pc |-> "free"]
NoCopy == [n |-> 0, text |-> <<>>]      \* versions start at 1

Kinds == {"save", "put"}
Steps == {"sent", "update", "store", "write", "ssh"}
Answers == {"saved", "conflict", "error"}

TypeOK ==
    /\ \A t \in Tabs : ver[t].scheme \in {"zed", "ssh"}
    /\ \A s \in {base[t] : t \in Tabs} \cup {cur[t] : t \in Tabs} \cup {pend[t] : t \in Tabs}
                \cup {known[t] : t \in Tabs} \cup {file, buf.text, cached.text} :
          Occurs(s) \subseteq Edits
    /\ conflict \in [Tabs -> BOOLEAN]
    /\ \A j \in Jobs : job[j] # Free =>
          /\ job[j].pc \in Steps \cup Answers
          /\ job[j].tab \in Tabs /\ job[j].kind \in Kinds /\ job[j].awaited \in BOOLEAN
    /\ lock \in Jobs \cup {NoJob}
    /\ lock # NoJob <=> \E j \in Jobs : job[j].pc \in {"update", "store"}
    /\ buf.n \in Nat \ {0} /\ buf.dirty \in BOOLEAN
    /\ \A b \in DOMAIN Bound : spent[b] \in 0..Bound[b]
    /\ landed \subseteq Edits /\ author \subseteq Tabs /\ raced \subseteq Tabs /\ stale \in BOOLEAN

\* Every tab has opened the empty file.
Init ==
    /\ base = [t \in Tabs |-> <<>>] /\ cur = base /\ pend = base /\ known = base
    /\ ver = [t \in Tabs |-> IF OpenedBy = "zed" THEN ZedVersion(1) ELSE SshVersion(<<>>)]
    /\ conflict = [t \in Tabs |-> FALSE]
    /\ job = [j \in Jobs |-> Free] /\ lock = NoJob
    /\ buf = [n |-> 1, text |-> <<>>, dirty |-> FALSE]
    /\ file = <<>>
    /\ cached = IF OpenedBy = "zed" THEN [n |-> 1, text |-> <<>>] ELSE NoCopy
    /\ spent = [b \in DOMAIN Bound |-> 0]
    /\ landed = {} /\ author = {} /\ raced = {} /\ stale = FALSE

-----------------------------------------------------------------------------
(* The tab                                                                 *)

\* The edit joins the content and the pending batches (onModelContentChanged,
\* applyWorkspaceEdit).
Type(t) ==
    /\ Spend("edits")
    /\ cur' = [cur EXCEPT ![t] = Append(@, spent'.edits)]
    /\ pend' = [pend EXCEPT ![t] = Append(@, spent'.edits)]
    /\ UNCHANGED <<base, ver, conflict, job, lock, cached, buf, file,
                   known, landed, author, raced, stale>>

Request(t, kind) ==
    [pc |-> "sent", tab |-> t, kind |-> kind, ver |-> ver[t], batches |-> pend[t],
     full |-> cur[t], text |-> <<>>, awaited |-> TRUE]

\* getSavePayload.  Nothing keeps a second save from starting before the first
\* is answered.
StartSave(t, j) ==
    /\ job[j] = Free
    /\ job' = [job EXCEPT ![j] = Request(t, "save")]
    /\ UNCHANGED <<tabVars, lock, cached, buf, file, spent, known, landed, author, raced, stale>>

\* The socket closes or 30 s pass before the answer arrives: the tab writes its whole
\* content with PUT /file (isBufferCommandFallbackError), the gateway goes on.
GiveUp(j, k) ==
    /\ Spend("lost")
    /\ job[j] # Free /\ job[j].kind = "save" /\ job[j].awaited
    /\ job[k] = Free
    /\ job' = [job EXCEPT ![j].awaited = FALSE, ![k] = Request(job[j].tab, "put")]
    /\ UNCHANGED <<tabVars, lock, cached, buf, file, known, landed, author, raced, stale>>

\* markSaved: the content becomes the base and nothing is pending
MarkSaved(t, content, version) ==
    /\ base' = [base EXCEPT ![t] = content]
    /\ ver' = [ver EXCEPT ![t] = version]
    /\ pend' = [pend EXCEPT ![t] = <<>>]
    /\ conflict' = [conflict EXCEPT ![t] = FALSE]
    /\ UNCHANGED cur

\* handleSaveComplete takes the content of now, the PUT path the content it sent.  cur is
\* what getContent reads from the editor's model; markSaved does not touch the model.
HandleSaved(j) ==
    LET t == job[j].tab
    IN  /\ MarkSaved(t, IF job[j].kind = "save" THEN cur[t] ELSE job[j].full, job[j].ver)
        /\ raced' = IF cur[t] = job[j].full /\ pend[t] = job[j].batches THEN raced ELSE raced \cup {t}

\* Mutant: the batches the gateway refused are dropped
HandleConflictDropping(j) ==
    /\ conflict' = [conflict EXCEPT ![job[j].tab] = TRUE]
    /\ pend' = [pend EXCEPT ![job[j].tab] = <<>>]
    /\ UNCHANGED <<base, ver, cur, raced>>

HandleConflict(j) ==
    /\ conflict' = [conflict EXCEPT ![job[j].tab] = TRUE]
    /\ UNCHANGED <<base, ver, cur, pend, raced>>

Deliver(j) ==
    /\ job[j].pc \in Answers
    /\ job' = [job EXCEPT ![j] = Free]
    /\ \/ /\ job[j].awaited /\ job[j].pc = "saved"
          /\ HandleSaved(j)
       \/ /\ job[j].awaited /\ job[j].pc = "conflict"
          /\ HandleConflict(j)
       \/ /\ ~job[j].awaited \/ job[j].pc = "error"
          /\ UNCHANGED <<tabVars, raced>>
    /\ UNCHANGED <<lock, cached, buf, file, spent, known, landed, author, stale>>

-----------------------------------------------------------------------------
(* The proxy path                                                          *)

\* Mutant: the copy is looked up before the remote server is asked
CopyByPath == IF cached # NoCopy THEN cached ELSE [n |-> buf.n, text |-> buf.text]

\* open_buffer_by_path: a buffer id that is in opened_buffers answers from there.
Copy == IF ReusesBuffer /\ cached # NoCopy THEN cached ELSE [n |-> buf.n, text |-> buf.text]

\* What a job is about to make of the text it opened.
Outcome(j) == IF job[j].kind = "put" THEN job[j].full ELSE job[j].text \o job[j].batches

\* Mutant: a conflict is not answered
AnswerUnlessConflict(j, pc) ==
    job' = [job EXCEPT ![j].pc = IF pc = "conflict" THEN @ ELSE pc]

Answer(j, pc) == job' = [job EXCEPT ![j].pc = pc]

\* Mutant: a call that ends keeps the client
KeepLock(j) == UNCHANGED lock

Release(j) == lock' = IF lock = j THEN NoJob ELSE lock

Awaits(t) == \E j \in Jobs : job[j] # Free /\ job[j].tab = t /\ job[j].awaited

\* Open and revert (finishLoading): the working copy starts over.
Reopen(t, version, content) ==
    /\ base' = [base EXCEPT ![t] = content]
    /\ cur' = [cur EXCEPT ![t] = content]
    /\ pend' = [pend EXCEPT ![t] = <<>>]
    /\ ver' = [ver EXCEPT ![t] = version]
    /\ conflict' = [conflict EXCEPT ![t] = FALSE]
    /\ known' = [known EXCEPT ![t] = content]
    /\ raced' = IF Awaits(t) THEN raced ELSE raced \ {t}

OpenByProxy(t) ==
    /\ lock = NoJob
    /\ cached' = Copy
    /\ Reopen(t, ZedVersion(Copy.n), Copy.text)
    /\ UNCHANGED <<job, lock, buf, file, spent, landed, author, stale>>

\* save_buffer_via_proxy and apply_batches_and_save up to the length check
CheckByProxy(j) ==
    /\ job[j].pc = "sent" /\ job[j].kind = "save" /\ job[j].ver.scheme = "zed"
    /\ lock = NoJob
    /\ cached' = Copy
    /\ LET match  == VersionMatches(job[j].ver, ZedVersion(Copy.n))
           length == LengthMatches(Copy.text \o job[j].batches, Length(job[j].full))
       IN  \/ ~match /\ Answer(j, "conflict") /\ UNCHANGED lock
           \/ match /\ ~length /\ Answer(j, "error") /\ UNCHANGED lock
           \/ /\ match /\ length
              /\ lock' = j
              /\ job' = [job EXCEPT ![j].text = Copy.text,
                                    ![j].pc = IF job[j].batches = <<>> THEN "store" ELSE "update"]
    /\ UNCHANGED <<tabVars, buf, file, spent, known, landed, author, raced, stale>>

\* save_file_via_proxy opens the buffer and compares nothing.
OpenForPut(j) ==
    /\ job[j].pc = "sent" /\ job[j].kind = "put"
    /\ lock = NoJob /\ lock' = j
    /\ cached' = Copy
    /\ job' = [job EXCEPT ![j].text = Copy.text, ![j].pc = "update"]
    /\ UNCHANGED <<tabVars, buf, file, spent, known, landed, author, raced, stale>>

\* What s holds besides the edits in S, in its order (SelectSeq, without recursion).
Beyond(s, S) ==
    LET kept == {i \in DOMAIN s : s[i] \notin S} IN
    [k \in 1..Cardinality(kept) |->
        s[CHOOSE i \in kept : Cardinality({h \in kept : h <= i}) = k]]

\* UpdateBuffer: one operation per batch, or one that replaces the text the job
\* opened.  Operations name the version they were made at, so the remote server keeps
\* what its buffer has beyond that.
Updated(j) ==
    IF job[j].kind = "put"
    THEN job[j].full \o Beyond(buf.text, Occurs(job[j].text))
    ELSE buf.text \o job[j].batches

Update(j) ==
    /\ job[j].pc = "update" /\ lock = j
    /\ buf' = [n |-> buf.n + (IF job[j].kind = "put" THEN 1 ELSE Len(job[j].batches)),
               text |-> Updated(j), dirty |-> TRUE]
    /\ author' = {job[j].tab}
    /\ stale' = (stale \/ job[j].text # buf.text)
    /\ Answer(j, "store")
    /\ UNCHANGED <<tabVars, lock, cached, file, spent, known, landed, raced>>

Told(j, version, content) ==
    /\ job' = [job EXCEPT ![j].pc = "saved", ![j].ver = version]
    /\ known' = [known EXCEPT ![job[j].tab] = content]
    /\ landed' = landed \cup Occurs(content)

\* Mutant: the new version over the old text
CacheVersionOnly(n, text) == cached' = [cached EXCEPT !.n = n]

CacheOpenedBuffer(n, text) == cached' = [n |-> n, text |-> text]

\* SaveBuffer; cache_opened_buffer keeps the text the gateway computed and the
\* version the remote server answered.
Store(j) ==
    /\ job[j].pc = "store" /\ lock = j
    /\ file' = buf.text
    /\ buf' = [buf EXCEPT !.dirty = FALSE]
    /\ CacheOpenedBuffer(buf.n, Outcome(j))
    /\ Release(j)
    /\ Told(j, IF job[j].kind = "put" THEN FallbackVersion ELSE ZedVersion(buf.n), Outcome(j))
    /\ UNCHANGED <<tabVars, spent, author, raced, stale>>

-----------------------------------------------------------------------------
(* The transport path                                                      *)

OpenByTransport(t) ==
    /\ SlowProxy
    /\ Reopen(t, SshVersion(file), file)
    /\ UNCHANGED <<job, lock, cached, buf, file, spent, landed, author, stale>>

\* save_buffer_via_transport up to the write
CheckByTransport(j) ==
    /\ job[j].pc = "sent" /\ job[j].kind = "save" /\ job[j].ver.scheme = "ssh"
    /\ LET match  == VersionMatches(job[j].ver, SshVersion(file))
           length == LengthMatches(file \o job[j].batches, Length(job[j].full))
       IN  \/ ~match /\ Answer(j, "conflict")
           \/ match /\ ~length /\ Answer(j, "error")
           \/ /\ match /\ length
              /\ job' = [job EXCEPT ![j].text = file, ![j].pc = "write"]
    /\ UNCHANGED <<tabVars, lock, cached, buf, file, spent, known, landed, author, raced, stale>>

\* Mutant: the hash that was compared, not that of what was written
ComparedVersion(j) == SshVersion(job[j].text)

WrittenVersion(j) == SshVersion(Outcome(j))

Write(j) ==
    /\ job[j].pc = "write"
    /\ file' = Outcome(j)
    /\ author' = {job[j].tab}
    /\ Told(j, WrittenVersion(j), Outcome(j))
    /\ UNCHANGED <<tabVars, lock, cached, buf, spent, raced, stale>>

\* save_file writes over ssh when the proxy failed, or when its 8 s are over; the
\* dropped proxy call leaves the mutex.
PutByTransport(j) ==
    /\ \/ job[j].pc = "ssh"
       \/ SlowProxy /\ job[j].pc \in {"sent", "update", "store"} /\ job[j].kind = "put"
    /\ file' = job[j].full
    /\ Release(j)
    /\ author' = {job[j].tab}
    /\ Told(j, FallbackVersion, job[j].full)
    /\ UNCHANGED <<tabVars, cached, buf, spent, raced, stale>>

-----------------------------------------------------------------------------
(* Failures, and what the gateway does not do                              *)

\* save_file goes on over ssh, save_buffer and the ssh commands report the error
AfterFailure(j) == IF job[j].kind = "put" /\ job[j].pc # "ssh" THEN "ssh" ELSE "error"

\* A request to the remote server or an ssh command fails, before its effect or, for
\* those that write the file, after it; over ssh the shell empties the file first.
Fail(j) ==
    /\ Spend("faults")
    /\ job[j].pc \in Steps
    /\ Answer(j, AfterFailure(j))
    /\ Release(j)
    /\ \/ UNCHANGED <<buf, file, author>>
       \/ /\ job[j].pc = "store"
          /\ file' = buf.text /\ buf' = [buf EXCEPT !.dirty = FALSE]
          /\ UNCHANGED author
       \/ /\ job[j].pc \in {"write", "ssh"}
          /\ file' \in {<<>>, Outcome(j)} /\ author' = {job[j].tab}
          /\ UNCHANGED buf
    /\ UNCHANGED <<tabVars, cached, known, landed, raced, stale>>

\* reconnect: stop_proxy kills the child under a running call, start_proxy makes a
\* new client with no cached buffers.
Reconnect ==
    /\ Spend("faults")
    /\ cached' = NoCopy
    /\ lock' = NoJob
    /\ job' = [j \in Jobs |-> IF j = lock THEN [job[j] EXCEPT !.pc = AfterFailure(j)]
                             ELSE job[j]]
    /\ UNCHANGED <<tabVars, buf, file, known, landed, author, raced, stale>>

\* Someone else changes the file; the remote server reloads a buffer that has no
\* unsaved operations, which makes a new version.
ChangeOutside ==
    /\ Spend("outside")
    /\ file' = Append(file, MaxEdits + spent'.outside)
    /\ landed' = landed \cup {MaxEdits + spent'.outside}
    /\ UNCHANGED <<tabVars, job, lock, cached, buf, known, author, raced, stale>>

Reload ==
    /\ Spend("reloads")
    /\ buf.text # file /\ ~buf.dirty
    /\ buf' = [buf EXCEPT !.n = @ + 1, !.text = file]
    /\ UNCHANGED <<tabVars, job, lock, cached, file, known, landed, author, raced, stale>>

TabStep ==
    \/ \E t \in Tabs : Type(t) \/ OpenByProxy(t) \/ OpenByTransport(t)
    \/ \E t \in Tabs, j \in Jobs : StartSave(t, j)
    \/ \E j, k \in Jobs : GiveUp(j, k)
    \/ \E j \in Jobs : Deliver(j)

GatewayStep ==
    \E j \in Jobs :
        \/ CheckByProxy(j) \/ OpenForPut(j) \/ Update(j) \/ Store(j)
        \/ CheckByTransport(j) \/ Write(j) \/ PutByTransport(j)
        \/ Fail(j)

Next == TabStep \/ GatewayStep \/ Reconnect \/ ChangeOutside \/ Reload

Spec == Init /\ [][Next]_vars

\* tokio's Mutex is first come, first served: a job that keeps finding the client
\* free again gets it.  The remote server and ssh answer.  Tabs are not fair, but a
\* socket delivers.
Fairness ==
    \A j \in Jobs :
        /\ SF_vars(CheckByProxy(j)) /\ SF_vars(OpenForPut(j))
        /\ WF_vars(Update(j) \/ Store(j) \/ CheckByTransport(j) \/ Write(j))
        /\ WF_vars(job[j].pc = "ssh" /\ PutByTransport(j))
        /\ WF_vars(Deliver(j))

FairSpec == Spec /\ Fairness

-----------------------------------------------------------------------------
(* Properties                                                              *)

\* As long as no edit or reopening fell between a save's request and its answer, the
\* text a tab shows is its base with the pending batches applied, whatever conflicts,
\* errors and fallbacks it met: the next buffer.save sends exactly what the user sees.
WorkingCopyExact == \A t \in Tabs \ raced : cur[t] = base[t] \o pend[t]

\* The same without the exception: every edit on the screen is in the base, in the
\* file as the gateway last described it, or pending.
EditsTracked == \A t \in Tabs : Occurs(cur[t]) \subseteq Occurs(known[t]) \cup Occurs(pend[t])

\* A tab that no race has hit never sends a hash of anything but its base, so a
\* transport save compares the file with what the batches start from.
HashNamesBase ==
    \A t \in Tabs \ raced :
        (ver[t].scheme = "ssh" /\ ver[t] # FallbackVersion) => ver[t].text = base[t]

\* While no call runs, what opened_buffers holds of the file is what the remote
\* server holds: open_buffer_by_path may answer from it.
CopyCurrent ==
    (lock = NoJob /\ ReusesBuffer /\ cached # NoCopy)
    => cached = [n |-> buf.n, text |-> buf.text]

\* No save is applied twice, through retries after a half-done save, restarts of the
\* proxy and two tabs: an edit occurs once in what the remote server holds.
AppliedOnce == \A i, k \in DOMAIN buf.text : buf.text[i] = buf.text[k] => i = k

\* What was reported saved, or written by someone else, is still in the file.
NothingOverwritten == ~buf.dirty => landed \subseteq Occurs(file)

\* Every save is answered, while other tabs use the one proxy client (save_buffer waits
\* for the mutex without a timeout).
SaveAnswered == \A j \in Jobs : job[j].pc = "sent" ~> job[j].pc = "free"

\* Saving over the proxy is a checked store: between the version comparison and the
\* write nobody else's save comes in, and a save goes behind what its tab was told.
Checked == INSTANCE CheckedStore
    WITH Editors <- Tabs, seen <- known,
         store <- IF buf.dirty THEN buf.text ELSE file
Implements == Checked!Spec
=============================================================================
