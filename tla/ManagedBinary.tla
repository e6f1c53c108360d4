---------------------------- MODULE ManagedBinary ----------------------------
(***************************************************************************)
(* The remote server's binary, as start_proxy prepares it (gateway-web/    *)
(* src/registry/managed_remote.rs): one file in the gateway's data         *)
(* directory, downloaded or written as a wrapper when it is missing, and   *)
(* one on the target host, copied there by scp when it is missing.  Both   *)
(* are shared by all sessions, under no lock.                              *)
(*                                                                         *)
(* One version on one platform: others have files of their own.  Mode      *)
(* `latest` is a pinned version too (remote_version.rs).                   *)
(***************************************************************************)
EXTENDS FiniteSets

CONSTANTS
    Starts,         \* runs of start_proxy at a time, of any sessions
    Published       \* the release tells the digest of the asset

VARIABLES
    step,           \* where each start is
    bytes,          \* what it is to write into the cache, if it has to
    cache, remote,  \* the two files
    source,         \* the cached file as its scp found it
    copying,        \* starts whose scp runs, be it waited for or not
    disturbed,      \* history: a write broke off, or starts met; see Disturbs
    ranHalf         \* history: before that, something else than one whole binary was run

binaryVars == <<step, bytes, cache, remote, source, copying, disturbed, ranHalf>>

Nothing == "none"

\* A file is what was written into it since it was last truncated, by whom it was, and if
\* that one has come to the end.
NoFile == [there |-> FALSE, kinds |-> {}, writer |-> Nothing, whole |-> FALSE, exec |-> FALSE]

Runnable(f) == f.whole /\ Cardinality(f.kinds) = 1 /\ f.exec

\* create(true).truncate(true): a file that is there keeps its mode.
Created(f, t, exec) ==
    [there |-> TRUE, kinds |-> {}, writer |-> t, whole |-> FALSE,
     exec |-> IF f.there THEN f.exec ELSE exec]

\* The writer comes to the end.  If another has truncated the file since, that one's
\* start of the file is still to come.
Filled(f, t, kinds, whole) ==
    [f EXCEPT !.kinds = @ \cup kinds, !.whole = IF f.writer = t THEN whole ELSE @ /\ whole]

Preparing == {t \in Starts : step[t] # "over"}

\* A start that begins while another one prepares the files, or scp still copies.
Disturbs == (Preparing # {} \/ copying # {}) /\ ~Runnable(remote)

BinaryInit ==
    /\ step = [t \in Starts |-> "over"] /\ bytes = [t \in Starts |-> Nothing]
    /\ cache = NoFile /\ remote = NoFile
    /\ source = [t \in Starts |-> NoFile] /\ copying = {}
    /\ disturbed = FALSE /\ ranHalf = FALSE

Goto(t, from, to) == step[t] = from /\ step' = [step EXCEPT ![t] = to]

\* prepare_managed_remote_binary up to the platform, for a release or for the command of
\* the session's managed_remote_exec.  A policy that disables updates leaves the
\* configured binary, which is nobody's to prepare.
BeginStart(t, b) ==
    /\ t \notin copying /\ Goto(t, "over", "look")
    /\ bytes' = [bytes EXCEPT ![t] = b]
    /\ disturbed' = (disturbed \/ Disturbs)
    /\ UNCHANGED <<cache, remote, source, copying, ranHalf>>

\* A command or a request fails, or its time is over: the ? of each await.
Fail(t) ==
    /\ step[t] \in {"look", "download", "create", "mode", "ask", "copy", "chmod", "start"}
    /\ step' = [step EXCEPT ![t] = "over"] /\ bytes' = [bytes EXCEPT ![t] = Nothing]
    /\ UNCHANGED <<cache, remote, source, copying, disturbed, ranHalf>>

-----------------------------------------------------------------------------
(* The cache                                                               *)

\* ensure_local_cached_binary: whatever is there is taken, whoever wrote it for what.
Look(t) ==
    /\ Goto(t, "look", CASE cache.there -> "ask"
                         [] ~cache.there /\ bytes[t] = "wrapper" -> "create"
                         [] OTHER -> "download")
    /\ bytes' = [bytes EXCEPT ![t] = IF cache.there THEN Nothing ELSE @]
    /\ UNCHANGED <<cache, remote, source, copying, disturbed, ranHalf>>

\* verify_digest, where the release has a digest.
Accepted(b) == Published => b = "release"

\* download_release_binary up to the file: the asset, or something else in its place.
Download(t, b) ==
    /\ Goto(t, "download", IF Accepted(b) THEN "create" ELSE "over")
    /\ bytes' = [bytes EXCEPT ![t] = b]
    /\ UNCHANGED <<cache, remote, source, copying, disturbed, ranHalf>>

CreateFile(t) ==
    /\ Goto(t, "create", "fill")
    /\ cache' = Created(cache, t, FALSE)
    /\ UNCHANGED <<bytes, remote, source, copying, disturbed, ranHalf>>

FillFile(t) ==
    /\ Goto(t, "fill", "mode")
    /\ cache' = Filled(cache, t, {bytes[t]}, TRUE)
    /\ bytes' = [bytes EXCEPT ![t] = Nothing]
    /\ UNCHANGED <<remote, source, copying, disturbed, ranHalf>>

\* The archive ends early, the disk is full or the gateway is stopped: what was written
\* stays.
FillBreaks(t) ==
    /\ Goto(t, "fill", "over")
    /\ disturbed' = TRUE
    /\ UNCHANGED <<bytes, cache, remote, source, copying, ranHalf>>

SetMode(t) ==
    /\ Goto(t, "mode", "ask")
    /\ cache' = [cache EXCEPT !.exec = TRUE]
    /\ UNCHANGED <<bytes, remote, source, copying, disturbed, ranHalf>>

-----------------------------------------------------------------------------
(* The target host                                                         *)

\* Mutant: a file of that path is taken for the binary.
AskPresent(t) ==
    /\ Goto(t, "ask", IF remote.there THEN "start" ELSE "copy")
    /\ UNCHANGED <<bytes, cache, remote, source, copying, disturbed, ranHalf>>

\* upload_remote_binary: an executable of that path is taken for the binary.
AskRemote(t) ==
    /\ Goto(t, "ask", IF remote.there /\ remote.exec THEN "start" ELSE "copy")
    /\ UNCHANGED <<bytes, cache, remote, source, copying, disturbed, ranHalf>>

\* scp creates the file with the mode of its source.
CopyStarts(t) ==
    /\ Goto(t, "copy", "copying")
    /\ copying' = copying \cup {t}
    /\ source' = [source EXCEPT ![t] = cache]
    /\ remote' = Created(remote, t, cache.exec)
    /\ UNCHANGED <<bytes, cache, disturbed, ranHalf>>

\* The source is whole in the copy if it was all the time.
CopyEnds(t) ==
    /\ t \in copying /\ copying' = copying \ {t}
    /\ remote' = Filled(remote, t, source[t].kinds,
                        source[t].whole /\ source[t].writer = cache.writer)
    /\ source' = [source EXCEPT ![t] = NoFile]
    /\ step' = IF step[t] = "copying" THEN [step EXCEPT ![t] = "chmod"] ELSE step
    /\ UNCHANGED <<bytes, cache, disturbed, ranHalf>>

CopyBreaks(t) ==
    /\ t \in copying /\ copying' = copying \ {t}
    /\ step' = IF step[t] = "copying" THEN [step EXCEPT ![t] = "over"] ELSE step
    /\ source' = [source EXCEPT ![t] = NoFile]
    /\ disturbed' = TRUE
    /\ UNCHANGED <<bytes, cache, remote, ranHalf>>

\* SSH_TIMEOUT_SECS: the future is dropped, the process goes on.
CopyTimesOut(t) ==
    /\ Goto(t, "copying", "over")
    /\ UNCHANGED <<bytes, cache, remote, source, copying, disturbed, ranHalf>>

Chmod(t) ==
    /\ Goto(t, "chmod", "start")
    /\ remote' = [remote EXCEPT !.exec = TRUE]
    /\ UNCHANGED <<bytes, cache, source, copying, disturbed, ranHalf>>

\* probe_remote, whose answer nothing depends on, and spawn_proxy.
StartProxy(t) ==
    /\ Goto(t, "start", "over")
    /\ ranHalf' = (ranHalf \/ ~(disturbed \/ Runnable(remote)))
    /\ UNCHANGED <<bytes, cache, remote, source, copying, disturbed>>

BinaryNext ==
    \E t \in Starts :
        \/ \E b \in {"release", "wrapper"} : BeginStart(t, b)
        \/ \E b \in {"release", "other"} : Download(t, b)
        \/ Fail(t) \/ Look(t) \/ CreateFile(t) \/ FillFile(t) \/ FillBreaks(t) \/ SetMode(t)
        \/ AskRemote(t) \/ CopyStarts(t) \/ CopyEnds(t) \/ CopyBreaks(t) \/ CopyTimesOut(t)
        \/ Chmod(t) \/ StartProxy(t)

BinarySpec == BinaryInit /\ [][BinaryNext]_binaryVars

-----------------------------------------------------------------------------
(* Properties                                                              *)

BinaryTypeOK ==
    /\ \A t \in Starts : bytes[t] \in {Nothing, "release", "wrapper", "other"}
    /\ copying \subseteq Starts /\ disturbed \in BOOLEAN
    /\ \A f \in {cache, remote} : f.kinds \subseteq {"release", "wrapper", "other"}

(* What does not have the digest the release tells never gets into either file.  And
   starts that fail between two effects, that time out or follow each other in any way
   leave no half binary to be started, but for these: a write that breaks off, and a
   start that begins while another's files are in the making.  Once one copy is complete
   and executable any number may start at once.  [managed_remote.rs:118-301] *)
BinaryWhole ==
    /\ Published => "other" \notin cache.kinds \cup remote.kinds
    /\ ~ranHalf
=============================================================================
