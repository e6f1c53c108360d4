---------------------------- MODULE ProxyChannel ----------------------------
(***************************************************************************)
(* The envelope channel between the gateway and `zed-remote-server proxy`: *)
(* ZedProxyClient of gateway-zed-proxy/src/client.rs over the stdin/stdout *)
(* pipes of one ssh process.                                               *)
(*                                                                         *)
(* The client numbers what it writes, keeps a copy of every envelope until *)
(* an ack_id retires it, replays the copies when the remote server asks    *)
(* with FlushBufferedMessages, and reads in three loops: initialize,       *)
(* request and the chunk loop of open_buffer_by_path.  All calls are made  *)
(* under SessionHandle.zed_client, so one call runs at a time.  A caller's *)
(* 8 s timeout may drop a call wherever it waits: between two reads, in a  *)
(* read, or in the write of a request, of a reply or of a replay.          *)
(*                                                                         *)
(* The remote server is outside src/.  It is modelled from the servers the *)
(* tests of client.rs and fake_remote_proxy.rs play: it reads in order,    *)
(* answers what it is asked, sends the State and Chunk of a buffer id once *)
(* after the response that names it, and may ping, ask for a worktree id,  *)
(* notify or flush at any time.                                            *)
(***************************************************************************)
EXTENDS Naturals, Sequences, FiniteSets

CONSTANTS
    Buffers,        \* buffer ids the remote server hands out
    MaxCalls,       \* bound: calls made after initialize
    MaxSpoken,      \* bound: pings, id requests, notifications and flushes
    MaxEvents       \* bound: both together

ASSUME ConstantsAssumption ==
    /\ Buffers \subseteq Nat \ {0}
    /\ MaxCalls \in Nat /\ MaxSpoken \in Nat /\ MaxEvents \in Nat

None == 0           \* ids start at 1 on both sides

VARIABLES
    nextId,         \* ClientState.next_message_id
    nextWorktree,   \* ClientState.next_worktree_id
    maxReceived,    \* ClientState.max_received
    buffered,       \* ClientState.buffered_outgoing, oldest first
    cached,         \* keys of ClientState.opened_buffers
    pc,             \* the loop the one running call is in
    want,           \* id of the request the call awaits
    opening,        \* the call is open_buffer_by_path
    timed,          \* the call runs under FILE_PROXY_TIMEOUT
    buffer,         \* buffer id the chunk loop collects
    hasState,       \* the chunk loop has seen the State of buffer
    framed,         \* the reader stands at an envelope boundary
    torn,           \* a frame was left half-written in ssh stdin
    toRemote,       \* ssh stdin
    toClient,       \* ssh stdout
    rNext, rMax, rOwed, rShared, rStream,   \* the remote server
    calls, rSpoken, \* counters of the two bounds
    flush,          \* history: the flush the remote server waits for
    rAcked,         \* history: highest ack_id the remote server has sent
    written,        \* history: every envelope the client wrote, replays apart
    asked,          \* history: what the remote server sent that is no response
    dropped,        \* history: ids of what was read by a call dropped while answering it
    acked           \* history: highest ack_id the client has read

callVars   == <<pc, want, opening, timed, buffer, hasState>>
clientVars == <<nextId, nextWorktree, maxReceived, buffered, cached, framed, torn,
                dropped, callVars>>
remoteVars == <<rNext, rMax, rOwed, rShared, rStream, rSpoken, flush, rAcked, asked>>
vars == <<clientVars, calls, toRemote, toClient, remoteVars, written, acked>>

ClientKinds == {"RemoteStarted", "Call", "Open", "Ack", "AllocResponse"}
RemoteKinds == {"Ack", "RemoteStarted", "Response", "Error", "Flush", "Ping",
                "Alloc", "Other", "State", "Chunk"}
NoBuffer == None
BufferIds == Buffers \cup {NoBuffer}

ClientEnvelope == [id: Nat, ack: Nat, kind: ClientKinds, re: Nat, keep: BOOLEAN]
StreamPiece    == [kind: {"State", "Chunk"}, buf: Buffers]
RemoteEnvelope == [id: Nat, ack: Nat, kind: RemoteKinds, re: Nat, buf: BufferIds]

Larger(a, b) == IF a < b THEN b ELSE a

TypeOK ==
    /\ nextId \in Nat \ {0} /\ nextWorktree \in Nat \ {0}
    /\ maxReceived \in Nat
    /\ buffered \in Seq(ClientEnvelope)
    /\ cached \subseteq BufferIds
    /\ pc \in {"new", "init", "idle", "await", "chunks"}
    /\ want \in Nat /\ opening \in BOOLEAN /\ timed \in BOOLEAN
    /\ buffer \in BufferIds /\ hasState \in BOOLEAN
    /\ framed \in BOOLEAN /\ torn \in BOOLEAN
    /\ toRemote \in Seq(ClientEnvelope)
    /\ toClient \in Seq(RemoteEnvelope)
    /\ rNext \in Nat \ {0} /\ rMax \in Nat
    /\ rOwed \subseteq [re: Nat, kind: {"RemoteStarted", "Call", "Open"}]
    /\ rShared \subseteq Buffers
    /\ rStream \in Seq(StreamPiece)
    /\ calls \in Nat /\ rSpoken \in Nat
    /\ flush \in [id: Nat, floor: Nat, since: SUBSET Nat]
    /\ rAcked \in Nat
    /\ written \subseteq ClientEnvelope
    /\ asked \subseteq [id: Nat, kind: RemoteKinds]
    /\ dropped \subseteq Nat /\ acked \in Nat

\* Mutant: counters left at their default
CountersAtZero == nextId = 0 /\ nextWorktree = 0 /\ maxReceived = 0

Counters == nextId = 1 /\ nextWorktree = 1 /\ maxReceived = 0

Init ==
    /\ Counters
    /\ buffered = <<>> /\ cached = {}
    /\ pc = "new" /\ want = None /\ opening = FALSE /\ timed = FALSE
    /\ buffer = NoBuffer /\ hasState = FALSE
    /\ framed = TRUE /\ torn = FALSE
    /\ toRemote = <<>> /\ toClient = <<>>
    /\ rNext = 1 /\ rMax = 0 /\ rOwed = {} /\ rShared = {} /\ rStream = <<>>
    /\ calls = 0 /\ rSpoken = 0
    /\ flush = [id |-> None, floor |-> 0, since |-> {}] /\ rAcked = 0
    /\ written = {} /\ asked = {} /\ dropped = {} /\ acked = 0

-----------------------------------------------------------------------------
(* Writing (assign_outgoing_metadata, write_buffered_envelope,             *)
(* write_unbuffered_envelope, write_encoded_envelope).  `kept` is the      *)
(* buffer the write starts from and `ack` the max_received it stamps: a    *)
(* read in the same step has already changed both.                         *)
(*                                                                         *)
(* A write ends "done", or the timeout drops the call in it: "early", at a *)
(* lock or before the envelope is numbered, "unsent", numbered but before  *)
(* its first byte, or "torn", inside its frame.  Behind half a frame the   *)
(* remote server recognises no envelope any more.                          *)

Ends == {"done", "early", "unsent", "torn"}

\* `whole` are the envelopes written to their last byte.
PipeGets(whole, end) ==
    /\ toRemote' = IF torn THEN toRemote ELSE toRemote \o whole
    /\ torn' = (torn \/ end = "torn")

Outgoing(ack, kind, re, keep) ==
    [id |-> nextId, ack |-> ack, kind |-> kind, re |-> re, keep |-> keep]

WriteNothing(kept) ==
    /\ buffered' = kept
    /\ UNCHANGED <<nextId, toRemote, torn, written>>

WriteBuffered(kept, ack, kind, re, end) ==
    LET e == Outgoing(ack, kind, re, TRUE)
    IN  \/ /\ end = "early"
           /\ WriteNothing(kept)
        \/ /\ end # "early"
           /\ nextId' = nextId + 1
           /\ buffered' = Append(kept, e)
           /\ written' = written \cup {e}
           /\ PipeGets(IF end = "done" THEN <<e>> ELSE <<>>, end)

\* send_special_ack, after the envelopes of `replay`
WriteSpecialAck(kept, replay, ack, re, end) ==
    LET e == Outgoing(ack, "Ack", re, FALSE)
    IN  /\ buffered' = kept
        /\ \/ /\ end \in {"early", "torn"}
              /\ \E n \in 0..Len(replay) :
                    /\ end = "torn" => n < Len(replay)
                    /\ PipeGets(SubSeq(replay, 1, n), end)
              /\ UNCHANGED <<nextId, written>>
           \/ /\ end # "early"
              /\ nextId' = nextId + 1
              /\ written' = written \cup {e}
              /\ PipeGets(IF end = "done" THEN Append(replay, e) ELSE replay, end)

-----------------------------------------------------------------------------
(* Reading (read_envelope): the ack_id pops the front of the buffer while  *)
(* its id is not larger; max_received takes the id of a tracked envelope.  *)

Tracked(m) == m.kind \notin {"Flush", "RemoteStarted"}      \* should_track_received

\* Mutant: the envelope the ack_id names stays
RetiresBelow(k, ack) ==
    /\ \A j \in 1..k : buffered[j].id < ack
    /\ k < Len(buffered) => buffered[k + 1].id >= ack

Retires(k, ack) ==
    /\ \A j \in 1..k : buffered[j].id <= ack
    /\ k < Len(buffered) => buffered[k + 1].id > ack

Kept(k) == SubSeq(buffered, k + 1, Len(buffered))

\* Mutant: the id expected next, not the last one read
ExpectedAfter(m) == IF Tracked(m) THEN m.id + 1 ELSE maxReceived

ReceivedBy(m) == IF Tracked(m) THEN m.id ELSE maxReceived

Read(m, k) ==
    /\ framed
    /\ toClient # <<>> /\ m = Head(toClient)
    /\ toClient' = Tail(toClient)
    /\ Retires(k, m.ack)
    /\ maxReceived' = ReceivedBy(m)
    /\ acked' = Larger(acked, m.ack)
    /\ UNCHANGED <<framed, calls, remoteVars>>

\* Mutant: the test the wrong way round
AckResponses(m, k, end) ==
    IF m.re # None THEN WriteBuffered(Kept(k), ReceivedBy(m), "Ack", m.id, end)
                   ELSE end = "done" /\ WriteNothing(Kept(k))

AckIfNeeded(m, k, end) ==
    IF m.re = None THEN WriteBuffered(Kept(k), ReceivedBy(m), "Ack", m.id, end)
                   ELSE end = "done" /\ WriteNothing(Kept(k))

\* Mutant: the flush is only acknowledged
AckWithoutReplay(m, k, end) == WriteSpecialAck(Kept(k), <<>>, ReceivedBy(m), m.id, end)

\* FlushBufferedMessages: replay_buffered_messages, then the special ack
ReplayAndAck(m, k, end) == WriteSpecialAck(Kept(k), Kept(k), ReceivedBy(m), m.id, end)

\* The worktree id is handed out before the response is written; a call dropped
\* early may not have come that far.
HandleUnsolicited(m, k, end) ==
    \/ /\ m.kind = "Alloc"
       /\ \/ nextWorktree' = nextWorktree + 1
          \/ end = "early" /\ UNCHANGED nextWorktree
       /\ WriteBuffered(Kept(k), ReceivedBy(m), "AllocResponse", m.id, end)
    \/ /\ m.kind = "Ping"
       /\ WriteBuffered(Kept(k), ReceivedBy(m), "Ack", m.id, end)
       /\ UNCHANGED nextWorktree
    \/ /\ m.kind = "Flush"
       /\ ReplayAndAck(m, k, end)
       /\ UNCHANGED nextWorktree
    \/ /\ m.kind \notin {"Alloc", "Ping", "Flush"}
       /\ AckIfNeeded(m, k, end)
       /\ UNCHANGED nextWorktree

-----------------------------------------------------------------------------
(* The calls                                                               *)

Return ==
    /\ pc' = "idle" /\ want' = None /\ opening' = FALSE /\ timed' = FALSE
    /\ buffer' = NoBuffer /\ hasState' = FALSE

\* tokio::time::timeout dropped the call while it answered m
Dropped(m) ==
    /\ timed
    /\ Return
    /\ dropped' = dropped \cup {m.id}

\* initialize: send RemoteStarted, then read
Start ==
    /\ pc = "new"
    /\ pc' = "init"
    /\ WriteBuffered(buffered, maxReceived, "RemoteStarted", None, "done")
    /\ UNCHANGED <<nextWorktree, maxReceived, cached, framed, dropped, want, opening,
                   timed, buffer, hasState, calls, toClient, remoteVars, acked>>

InitRead(m, k) ==
    /\ pc = "init"
    /\ Read(m, k)
    /\ UNCHANGED <<cached, dropped>>
    /\ \/ /\ m.kind = "Ack"
          /\ WriteNothing(Kept(k))
          /\ UNCHANGED <<nextWorktree, callVars>>
       \/ /\ m.kind = "RemoteStarted"
          /\ WriteSpecialAck(Kept(k), <<>>, ReceivedBy(m), m.id, "done")
          /\ Return
          /\ UNCHANGED nextWorktree
       \/ /\ m.kind \notin {"Ack", "RemoteStarted"}
          /\ HandleUnsolicited(m, k, "done")
          /\ UNCHANGED callVars

\* The first half of request.  `t`: read_file, open_buffer and save_file run
\* under a timeout, add_worktree, save_buffer and sync_buffers do not.
Call(isOpen, t, end) ==
    /\ pc = "idle"
    /\ calls < MaxCalls /\ calls + rSpoken < MaxEvents
    /\ calls' = calls + 1
    /\ WriteBuffered(buffered, maxReceived, IF isOpen THEN "Open" ELSE "Call", None, end)
    /\ \/ /\ end = "done"
          /\ pc' = "await" /\ want' = nextId /\ opening' = isOpen /\ timed' = t
          /\ UNCHANGED <<buffer, hasState>>
       \/ /\ end # "done" /\ t
          /\ UNCHANGED callVars
    /\ UNCHANGED <<nextWorktree, maxReceived, cached, framed, dropped, toClient,
                   remoteVars, acked>>

\* Mutant: an error is not taken for the response
AnswersWell(m) == m.re = want /\ m.kind # "Error"

AnswersCall(m) == m.re = want

\* The second half of request, and what open_buffer_by_path does with the response
AwaitRead(m, k, end) ==
    /\ pc = "await"
    /\ Read(m, k)
    /\ UNCHANGED cached
    /\ \/ /\ AnswersCall(m) /\ end = "done"
          /\ WriteNothing(Kept(k))
          /\ IF opening /\ m.kind # "Error" /\ m.buf \notin cached
             THEN /\ pc' = "chunks" /\ buffer' = m.buf
                  /\ UNCHANGED <<want, opening, timed, hasState>>
             ELSE Return
          /\ UNCHANGED <<nextWorktree, dropped>>
       \/ /\ ~AnswersCall(m)
          /\ HandleUnsolicited(m, k, end)
          /\ \/ end = "done" /\ UNCHANGED <<callVars, dropped>>
             \/ end # "done" /\ Dropped(m)

\* Mutant: the chunk is matched with the request, which it does not name
LastChunkOfCall(m) == m.kind = "Chunk" /\ m.re = want

LastChunk(m) == m.kind = "Chunk" /\ m.buf = buffer

\* The loop of open_buffer_by_path.  Flush and Alloc get a plain Ack here, any
\* Error ends the call, and a last chunk before its State ends it without an ack.
\* A timeout after the ack of the last chunk finds the lock of cache_opened_buffer.
ChunkRead(m, k, end) ==
    /\ pc = "chunks"
    /\ Read(m, k)
    /\ UNCHANGED nextWorktree
    /\ \/ /\ m.kind = "State" /\ end = "done"
          /\ hasState' = (hasState \/ m.buf = buffer)
          /\ WriteBuffered(Kept(k), ReceivedBy(m), "Ack", m.id, end)
          /\ UNCHANGED <<cached, pc, want, opening, timed, buffer, dropped>>
       \/ /\ LastChunk(m) /\ hasState /\ end = "done"
          /\ WriteBuffered(Kept(k), ReceivedBy(m), "Ack", m.id, end)
          /\ \/ cached' = cached \cup {buffer}
             \/ timed /\ UNCHANGED cached
          /\ Return
          /\ UNCHANGED dropped
       \/ /\ (LastChunk(m) /\ ~hasState) \/ m.kind = "Error"
          /\ end = "done"
          /\ WriteNothing(Kept(k))
          /\ Return
          /\ UNCHANGED <<cached, dropped>>
       \/ /\ m.kind \notin {"State", "Error"}
          /\ ~LastChunk(m) /\ end = "done"
          /\ IF m.kind = "Chunk"
             THEN WriteBuffered(Kept(k), ReceivedBy(m), "Ack", m.id, end)
             ELSE AckIfNeeded(m, k, end)
          /\ UNCHANGED <<cached, callVars, dropped>>
       \/ /\ m.re = None /\ ~(LastChunk(m) /\ ~hasState)
          /\ end # "done"
          /\ WriteBuffered(Kept(k), ReceivedBy(m), "Ack", m.id, end)
          /\ Dropped(m)
          /\ UNCHANGED cached

\* The timeout drops a timed call between two reads or in one.  read_exact is not
\* cancel safe: dropped while an envelope is arriving it may have consumed part
\* of it, and the next read starts in the middle of a frame.
Abandon(cut) ==
    /\ pc \in {"await", "chunks"} /\ timed
    /\ cut => toClient # <<>>
    /\ framed' = (framed /\ ~cut)
    /\ Return
    /\ UNCHANGED <<nextId, nextWorktree, maxReceived, buffered, cached, torn, dropped,
                   calls, toRemote, toClient, remoteVars, written, acked>>

\* Out of frame, a read may end in a decode error and the call with it; it may as
\* well wait for as many bytes as the misread length says.
ReadGarbage ==
    /\ pc \in {"await", "chunks"} /\ ~framed
    /\ toClient # <<>>
    /\ Return
    /\ UNCHANGED <<nextId, nextWorktree, maxReceived, buffered, cached, framed, torn,
                   dropped, calls, toRemote, toClient, remoteVars, written, acked>>

-----------------------------------------------------------------------------
(* The remote server (external)                                            *)

Incoming(i, ack, kind, re, buf) ==
    [id |-> i, ack |-> ack, kind |-> kind, re |-> re, buf |-> buf]

RemoteSend(ack, kind, re, buf) ==
    /\ toClient' = Append(toClient, Incoming(rNext, ack, kind, re, buf))
    /\ rNext' = rNext + 1
    /\ rAcked' = Larger(rAcked, ack)
    /\ asked' = IF re = None THEN asked \cup {[id |-> rNext, kind |-> kind]} ELSE asked

RemoteRead ==
    /\ toRemote # <<>>
    /\ LET e == Head(toRemote)
       IN  /\ rMax' = e.id
           /\ rOwed' = IF e.kind \in {"RemoteStarted", "Call", "Open"}
                       THEN rOwed \cup {[re |-> e.id, kind |-> e.kind]} ELSE rOwed
           /\ flush' = IF flush.id # None /\ e.re = flush.id
                       THEN [id |-> None, floor |-> 0, since |-> {}]
                       ELSE IF flush.id # None
                       THEN [flush EXCEPT !.since = @ \cup {e.id}] ELSE flush
    /\ toRemote' = Tail(toRemote)
    /\ UNCHANGED <<clientVars, calls, toClient, rNext, rShared, rStream, rSpoken,
                   rAcked, asked, written, acked>>

\* RemoteStarted is acked and announced back; a request gets a response or an error
RemoteAnswer(o) ==
    /\ o \in rOwed
    /\ rOwed' = rOwed \ {o}
    /\ \/ /\ o.kind = "RemoteStarted"
          /\ toClient' = toClient \o <<Incoming(rNext, rMax, "Ack", o.re, NoBuffer),
                                       Incoming(rNext + 1, rMax, "RemoteStarted", None, NoBuffer)>>
          /\ rNext' = rNext + 2
          /\ rAcked' = Larger(rAcked, rMax)
          /\ asked' = asked \cup {[id |-> rNext + 1, kind |-> "RemoteStarted"]}
          /\ UNCHANGED <<rShared, rStream>>
       \/ /\ o.kind \in {"Call", "Open"}
          /\ RemoteSend(rMax, "Error", o.re, NoBuffer)
          /\ UNCHANGED <<rShared, rStream>>
       \/ /\ o.kind = "Call"
          /\ RemoteSend(rMax, "Response", o.re, NoBuffer)
          /\ UNCHANGED <<rShared, rStream>>
       \/ /\ o.kind = "Open"
          /\ \E b \in Buffers :
                /\ RemoteSend(rMax, "Response", o.re, b)
                /\ rShared' = rShared \cup {b}
                /\ rStream' = IF b \in rShared THEN rStream
                              ELSE rStream \o <<[kind |-> "State", buf |-> b],
                                                [kind |-> "Chunk", buf |-> b]>>
    /\ UNCHANGED <<clientVars, calls, toRemote, rMax, rSpoken, flush, written, acked>>

RemoteStream ==
    /\ rStream # <<>>
    /\ RemoteSend(rMax, Head(rStream).kind, None, Head(rStream).buf)
    /\ rStream' = Tail(rStream)
    /\ UNCHANGED <<clientVars, calls, toRemote, rMax, rOwed, rShared, rSpoken, flush,
                   written, acked>>

\* Once the client has started: pings, worktree id requests, notifications, and
\* one flush at a time.  They may carry no ack_id: a flush then asks again for what
\* has been read.
RemoteSpeak(kind, ack) ==
    /\ rMax # 0
    /\ rSpoken < MaxSpoken /\ calls + rSpoken < MaxEvents
    /\ rSpoken' = rSpoken + 1
    /\ RemoteSend(ack, kind, None, NoBuffer)
    /\ \/ /\ kind # "Flush"
          /\ UNCHANGED flush
       \/ /\ kind = "Flush" /\ flush.id = None
          /\ flush' = [id |-> rNext, floor |-> Larger(rAcked, ack), since |-> {}]
    /\ UNCHANGED <<clientVars, calls, toRemote, rMax, rOwed, rShared, rStream,
                   written, acked>>

-----------------------------------------------------------------------------
ClientRead ==
    \E k \in 0..Len(buffered) :
        /\ toClient # <<>>
        /\ \/ InitRead(Head(toClient), k)
           \/ \E end \in Ends : AwaitRead(Head(toClient), k, end)
           \/ \E end \in Ends : ChunkRead(Head(toClient), k, end)

ClientStep ==
    \/ Start
    \/ ClientRead
    \/ \E isOpen \in BOOLEAN, t \in BOOLEAN, end \in Ends : Call(isOpen, t, end)
    \/ \E cut \in BOOLEAN : Abandon(cut)
    \/ ReadGarbage

RemoteStep ==
    \/ RemoteRead
    \/ \E o \in rOwed : RemoteAnswer(o)
    \/ RemoteStream
    \/ \E kind \in {"Ping", "Alloc", "Other", "Flush"}, ack \in {None, rMax} :
          RemoteSpeak(kind, ack)

Next == ClientStep \/ RemoteStep

Spec == Init /\ [][Next]_vars

\* A timer of 8 s fires in the end over a call that cannot settle otherwise.
TimerFires == (torn \/ ~framed) /\ Abandon(FALSE)

\* The pipes deliver, the gateway task is scheduled, the remote server answers.
\* Callers, unsolicited traffic and timeouts of calls in progress are not fair.
Fairness ==
    /\ WF_vars(ClientRead) /\ WF_vars(TimerFires)
    /\ WF_vars(RemoteRead) /\ WF_vars(\E o \in rOwed : RemoteAnswer(o))
    /\ WF_vars(RemoteStream)

FairSpec == Spec /\ Fairness

-----------------------------------------------------------------------------
(* Properties                                                              *)

Elements(s) == {s[i] : i \in DOMAIN s}

\* The replay buffer holds, oldest first, exactly the kept envelopes whose id is
\* above every ack_id read so far, whatever order calls, timeouts and replays
\* came in (write_buffered_envelope, read_envelope).
Sorted == \A i, j \in 1..Len(buffered) : i < j => buffered[i].id < buffered[j].id
UnackedKept ==
    /\ Sorted
    /\ Elements(buffered) = {e \in written : e.keep /\ e.id > acked}

\* The gateway never acknowledges what it has not read: every ack_id it stamped,
\* and the one it will stamp next, is below the id of every envelope still in its
\* input (should_track_received, assign_outgoing_metadata).
AckSound ==
    \A i \in 1..Len(toClient) :
        /\ maxReceived < toClient[i].id
        /\ \A e \in written : e.ack < toClient[i].id

\* Every envelope the remote server sent that is no response gets exactly one
\* reply once it is read, and none before, whichever loop reads it and whatever
\* calls were dropped meanwhile.  Two kinds may go without: a last chunk whose State
\* an abandoned call read, which ends the next open of that buffer, and what a call
\* was answering when it was dropped: at most one envelope for each call made.
AnsweredOnce ==
    /\ \A q \in asked :
          LET replies == Cardinality({e \in written : e.re = q.id})
              unread  == \E i \in DOMAIN toClient : toClient[i].id = q.id
          IN  \/ unread /\ replies = 0 /\ q.id \notin dropped
              \/ ~unread /\ replies = 1
              \/ ~unread /\ replies = 0 /\ (q.kind = "Chunk" \/ q.id \in dropped)
    /\ Cardinality(dropped) <= calls

\* When the special ack of a flush reaches the remote server, every kept envelope
\* written before that ack and not acknowledged before the flush was sent has
\* arrived again, or for the first time, since the flush (replay precedes ack).
FlushRecovers ==
    (toRemote # <<>> /\ flush.id # None /\ Head(toRemote).re = flush.id
        /\ ~Head(toRemote).keep)
    => \A e \in written :
          (e.keep /\ flush.floor < e.id /\ e.id < Head(toRemote).id) => e.id \in flush.since

\* A call that awaits its response settles: it is recognised among pings, flushes and
\* answers to abandoned calls (request).  After a dropped call left half a frame in
\* either pipe only calls with a timeout do: an untimed one may hold zed_client until
\* the session is reconnected.
Stuck == ~timed /\ (torn \/ ~framed)
AwaitSettles == (pc = "await") ~> (pc # "await" \/ Stuck)

\* An open whose last chunk the remote server still has to send, or has sent and the
\* client not yet read, settles, whatever is read in between (the loop of
\* open_buffer_by_path).  Without the proviso it may wait forever: a buffer id the
\* remote server shared before is not streamed again; and so may one without a timeout
\* that reads out of frame.
ChunkDue ==
    \/ \E i \in DOMAIN rStream : rStream[i].kind = "Chunk" /\ rStream[i].buf = buffer
    \/ \E i \in DOMAIN toClient : toClient[i].kind = "Chunk" /\ toClient[i].buf = buffer
OpenSettles == (pc = "chunks" /\ ChunkDue) ~> (pc # "chunks" \/ (~timed /\ ~framed))
=============================================================================
