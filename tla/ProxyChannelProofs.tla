-------------------------- MODULE ProxyChannelProofs --------------------------
(***************************************************************************)
(* Proofs about ProxyChannel, for any number of calls and envelopes: its   *)
(* types, the replay buffer (UnackedKept), the soundness of the            *)
(* acknowledgements it stamps (AckSound), its replies (AnsweredOnce) and   *)
(* what a flush brings back (FlushRecovers).                               *)
(***************************************************************************)
EXTENDS ProxyChannel, FiniteSetTheorems, TLAPS

\* Two elements more, one element less: still a sequence over the same set.
LEMMA TwoMore ==
    ASSUME NEW S, NEW s \in Seq(S), NEW a \in S, NEW b \in S
    PROVE  s \o <<a, b>> \in Seq(S)
  OBVIOUS

LEMMA HeadAndTail ==
    ASSUME NEW S, NEW s \in Seq(S), s # <<>>
    PROVE  Head(s) \in S /\ Tail(s) \in Seq(S)
  OBVIOUS

\* What is left of the buffer after popping k envelopes is a sequence of envelopes.
LEMMA KeptType ==
    ASSUME TypeOK, NEW k \in 0..Len(buffered)
    PROVE  /\ Kept(k) \in Seq(ClientEnvelope)
           /\ Len(Kept(k)) = Len(buffered) - k
           /\ \A i \in 1..Len(Kept(k)) : Kept(k)[i] = buffered[i + k]
  BY DEF Kept, TypeOK

\* An outgoing envelope is a client envelope.
LEMMA OutgoingType ==
    ASSUME nextId \in Nat \ {0}, NEW ack \in Nat, NEW kind \in ClientKinds, NEW re \in Nat,
           NEW keep \in BOOLEAN
    PROVE  Outgoing(ack, kind, re, keep) \in ClientEnvelope
  BY DEF Outgoing, ClientEnvelope

\* The part of the type invariant the writing operators change.
WriteType ==
    /\ nextId \in Nat \ {0}
    /\ buffered \in Seq(ClientEnvelope)
    /\ toRemote \in Seq(ClientEnvelope)
    /\ torn \in BOOLEAN
    /\ written \subseteq ClientEnvelope

LEMMA PipeType ==
    ASSUME TypeOK, NEW whole \in Seq(ClientEnvelope), NEW end, PipeGets(whole, end)
    PROVE  toRemote' \in Seq(ClientEnvelope) /\ torn' \in BOOLEAN
  BY DEF PipeGets, TypeOK

LEMMA WriteNothingType ==
    ASSUME TypeOK, NEW kept \in Seq(ClientEnvelope), WriteNothing(kept)
    PROVE  WriteType'
  BY DEF WriteNothing, WriteType, TypeOK

LEMMA WriteBufferedType ==
    ASSUME TypeOK, NEW kept \in Seq(ClientEnvelope), NEW ack \in Nat,
           NEW kind \in ClientKinds, NEW re \in Nat, NEW end,
           WriteBuffered(kept, ack, kind, re, end)
    PROVE  WriteType'
  <1> DEFINE e == Outgoing(ack, kind, re, TRUE)
             whole == IF end = "done" THEN <<e>> ELSE <<>>
  <1>1. WriteType /\ nextId \in Nat \ {0}
    BY DEF WriteType, TypeOK
  <1>2. e \in ClientEnvelope
    BY <1>1, OutgoingType
  <1>3. CASE WriteNothing(kept)
    BY <1>3, WriteNothingType
  <1>4. CASE /\ nextId' = nextId + 1 /\ buffered' = Append(kept, e)
             /\ written' = written \cup {e} /\ PipeGets(whole, end)
    <2> HIDE DEF e
    <2>1. whole \in Seq(ClientEnvelope)
      BY <1>2
    <2> HIDE DEF whole
    <2>2. toRemote' \in Seq(ClientEnvelope) /\ torn' \in BOOLEAN
      BY <1>4, <2>1, PipeType
    <2> QED BY <1>1, <1>2, <1>4, <2>2 DEF WriteType
  <1> QED BY <1>3, <1>4 DEF WriteBuffered

LEMMA WriteSpecialAckType ==
    ASSUME TypeOK, NEW kept \in Seq(ClientEnvelope), NEW replay \in Seq(ClientEnvelope),
           NEW ack \in Nat, NEW re \in Nat, NEW end,
           WriteSpecialAck(kept, replay, ack, re, end)
    PROVE  WriteType'
  <1> DEFINE e == Outgoing(ack, "Ack", re, FALSE)
             whole == IF end = "done" THEN Append(replay, e) ELSE replay
  <1>1. WriteType /\ nextId \in Nat \ {0} /\ buffered' = kept
    BY DEF WriteType, TypeOK, WriteSpecialAck
  <1>2. e \in ClientEnvelope
    BY <1>1, OutgoingType DEF ClientKinds
  <1>3. ASSUME NEW n \in 0..Len(replay), PipeGets(SubSeq(replay, 1, n), end),
               UNCHANGED <<nextId, written>>
        PROVE  WriteType'
    <2>1. SubSeq(replay, 1, n) \in Seq(ClientEnvelope)
      OBVIOUS
    <2>2. toRemote' \in Seq(ClientEnvelope) /\ torn' \in BOOLEAN
      BY <1>3, <2>1, PipeType
    <2> QED BY <1>1, <1>3, <2>2 DEF WriteType
  <1>4. CASE nextId' = nextId + 1 /\ written' = written \cup {e} /\ PipeGets(whole, end)
    <2> HIDE DEF e
    <2>1. whole \in Seq(ClientEnvelope)
      BY <1>2
    <2> HIDE DEF whole
    <2>2. toRemote' \in Seq(ClientEnvelope) /\ torn' \in BOOLEAN
      BY <1>4, <2>1, PipeType
    <2> QED BY <1>1, <1>2, <1>4, <2>2 DEF WriteType
  <1> QED BY <1>3, <1>4 DEF WriteSpecialAck

\* What a read leaves, and what it took.
LEMMA ReadType ==
    ASSUME TypeOK, NEW k \in 0..Len(buffered), NEW m, Read(m, k)
    PROVE  /\ m \in RemoteEnvelope
           /\ toClient' \in Seq(RemoteEnvelope)
           /\ ReceivedBy(m) \in Nat /\ maxReceived' = ReceivedBy(m)
           /\ acked' \in Nat
           /\ Kept(k) \in Seq(ClientEnvelope)
           /\ UNCHANGED <<framed, calls, remoteVars>>
  <1>1. m \in RemoteEnvelope /\ toClient' \in Seq(RemoteEnvelope)
    BY DEF Read, TypeOK
  <1>2. m.id \in Nat /\ m.ack \in Nat
    BY <1>1 DEF RemoteEnvelope
  <1> QED BY <1>1, <1>2, KeptType DEF Read, ReceivedBy, Larger, TypeOK

LEMMA UnsolicitedType ==
    ASSUME TypeOK, NEW k \in 0..Len(buffered), NEW m, NEW end, Read(m, k),
           HandleUnsolicited(m, k, end)
    PROVE  WriteType' /\ nextWorktree' \in Nat \ {0}
  <1>1. m \in RemoteEnvelope /\ ReceivedBy(m) \in Nat /\ Kept(k) \in Seq(ClientEnvelope)
    BY ReadType
  <1>2. m.id \in Nat
    BY <1>1 DEF RemoteEnvelope
  <1>3. nextWorktree \in Nat \ {0}
    BY DEF TypeOK
  <1>4. "Ack" \in ClientKinds /\ "AllocResponse" \in ClientKinds
    BY DEF ClientKinds
  <1>5. CASE m.kind = "Alloc"
    BY <1>1, <1>2, <1>3, <1>4, <1>5, WriteBufferedType DEF HandleUnsolicited
  <1>6. CASE m.kind = "Ping"
    BY <1>1, <1>2, <1>3, <1>4, <1>6, WriteBufferedType DEF HandleUnsolicited
  <1>7. CASE m.kind = "Flush"
    BY <1>1, <1>2, <1>3, <1>7, WriteSpecialAckType DEF HandleUnsolicited, ReplayAndAck
  <1>8. CASE m.kind \notin {"Alloc", "Ping", "Flush"}
    <2>1. AckIfNeeded(m, k, end) /\ nextWorktree' = nextWorktree
      BY <1>8 DEF HandleUnsolicited
    <2>2. WriteType'
      BY <2>1, <1>1, <1>2, <1>4, WriteBufferedType, WriteNothingType DEF AckIfNeeded
    <2> QED BY <2>1, <2>2, <1>3
  <1> QED BY <1>5, <1>6, <1>7, <1>8

\* The part of the type invariant that belongs to the running call, and to the
\* remote server.
CallType ==
    /\ pc \in {"new", "init", "idle", "await", "chunks"}
    /\ want \in Nat /\ opening \in BOOLEAN /\ timed \in BOOLEAN
    /\ buffer \in BufferIds /\ hasState \in BOOLEAN

RemoteType ==
    /\ toClient \in Seq(RemoteEnvelope)
    /\ rNext \in Nat \ {0} /\ rMax \in Nat
    /\ rOwed \subseteq [re: Nat, kind: {"RemoteStarted", "Call", "Open"}]
    /\ rShared \subseteq Buffers
    /\ rStream \in Seq(StreamPiece)
    /\ calls \in Nat /\ rSpoken \in Nat
    /\ flush \in [id: Nat, floor: Nat, since: SUBSET Nat]
    /\ rAcked \in Nat
    /\ asked \subseteq [id: Nat, kind: RemoteKinds]

OtherType ==
    /\ nextWorktree \in Nat \ {0} /\ maxReceived \in Nat /\ cached \subseteq BufferIds
    /\ framed \in BOOLEAN /\ dropped \subseteq Nat /\ acked \in Nat

LEMMA TypeParts == TypeOK <=> WriteType /\ CallType /\ RemoteType /\ OtherType
  BY DEF TypeOK, WriteType, CallType, RemoteType, OtherType

LEMMA TypePartsNext == WriteType' /\ CallType' /\ RemoteType' /\ OtherType' => TypeOK'
  BY DEF TypeOK, WriteType, CallType, RemoteType, OtherType

LEMMA ReturnType == ASSUME Return PROVE CallType'
  <1>1. pc' = "idle" /\ want' = 0 /\ opening' = FALSE /\ timed' = FALSE
    BY DEF Return, None
  <1>2. buffer' = NoBuffer /\ hasState' = FALSE
    BY DEF Return
  <1> QED BY <1>1, <1>2 DEF CallType, BufferIds

LEMMA DroppedType ==
    ASSUME TypeOK, NEW m, m.id \in Nat, Dropped(m)
    PROVE  CallType' /\ dropped' \subseteq Nat
  BY ReturnType DEF Dropped, TypeOK

LEMMA CallUnchanged == CallType /\ UNCHANGED callVars => CallType'
  BY DEF CallType, callVars

LEMMA RemoteUnchanged ==
    RemoteType /\ UNCHANGED <<remoteVars, calls, toClient>> => RemoteType'
  BY DEF RemoteType, remoteVars

\* A read step keeps everything but what its loop writes.
LEMMA ReadParts ==
    ASSUME TypeOK, NEW k \in 0..Len(buffered), NEW m, Read(m, k)
    PROVE  /\ RemoteType'
           /\ maxReceived' \in Nat /\ framed' \in BOOLEAN /\ acked' \in Nat
  <1>1. /\ toClient' \in Seq(RemoteEnvelope) /\ maxReceived' \in Nat /\ acked' \in Nat
        /\ UNCHANGED <<framed, calls, remoteVars>>
    BY ReadType
  <1>2. framed' \in BOOLEAN
    BY <1>1 DEF TypeOK
  <1>3. RemoteType'
    BY <1>1, TypeParts DEF RemoteType, remoteVars
  <1> QED BY <1>1, <1>2, <1>3

LEMMA InitReadType ==
    ASSUME TypeOK, NEW k \in 0..Len(buffered), NEW m, InitRead(m, k)
    PROVE  TypeOK'
  <1>1. Read(m, k) /\ UNCHANGED <<cached, dropped>>
    BY DEF InitRead
  <1>2. /\ m \in RemoteEnvelope /\ ReceivedBy(m) \in Nat /\ Kept(k) \in Seq(ClientEnvelope)
        /\ m.id \in Nat
    BY <1>1, ReadType DEF RemoteEnvelope
  <1>3. /\ nextWorktree \in Nat \ {0} /\ cached' \subseteq BufferIds /\ CallType
        /\ dropped' \subseteq Nat
    BY <1>1, TypeParts DEF OtherType
  <1>4. WriteType' /\ CallType' /\ nextWorktree' \in Nat \ {0}
    <2>1. CASE m.kind = "Ack"
      <3>1. WriteNothing(Kept(k)) /\ UNCHANGED <<nextWorktree, callVars>>
        BY <2>1 DEF InitRead
      <3> QED BY <3>1, <1>2, <1>3, WriteNothingType, CallUnchanged
    <2>2. CASE m.kind = "RemoteStarted"
      <3>1. /\ WriteSpecialAck(Kept(k), <<>>, ReceivedBy(m), m.id, "done")
            /\ Return /\ UNCHANGED nextWorktree
        BY <2>2 DEF InitRead
      <3>2. <<>> \in Seq(ClientEnvelope)
        OBVIOUS
      <3> QED BY <3>1, <3>2, <1>2, <1>3, WriteSpecialAckType, ReturnType
    <2>3. CASE m.kind \notin {"Ack", "RemoteStarted"}
      <3>1. HandleUnsolicited(m, k, "done") /\ UNCHANGED callVars
        BY <2>3 DEF InitRead
      <3> QED BY <3>1, <1>1, <1>3, UnsolicitedType, CallUnchanged
    <2> QED BY <2>1, <2>2, <2>3
  <1> QED BY <1>1, <1>3, <1>4, ReadParts, TypePartsNext DEF OtherType

LEMMA AwaitReadType ==
    ASSUME TypeOK, NEW k \in 0..Len(buffered), NEW m, NEW end, AwaitRead(m, k, end)
    PROVE  TypeOK'
  <1>1. Read(m, k) /\ UNCHANGED cached
    BY DEF AwaitRead
  <1>2. /\ m \in RemoteEnvelope /\ ReceivedBy(m) \in Nat /\ Kept(k) \in Seq(ClientEnvelope)
        /\ m.id \in Nat /\ m.buf \in BufferIds
    BY <1>1, ReadType DEF RemoteEnvelope
  <1>3. /\ nextWorktree \in Nat \ {0} /\ cached' \subseteq BufferIds /\ CallType
        /\ dropped \subseteq Nat
    BY <1>1, TypeParts DEF OtherType
  <1>4. WriteType' /\ CallType' /\ dropped' \subseteq Nat /\ nextWorktree' \in Nat \ {0}
    <2>1. CASE AnswersCall(m)
      <3>1. WriteNothing(Kept(k)) /\ UNCHANGED <<nextWorktree, dropped>>
        BY <2>1 DEF AwaitRead
      <3>2. \/ Return
            \/ /\ pc' = "chunks" /\ buffer' = m.buf
               /\ UNCHANGED <<want, opening, timed, hasState>>
        BY <2>1 DEF AwaitRead
      <3>3. CallType'
        BY <3>2, <1>2, <1>3, ReturnType DEF CallType
      <3> QED BY <3>1, <3>3, <1>2, <1>3, WriteNothingType
    <2>2. CASE ~AnswersCall(m)
      <3>1. /\ HandleUnsolicited(m, k, end)
            /\ UNCHANGED <<callVars, dropped>> \/ Dropped(m)
        BY <2>2 DEF AwaitRead
      <3>2. CallType' /\ dropped' \subseteq Nat
        BY <3>1, <1>2, <1>3, CallUnchanged, DroppedType
      <3> QED BY <3>1, <3>2, <1>1, <1>3, UnsolicitedType
    <2> QED BY <2>1, <2>2
  <1> QED BY <1>1, <1>3, <1>4, ReadParts, TypePartsNext DEF OtherType

LEMMA ChunkReadType ==
    ASSUME TypeOK, NEW k \in 0..Len(buffered), NEW m, NEW end, ChunkRead(m, k, end)
    PROVE  TypeOK'
  <1>1. Read(m, k) /\ UNCHANGED nextWorktree
    BY DEF ChunkRead
  <1>2. /\ m \in RemoteEnvelope /\ ReceivedBy(m) \in Nat /\ Kept(k) \in Seq(ClientEnvelope)
        /\ m.id \in Nat /\ m.buf \in BufferIds /\ "Ack" \in ClientKinds
    BY <1>1, ReadType DEF RemoteEnvelope, ClientKinds
  <1>3. /\ nextWorktree' \in Nat \ {0} /\ cached \subseteq BufferIds /\ CallType
        /\ dropped \subseteq Nat
    BY <1>1, TypeParts DEF OtherType
  <1>4. WriteType'
    <2>1. \/ WriteBuffered(Kept(k), ReceivedBy(m), "Ack", m.id, end)
          \/ WriteNothing(Kept(k))
      BY DEF ChunkRead, AckIfNeeded
    <2> QED BY <2>1, <1>2, WriteBufferedType, WriteNothingType
  <1>5. CallType' /\ dropped' \subseteq Nat
    <2>1. \/ (Return \/ UNCHANGED callVars) /\ UNCHANGED dropped
          \/ /\ hasState' = (hasState \/ m.buf = buffer)
             /\ UNCHANGED <<pc, want, opening, timed, buffer, dropped>>
          \/ Dropped(m)
      BY DEF ChunkRead
    <2> QED BY <2>1, <1>2, <1>3, ReturnType, CallUnchanged, DroppedType DEF CallType
  <1>6. cached' \subseteq BufferIds
    <2>1. UNCHANGED cached \/ cached' = cached \cup {buffer}
      BY DEF ChunkRead
    <2> QED BY <2>1, <1>3 DEF CallType
  <1> QED BY <1>1, <1>3, <1>4, <1>5, <1>6, ReadParts, TypePartsNext DEF OtherType

\* What the remote server's steps leave alone of the client, and the type of what
\* they send.
LEMMA ClientUnchanged ==
    ASSUME TypeOK, UNCHANGED <<clientVars, written, acked>>
    PROVE  /\ CallType' /\ OtherType'
           /\ nextId' \in Nat \ {0} /\ buffered' \in Seq(ClientEnvelope)
           /\ torn' \in BOOLEAN /\ written' \subseteq ClientEnvelope
  <1>1. CallType /\ OtherType /\ WriteType
    BY TypeParts
  <1>2. UNCHANGED <<nextId, nextWorktree, maxReceived, buffered, cached, framed, torn,
                    dropped, callVars, written, acked>>
    BY DEF clientVars
  <1> QED BY <1>1, <1>2, CallUnchanged DEF OtherType, WriteType

LEMMA IncomingType ==
    ASSUME NEW i \in Nat, NEW ack \in Nat, NEW kind \in RemoteKinds, NEW re \in Nat,
           NEW buf \in BufferIds
    PROVE  Incoming(i, ack, kind, re, buf) \in RemoteEnvelope
  BY DEF Incoming, RemoteEnvelope

LEMMA RemoteSendType ==
    ASSUME RemoteType, NEW ack \in Nat, NEW kind \in RemoteKinds, NEW re \in Nat,
           NEW buf \in BufferIds, RemoteSend(ack, kind, re, buf)
    PROVE  /\ toClient' \in Seq(RemoteEnvelope) /\ rNext' \in Nat \ {0} /\ rAcked' \in Nat
           /\ asked' \subseteq [id: Nat, kind: RemoteKinds]
  <1> DEFINE m == Incoming(rNext, ack, kind, re, buf)
  <1>1. rNext \in Nat \ {0} /\ rMax \in Nat /\ rAcked \in Nat
        /\ toClient \in Seq(RemoteEnvelope) /\ asked \subseteq [id: Nat, kind: RemoteKinds]
    BY DEF RemoteType
  <1>2. m \in RemoteEnvelope
    BY <1>1, IncomingType
  <1>3. /\ toClient' = Append(toClient, m) /\ rNext' = rNext + 1
        /\ rAcked' = Larger(rAcked, ack)
        /\ asked' = IF re = None THEN asked \cup {[id |-> rNext, kind |-> kind]} ELSE asked
    BY DEF RemoteSend
  <1>4. [id |-> rNext, kind |-> kind] \in [id: Nat, kind: RemoteKinds]
    BY <1>1
  <1> HIDE DEF m
  <1> QED BY <1>1, <1>2, <1>3, <1>4 DEF Larger

LEMMA RemoteReadType == ASSUME TypeOK, RemoteRead PROVE TypeOK'
  <1> DEFINE e == Head(toRemote)
  <1>1. toRemote # <<>> /\ toRemote' = Tail(toRemote)
        /\ UNCHANGED <<clientVars, written, acked>>
        /\ UNCHANGED <<calls, toClient, rNext, rShared, rStream, rSpoken, rAcked, asked>>
    BY DEF RemoteRead
  <1>2. toRemote \in Seq(ClientEnvelope) /\ RemoteType
    BY TypeParts DEF WriteType
  <1>3. e \in ClientEnvelope /\ toRemote' \in Seq(ClientEnvelope)
    BY <1>1, <1>2
  <1>4. e.id \in Nat
    BY <1>3 DEF ClientEnvelope
  <1>5. rMax' \in Nat
    BY <1>4 DEF RemoteRead
  <1>6. rOwed' \subseteq [re: Nat, kind: {"RemoteStarted", "Call", "Open"}]
    <2>1. rOwed' = rOwed \/ (e.kind \in {"RemoteStarted", "Call", "Open"}
                             /\ rOwed' = rOwed \cup {[re |-> e.id, kind |-> e.kind]})
      BY DEF RemoteRead
    <2> HIDE DEF e
    <2> QED BY <2>1, <1>2, <1>4 DEF RemoteType
  <1>7. flush' \in [id: Nat, floor: Nat, since: SUBSET Nat]
    <2>1. \/ flush' = [id |-> None, floor |-> 0, since |-> {}]
          \/ flush' = [flush EXCEPT !.since = @ \cup {e.id}]
          \/ flush' = flush
      BY DEF RemoteRead
    <2>2. flush \in [id: Nat, floor: Nat, since: SUBSET Nat]
      BY <1>2 DEF RemoteType
    <2> HIDE DEF e
    <2>3. [flush EXCEPT !.since = @ \cup {e.id}] \in [id: Nat, floor: Nat, since: SUBSET Nat]
      BY <2>2, <1>4
    <2> QED BY <2>1, <2>2, <2>3 DEF None
  <1>8. RemoteType'
    BY <1>1, <1>2, <1>5, <1>6, <1>7 DEF RemoteType
  <1> QED BY <1>1, <1>3, <1>8, ClientUnchanged, TypePartsNext DEF WriteType

LEMMA RemoteAnswerType == ASSUME TypeOK, NEW o \in rOwed, RemoteAnswer(o) PROVE TypeOK'
  <1>1. /\ UNCHANGED <<clientVars, calls, toRemote, rMax, rSpoken, flush, written, acked>>
        /\ rOwed' = rOwed \ {o}
    BY DEF RemoteAnswer
  <1>2. RemoteType /\ toRemote \in Seq(ClientEnvelope)
    BY TypeParts DEF WriteType
  <1>3. /\ rOwed' \subseteq [re: Nat, kind: {"RemoteStarted", "Call", "Open"}]
        /\ o.re \in Nat /\ rNext \in Nat \ {0} /\ rMax \in Nat /\ rAcked \in Nat
    BY <1>1, <1>2 DEF RemoteType
  <1>4. NoBuffer \in BufferIds /\ {"Ack", "RemoteStarted", "Response", "Error"} \subseteq RemoteKinds
        /\ Buffers \subseteq BufferIds
    BY DEF BufferIds, RemoteKinds
  <1>5. /\ toClient' \in Seq(RemoteEnvelope) /\ rNext' \in Nat \ {0} /\ rAcked' \in Nat
        /\ asked' \subseteq [id: Nat, kind: RemoteKinds]
        /\ rShared' \subseteq Buffers
        /\ rStream' \in Seq(StreamPiece)
    <2>0. rShared \subseteq Buffers /\ rStream \in Seq(StreamPiece)
      BY <1>2 DEF RemoteType
    <2>1. CASE o.kind = "RemoteStarted"
      <3> DEFINE a == Incoming(rNext, rMax, "Ack", o.re, NoBuffer)
                 b == Incoming(rNext + 1, rMax, "RemoteStarted", None, NoBuffer)
      <3>1. /\ toClient' = toClient \o <<a, b>> /\ rNext' = rNext + 2
            /\ rAcked' = Larger(rAcked, rMax)
            /\ asked' = asked \cup {[id |-> rNext + 1, kind |-> "RemoteStarted"]}
            /\ UNCHANGED <<rShared, rStream>>
        BY <2>1 DEF RemoteAnswer
      <3>2. a \in RemoteEnvelope
        BY <1>3, <1>4, IncomingType
      <3>3. b \in RemoteEnvelope
        BY <1>3, <1>4, IncomingType DEF None
      <3>4. [id |-> rNext + 1, kind |-> "RemoteStarted"] \in [id: Nat, kind: RemoteKinds]
        BY <1>3, <1>4
      <3> HIDE DEF a, b
      <3> QED BY <3>1, <3>2, <3>3, <3>4, <2>0, <1>2, <1>3 DEF RemoteType, Larger
    <2>2. CASE RemoteSend(rMax, "Error", o.re, NoBuffer) /\ UNCHANGED <<rShared, rStream>>
      BY <2>2, <2>0, <1>2, <1>3, <1>4, RemoteSendType
    <2>3. CASE RemoteSend(rMax, "Response", o.re, NoBuffer) /\ UNCHANGED <<rShared, rStream>>
      BY <2>3, <2>0, <1>2, <1>3, <1>4, RemoteSendType
    <2>4. CASE \E b \in Buffers :
                  /\ RemoteSend(rMax, "Response", o.re, b)
                  /\ rShared' = rShared \cup {b}
                  /\ rStream' = IF b \in rShared THEN rStream
                                ELSE rStream \o <<[kind |-> "State", buf |-> b],
                                                  [kind |-> "Chunk", buf |-> b]>>
      <3>1. PICK b \in Buffers :
                  /\ RemoteSend(rMax, "Response", o.re, b)
                  /\ rShared' = rShared \cup {b}
                  /\ rStream' = IF b \in rShared THEN rStream
                                ELSE rStream \o <<[kind |-> "State", buf |-> b],
                                                  [kind |-> "Chunk", buf |-> b]>>
        BY <2>4
      <3>2. /\ toClient' \in Seq(RemoteEnvelope) /\ rNext' \in Nat \ {0} /\ rAcked' \in Nat
            /\ asked' \subseteq [id: Nat, kind: RemoteKinds]
        BY <3>1, <1>2, <1>3, <1>4, RemoteSendType
      <3>3. rStream' \in Seq(StreamPiece)
        <4> DEFINE first == [kind |-> "State", buf |-> b]
                   last == [kind |-> "Chunk", buf |-> b]
        <4>1. first \in StreamPiece /\ last \in StreamPiece
          BY DEF StreamPiece
        <4>2. rStream' = rStream \/ rStream' = rStream \o <<first, last>>
          BY <3>1
        <4> HIDE DEF first, last
        <4> QED BY <4>1, <4>2, <2>0, TwoMore
      <3> QED BY <3>1, <3>2, <3>3, <2>0
    <2> QED BY <2>1, <2>2, <2>3, <2>4 DEF RemoteAnswer
  <1>6. RemoteType'
    BY <1>1, <1>2, <1>3, <1>5 DEF RemoteType
  <1> QED BY <1>1, <1>2, <1>6, ClientUnchanged, TypePartsNext DEF WriteType

LEMMA RemoteStreamType == ASSUME TypeOK, RemoteStream PROVE TypeOK'
  <1>1. /\ rStream # <<>> /\ rStream' = Tail(rStream)
        /\ RemoteSend(rMax, Head(rStream).kind, None, Head(rStream).buf)
        /\ UNCHANGED <<clientVars, calls, toRemote, rMax, rOwed, rShared, rSpoken, flush,
                       written, acked>>
    BY DEF RemoteStream
  <1>2. RemoteType /\ toRemote \in Seq(ClientEnvelope)
    BY TypeParts DEF WriteType
  <1>3. Head(rStream) \in StreamPiece /\ rStream' \in Seq(StreamPiece)
    BY <1>1, <1>2, HeadAndTail DEF RemoteType
  <1>4. /\ Head(rStream).kind \in RemoteKinds /\ Head(rStream).buf \in BufferIds
        /\ None \in Nat /\ rMax \in Nat
    BY <1>2, <1>3 DEF RemoteKinds, BufferIds, None, StreamPiece, RemoteType
  <1>5. /\ toClient' \in Seq(RemoteEnvelope) /\ rNext' \in Nat \ {0} /\ rAcked' \in Nat
        /\ asked' \subseteq [id: Nat, kind: RemoteKinds]
    BY <1>1, <1>2, <1>4, RemoteSendType
  <1>6. RemoteType'
    BY <1>1, <1>2, <1>3, <1>5 DEF RemoteType
  <1> QED BY <1>1, <1>2, <1>6, ClientUnchanged, TypePartsNext DEF WriteType

LEMMA RemoteSpeakType ==
    ASSUME TypeOK, NEW kind \in {"Ping", "Alloc", "Other", "Flush"}, NEW ack \in {None, rMax},
           RemoteSpeak(kind, ack)
    PROVE  TypeOK'
  <1>1. /\ RemoteSend(ack, kind, None, NoBuffer) /\ rSpoken' = rSpoken + 1
        /\ UNCHANGED <<clientVars, calls, toRemote, rMax, rOwed, rShared, rStream,
                       written, acked>>
    BY DEF RemoteSpeak
  <1>2. RemoteType /\ toRemote \in Seq(ClientEnvelope)
    BY TypeParts DEF WriteType
  <1>3. kind \in RemoteKinds /\ NoBuffer \in BufferIds /\ None \in Nat /\ ack \in Nat
    BY <1>2 DEF RemoteKinds, BufferIds, None, RemoteType
  <1>4. /\ toClient' \in Seq(RemoteEnvelope) /\ rNext' \in Nat \ {0} /\ rAcked' \in Nat
        /\ asked' \subseteq [id: Nat, kind: RemoteKinds]
    BY <1>1, <1>2, <1>3, RemoteSendType
  <1>5. flush' \in [id: Nat, floor: Nat, since: SUBSET Nat]
    <2>1. flush \in [id: Nat, floor: Nat, since: SUBSET Nat]
          /\ rNext \in Nat /\ Larger(rAcked, ack) \in Nat
      BY <1>2, <1>3 DEF RemoteType, Larger
    <2>2. \/ flush' = flush
          \/ flush' = [id |-> rNext, floor |-> Larger(rAcked, ack), since |-> {}]
      BY DEF RemoteSpeak
    <2>3. {} \in SUBSET Nat
      OBVIOUS
    <2> QED BY <2>1, <2>2, <2>3
  <1>6. RemoteType'
    BY <1>1, <1>2, <1>4, <1>5 DEF RemoteType
  <1> QED BY <1>1, <1>2, <1>6, ClientUnchanged, TypePartsNext DEF WriteType

\* The client's steps that read nothing.
LEMMA StartType == ASSUME TypeOK, Start PROVE TypeOK'
  <1>1. WriteBuffered(buffered, maxReceived, "RemoteStarted", None, "done")
    BY DEF Start
  <1>2. buffered \in Seq(ClientEnvelope) /\ maxReceived \in Nat /\ None \in Nat
        /\ "RemoteStarted" \in ClientKinds
    BY DEF TypeOK, None, ClientKinds
  <1>3. WriteType'
    BY <1>1, <1>2, WriteBufferedType
  <1>4. CallType'
    BY TypeParts DEF Start, CallType
  <1>5. RemoteType' /\ OtherType'
    BY TypeParts, RemoteUnchanged DEF Start, OtherType
  <1> QED BY <1>3, <1>4, <1>5, TypePartsNext

LEMMA CallStepType ==
    ASSUME TypeOK, NEW isOpen \in BOOLEAN, NEW t \in BOOLEAN, NEW end, Call(isOpen, t, end)
    PROVE  TypeOK'
  <1> DEFINE kind == IF isOpen THEN "Open" ELSE "Call"
  <1>1. WriteBuffered(buffered, maxReceived, kind, None, end)
    BY DEF Call
  <1>2. buffered \in Seq(ClientEnvelope) /\ maxReceived \in Nat /\ None \in Nat
        /\ kind \in ClientKinds /\ nextId \in Nat
    BY DEF TypeOK, None, ClientKinds
  <1> HIDE DEF kind
  <1>3. WriteType'
    BY <1>1, <1>2, WriteBufferedType
  <1>4. CallType'
    BY <1>2, TypeParts, CallUnchanged DEF Call, CallType
  <1>5. RemoteType' /\ OtherType'
    <2>1. calls' = calls + 1 /\ UNCHANGED <<remoteVars, toClient>>
      BY DEF Call
    <2>2. RemoteType' BY <2>1, TypeParts DEF RemoteType, remoteVars
    <2> QED BY <2>2, TypeParts DEF Call, OtherType
  <1> QED BY <1>3, <1>4, <1>5, TypePartsNext

LEMMA StopType ==
    ASSUME TypeOK, (\E cut \in BOOLEAN : Abandon(cut)) \/ ReadGarbage
    PROVE  TypeOK'
  <1>1. /\ Return
        /\ UNCHANGED <<nextId, nextWorktree, maxReceived, buffered, cached, torn, dropped,
                       calls, toRemote, toClient, remoteVars, written, acked>>
    BY DEF Abandon, ReadGarbage
  <1>2. framed' \in BOOLEAN
    BY DEF Abandon, ReadGarbage, TypeOK
  <1>3. WriteType' /\ RemoteType'
    BY <1>1, TypeParts, RemoteUnchanged DEF WriteType
  <1>4. OtherType'
    BY <1>1, <1>2, TypeParts DEF OtherType
  <1> QED BY <1>1, <1>3, <1>4, ReturnType, TypePartsNext

LEMMA StutterType == ASSUME TypeOK, UNCHANGED vars PROVE TypeOK'
  <1>1. UNCHANGED <<clientVars, written, acked>> /\ UNCHANGED <<remoteVars, calls, toClient>>
        /\ toRemote' = toRemote
    BY DEF vars
  <1> QED BY <1>1, ClientUnchanged, RemoteUnchanged, TypeParts, TypePartsNext DEF WriteType

\* Every reachable state has the declared types: the code's u32/u64 counters, its
\* replay buffer and both pipes, for any number of calls and envelopes.
THEOREM TypeCorrect == Spec => []TypeOK
  <1>1. Init => TypeOK
    <2> SUFFICES ASSUME Init PROVE TypeOK
      OBVIOUS
    <2>1. WriteType
      <3>1. torn \in BOOLEAN
        BY DEF Init
      <3> QED BY <3>1 DEF Init, Counters, WriteType
    <2>2. CallType
      BY DEF Init, Counters, CallType, None, NoBuffer, BufferIds
    <2>3. RemoteType
      <3>1. flush \in [id: Nat, floor: Nat, since: SUBSET Nat]
        BY DEF Init, Counters, None
      <3> QED BY <3>1 DEF Init, Counters, RemoteType
    <2>4. OtherType
      BY DEF Init, Counters, OtherType
    <2> QED BY <2>1, <2>2, <2>3, <2>4, TypeParts
  <1>2. TypeOK /\ [Next]_vars => TypeOK'
    <2> SUFFICES ASSUME TypeOK, [Next]_vars PROVE TypeOK'
      OBVIOUS
    <2>1. CASE ClientRead
      <3>1. PICK k \in 0..Len(buffered) :
             \/ InitRead(Head(toClient), k)
             \/ \E end \in Ends : AwaitRead(Head(toClient), k, end)
             \/ \E end \in Ends : ChunkRead(Head(toClient), k, end)
        BY <2>1 DEF ClientRead
      <3> QED BY <3>1, InitReadType, AwaitReadType, ChunkReadType
    <2>2. CASE Start \/ \E isOpen \in BOOLEAN, t \in BOOLEAN, end \in Ends : Call(isOpen, t, end)
      BY <2>2, StartType, CallStepType
    <2>3. CASE (\E cut \in BOOLEAN : Abandon(cut)) \/ ReadGarbage
      BY <2>3, StopType
    <2>4. CASE RemoteRead \/ RemoteStream \/ \E o \in rOwed : RemoteAnswer(o)
      BY <2>4, RemoteReadType, RemoteStreamType, RemoteAnswerType
    <2>5. CASE \E kind \in {"Ping", "Alloc", "Other", "Flush"}, ack \in {None, rMax} :
                  RemoteSpeak(kind, ack)
      BY <2>5, RemoteSpeakType
    <2>6. CASE UNCHANGED vars
      BY <2>6, StutterType
    <2> QED BY <2>1, <2>2, <2>3, <2>4, <2>5, <2>6 DEF Next, ClientStep, RemoteStep
  <1> QED BY <1>1, <1>2, PTL DEF Spec

-----------------------------------------------------------------------------
(* The steps by their effect on the channel.  Every client step writes at  *)
(* most one new envelope, starting from a buffer `kept` and stamping `ack`:*)
(* the buffer and max_received as they are, or as a read just left them.   *)

Writes(kept, ack) ==
    \/ \E kind \in ClientKinds, re \in Nat, end \in Ends : WriteBuffered(kept, ack, kind, re, end)
    \/ \E replay \in {<<>>, kept}, re \in Nat, end \in Ends :
          WriteSpecialAck(kept, replay, ack, re, end)
    \/ WriteNothing(kept)

ReadStep ==
    \E k \in 0..Len(buffered) :
        Read(Head(toClient), k) /\ Writes(Kept(k), ReceivedBy(Head(toClient)))

PlainStep ==
    /\ Writes(buffered, maxReceived)
    /\ UNCHANGED <<maxReceived, toClient, rNext, rMax, acked>>

LEMMA UnsolicitedWrites ==
    ASSUME TypeOK, NEW k \in 0..Len(buffered), NEW m, m.id \in Nat, NEW end \in Ends,
           HandleUnsolicited(m, k, end)
    PROVE  Writes(Kept(k), ReceivedBy(m))
  <1>1. "Ack" \in ClientKinds /\ "AllocResponse" \in ClientKinds
    BY DEF ClientKinds
  <1>2. CASE m.kind = "Flush"
    BY <1>2 DEF HandleUnsolicited, ReplayAndAck, Writes
  <1>3. CASE m.kind # "Flush"
    BY <1>1, <1>3 DEF HandleUnsolicited, AckIfNeeded, Writes
  <1> QED BY <1>2, <1>3

LEMMA ClientReadEffect == TypeOK /\ ClientRead => ReadStep
  <1> SUFFICES ASSUME TypeOK, ClientRead PROVE ReadStep
    OBVIOUS
  <1> DEFINE m == Head(toClient)
  <1>1. PICK k \in 0..Len(buffered), end \in Ends :
           InitRead(m, k) \/ AwaitRead(m, k, end) \/ ChunkRead(m, k, end)
    BY DEF ClientRead, Ends
  <1>2. Read(m, k)
    BY <1>1 DEF InitRead, AwaitRead, ChunkRead
  <1>3. m.id \in Nat /\ "Ack" \in ClientKinds /\ "done" \in Ends
    BY <1>2, ReadType DEF RemoteEnvelope, ClientKinds, Ends
  <1> HIDE DEF m
  <1>4. Writes(Kept(k), ReceivedBy(m))
    <2>1. CASE InitRead(m, k)
      <3>1. \/ WriteNothing(Kept(k))
            \/ WriteSpecialAck(Kept(k), <<>>, ReceivedBy(m), m.id, "done")
            \/ HandleUnsolicited(m, k, "done")
        BY <2>1 DEF InitRead
      <3> QED BY <3>1, <1>3, UnsolicitedWrites DEF Writes
    <2>2. CASE AwaitRead(m, k, end)
      <3>1. WriteNothing(Kept(k)) \/ HandleUnsolicited(m, k, end)
        BY <2>2 DEF AwaitRead
      <3> QED BY <3>1, <1>3, UnsolicitedWrites DEF Writes
    <2>3. CASE ChunkRead(m, k, end)
      <3>1. WriteNothing(Kept(k)) \/ WriteBuffered(Kept(k), ReceivedBy(m), "Ack", m.id, end)
        BY <2>3 DEF ChunkRead, AckIfNeeded
      <3> QED BY <3>1, <1>3 DEF Writes
    <2> QED BY <1>1, <2>1, <2>2, <2>3
  <1> QED BY <1>2, <1>4 DEF ReadStep, m

LEMMA PlainEffect ==
    TypeOK /\ (\/ Start
               \/ \E isOpen \in BOOLEAN, t \in BOOLEAN, end \in Ends : Call(isOpen, t, end)
               \/ \E cut \in BOOLEAN : Abandon(cut)
               \/ ReadGarbage)
    => PlainStep
  <1>1. "RemoteStarted" \in ClientKinds /\ "Open" \in ClientKinds /\ "Call" \in ClientKinds
        /\ None \in Nat /\ "done" \in Ends
    BY DEF ClientKinds, None, Ends
  <1>2. Start => PlainStep
    BY <1>1 DEF Start, PlainStep, Writes, remoteVars
  <1>3. ASSUME NEW isOpen \in BOOLEAN, NEW t \in BOOLEAN, NEW end \in Ends, Call(isOpen, t, end)
        PROVE  PlainStep
    BY <1>1, <1>3 DEF Call, PlainStep, Writes, remoteVars
  <1>4. ASSUME NEW cut \in BOOLEAN, Abandon(cut) PROVE PlainStep
    BY <1>4 DEF Abandon, PlainStep, Writes, WriteNothing, remoteVars
  <1>5. ReadGarbage => PlainStep
    BY DEF ReadGarbage, PlainStep, Writes, WriteNothing, remoteVars
  <1> QED BY <1>2, <1>3, <1>4, <1>5

\* The remote server's steps: one envelope read, or some sent.
Appended(ms) ==
    /\ toClient' = toClient \o ms
    /\ rNext' = rNext + Len(ms)
    /\ \A i \in 1..Len(ms) : ms[i].id = rNext + i - 1 /\ ms[i].ack \in {None, rMax}

RemoteEffect ==
    /\ UNCHANGED <<nextId, maxReceived, buffered, written, acked>>
    /\ \/ /\ toRemote # <<>> /\ toRemote' = Tail(toRemote) /\ rMax' = Head(toRemote).id
          /\ UNCHANGED <<toClient, rNext>>
       \/ /\ UNCHANGED <<toRemote, rMax>>
          /\ \E ms \in Seq(RemoteEnvelope) : Appended(ms)

LEMMA SendAppends ==
    ASSUME RemoteType, NEW ack \in {None, rMax}, NEW kind \in RemoteKinds, NEW re \in Nat,
           NEW buf \in BufferIds, RemoteSend(ack, kind, re, buf)
    PROVE  \E ms \in Seq(RemoteEnvelope) : Appended(ms)
  <1> DEFINE m == Incoming(rNext, ack, kind, re, buf)
  <1>1. rNext \in Nat /\ ack \in Nat /\ toClient \in Seq(RemoteEnvelope)
    BY DEF RemoteType, None
  <1>2. m \in RemoteEnvelope /\ m.id = rNext /\ m.ack \in {None, rMax}
    BY <1>1, IncomingType DEF Incoming
  <1>3. toClient' = Append(toClient, m) /\ rNext' = rNext + 1
    BY DEF RemoteSend
  <1> HIDE DEF m
  <1>4. <<m>> \in Seq(RemoteEnvelope) /\ Appended(<<m>>)
    BY <1>1, <1>2, <1>3 DEF Appended
  <1> QED BY <1>4

LEMMA RemoteStepEffect == TypeOK /\ RemoteStep => RemoteEffect
  <1> SUFFICES ASSUME TypeOK, RemoteStep PROVE RemoteEffect
    OBVIOUS
  <1>0. RemoteType /\ rNext \in Nat /\ rMax \in Nat /\ toClient \in Seq(RemoteEnvelope)
    BY TypeParts DEF RemoteType
  <1>k. /\ NoBuffer \in BufferIds /\ None \in Nat /\ Buffers \subseteq BufferIds
        /\ {"Ack", "RemoteStarted", "Response", "Error", "Ping", "Alloc", "Other", "Flush",
            "State", "Chunk"} \subseteq RemoteKinds
    BY DEF BufferIds, RemoteKinds, None
  <1>1. CASE RemoteRead
    BY <1>1 DEF RemoteRead, RemoteEffect, clientVars
  <1>2. ASSUME NEW o \in rOwed, RemoteAnswer(o) PROVE RemoteEffect
    <2>1. UNCHANGED <<nextId, maxReceived, buffered, written, acked, toRemote, rMax>>
      BY <1>2 DEF RemoteAnswer, clientVars
    <2>2. o.re \in Nat
      BY <1>0 DEF RemoteType
    <2>3. \E ms \in Seq(RemoteEnvelope) : Appended(ms)
      <3>1. CASE o.kind = "RemoteStarted"
        <4> DEFINE a == Incoming(rNext, rMax, "Ack", o.re, NoBuffer)
                   b == Incoming(rNext + 1, rMax, "RemoteStarted", None, NoBuffer)
        <4>1. toClient' = toClient \o <<a, b>> /\ rNext' = rNext + 2
          BY <1>2, <3>1 DEF RemoteAnswer
        <4>2. a \in RemoteEnvelope /\ a.id = rNext /\ a.ack \in {None, rMax}
          BY <1>0, <1>k, <2>2, IncomingType DEF Incoming
        <4>3. b \in RemoteEnvelope /\ b.id = rNext + 1 /\ b.ack \in {None, rMax}
          BY <1>0, <1>k, IncomingType DEF Incoming
        <4> HIDE DEF a, b
        <4>4. /\ <<a, b>> \in Seq(RemoteEnvelope) /\ Len(<<a, b>>) = 2
              /\ <<a, b>>[1] = a /\ <<a, b>>[2] = b
          BY <4>2, <4>3
        <4>5. ASSUME NEW i \in 1..2
              PROVE  <<a, b>>[i].id = rNext + i - 1 /\ <<a, b>>[i].ack \in {None, rMax}
          <5>1. CASE i = 1
            BY <5>1, <4>2, <4>4, <1>0
          <5>2. CASE i = 2
            BY <5>2, <4>3, <4>4, <1>0
          <5> QED BY <5>1, <5>2
        <4>6. Appended(<<a, b>>)
          BY <4>1, <4>4, <4>5 DEF Appended
        <4> QED BY <4>4, <4>6
      <3>2. CASE RemoteSend(rMax, "Error", o.re, NoBuffer) \/ RemoteSend(rMax, "Response", o.re, NoBuffer)
        <4>1. "Error" \in RemoteKinds /\ "Response" \in RemoteKinds
          BY <1>k
        <4> QED BY <3>2, <4>1, <1>0, <1>k, <2>2, SendAppends
      <3>3. CASE \E b \in Buffers : RemoteSend(rMax, "Response", o.re, b)
        <4>1. PICK b \in Buffers : RemoteSend(rMax, "Response", o.re, b)
          BY <3>3
        <4>2. "Response" \in RemoteKinds /\ b \in BufferIds
          BY <1>k
        <4> QED BY <4>1, <4>2, <1>0, <2>2, SendAppends
      <3> QED BY <1>2, <3>1, <3>2, <3>3 DEF RemoteAnswer
    <2> QED BY <2>1, <2>3 DEF RemoteEffect
  <1>3. CASE RemoteStream
    <2>1. Head(rStream) \in StreamPiece
      BY <1>3, <1>0, HeadAndTail DEF RemoteStream, RemoteType
    <2>2. Head(rStream).kind \in RemoteKinds /\ Head(rStream).buf \in BufferIds
      BY <2>1, <1>k DEF StreamPiece
    <2>3. RemoteSend(rMax, Head(rStream).kind, None, Head(rStream).buf)
      BY <1>3 DEF RemoteStream
    <2>4. \E ms \in Seq(RemoteEnvelope) : Appended(ms)
      BY <2>2, <2>3, <1>0, <1>k, SendAppends
    <2> QED BY <1>3, <2>4 DEF RemoteStream, RemoteEffect, clientVars
  <1>4. ASSUME NEW kind \in {"Ping", "Alloc", "Other", "Flush"}, NEW ack \in {None, rMax},
               RemoteSpeak(kind, ack)
        PROVE  RemoteEffect
    <2>1. RemoteSend(ack, kind, None, NoBuffer) /\ kind \in RemoteKinds
      BY <1>4, <1>k DEF RemoteSpeak
    <2>2. \E ms \in Seq(RemoteEnvelope) : Appended(ms)
      BY <2>1, <1>0, <1>k, SendAppends
    <2> QED BY <1>4, <2>2 DEF RemoteSpeak, RemoteEffect, clientVars
  <1> QED BY <1>1, <1>2, <1>3, <1>4 DEF RemoteStep

-----------------------------------------------------------------------------
(* The replay buffer.  UnackedKept alone is not inductive: a new envelope  *)
(* belongs to the buffer because no ack_id can reach its id yet, so ids in *)
(* both pipes and at the remote server must be below next_message_id.      *)

\* `b` lists in order the kept envelopes of `w` above `a`.
Lists(b, w, a) ==
    /\ \A i, j \in 1..Len(b) : i < j => b[i].id < b[j].id
    /\ \A i \in 1..Len(b) : b[i] \in w /\ b[i].keep /\ b[i].id > a
    /\ \A e \in w : (e.keep /\ e.id > a) => \E i \in 1..Len(b) : b[i] = e

BufferInv ==
    /\ Lists(buffered, written, acked)
    /\ \A e \in written : e.id < nextId
    /\ acked < nextId /\ rMax < nextId
    /\ \A i \in 1..Len(toRemote) : toRemote[i].id < nextId
    /\ \A i \in 1..Len(toClient) : toClient[i].ack < nextId

LEMMA ListsIsUnackedKept == TypeOK => (Lists(buffered, written, acked) <=> UnackedKept)
  <1> SUFFICES ASSUME TypeOK PROVE Lists(buffered, written, acked) <=> UnackedKept
    OBVIOUS
  <1>1. buffered \in Seq(ClientEnvelope) /\ DOMAIN buffered = 1..Len(buffered)
    BY DEF TypeOK
  <1> QED BY <1>1 DEF Lists, UnackedKept, Sorted, Elements

\* Popping the front while its id is acknowledged leaves the list of what is above
\* the larger acknowledgement.
LEMMA RetireKeeps ==
    ASSUME TypeOK, Lists(buffered, written, acked), NEW k \in 0..Len(buffered),
           NEW a \in Nat, Retires(k, a)
    PROVE  Lists(Kept(k), written, Larger(acked, a))
  <1> DEFINE b == Kept(k)
  <1>1. /\ b \in Seq(ClientEnvelope) /\ Len(b) = Len(buffered) - k
        /\ \A i \in 1..Len(b) : b[i] = buffered[i + k]
    BY KeptType
  <1>2. /\ buffered \in Seq(ClientEnvelope) /\ acked \in Nat /\ Len(buffered) \in Nat
        /\ written \subseteq ClientEnvelope
        /\ \A i \in 1..Len(buffered) : buffered[i] \in ClientEnvelope
    BY DEF TypeOK
  <1>i. \A i \in 1..Len(buffered) : buffered[i].id \in Nat
    BY <1>2 DEF ClientEnvelope
  <1> HIDE DEF b
  <1>3. \A i \in 1..Len(b) : i + k \in 1..Len(buffered)
    BY <1>1, <1>2
  <1>4. ASSUME NEW i \in 1..Len(b), NEW j \in 1..Len(b), i < j
        PROVE  b[i].id < b[j].id
    <2>1. i + k \in 1..Len(buffered) /\ j + k \in 1..Len(buffered) /\ i + k < j + k
      BY <1>1, <1>2, <1>3, <1>4
    <2>2. buffered[i + k].id < buffered[j + k].id
      BY <2>1 DEF Lists
    <2> QED BY <1>1, <2>2
  <1>5. ASSUME NEW i \in 1..Len(b)
        PROVE  b[i] \in written /\ b[i].keep /\ b[i].id > Larger(acked, a)
    <2>1. buffered[i + k] \in written /\ buffered[i + k].keep /\ buffered[i + k].id > acked
      BY <1>3 DEF Lists
    <2>2. k + 1 \in 1..Len(buffered) /\ buffered[k + 1].id > a
      BY <1>1, <1>2 DEF Retires
    <2>3. buffered[i + k].id > a
      <3>1. CASE i = 1
        BY <3>1, <2>2, <1>2
      <3>2. CASE i > 1
        <4>1. buffered[k + 1].id < buffered[i + k].id
          <5>1. k + 1 < i + k /\ i + k \in 1..Len(buffered)
            BY <3>2, <1>1, <1>2, <1>3
          <5> QED BY <5>1, <2>2 DEF Lists
        <4> QED BY <4>1, <2>2, <1>i, <1>3
      <3> QED BY <3>1, <3>2
    <2>4. b[i] = buffered[i + k] /\ b[i].id > acked /\ b[i].id > a
      BY <1>1, <2>1, <2>3
    <2>5. b[i].id > Larger(acked, a)
      BY <2>4 DEF Larger
    <2> QED BY <2>1, <2>4, <2>5
  <1>6. ASSUME NEW e \in written, e.keep, e.id > Larger(acked, a)
        PROVE  \E i \in 1..Len(b) : b[i] = e
    <2>0. e.id \in Nat /\ acked \in Nat /\ a \in Nat
      BY <1>2 DEF ClientEnvelope
    <2>1. e.id > acked /\ e.id > a
      BY <2>0, <1>6 DEF Larger
    <2>2. PICK j \in 1..Len(buffered) : buffered[j] = e
      BY <2>1, <1>6 DEF Lists
    <2>3. ~(j \in 1..k)
      BY <2>0, <2>1, <2>2, <1>i DEF Retires
    <2>4. j - k \in 1..Len(b) /\ (j - k) + k = j
      BY <2>3, <1>1, <1>2
    <2> QED BY <2>2, <2>4, <1>1
  <1>7. Lists(b, written, Larger(acked, a))
    BY <1>4, <1>5, <1>6 DEF Lists
  <1> QED BY <1>7 DEF b

\* What one write does: a fresh envelope behind a replay of kept ones, which may be cut
\* short, or a replay alone, or nothing.
Replays(kept, r) ==
    /\ r \in Seq(ClientEnvelope)
    /\ \A i \in 1..Len(r) : \E j \in 1..Len(kept) : r[i] = kept[j]

Replayed(kept, r) ==
    /\ UNCHANGED <<nextId, written>> /\ buffered' = kept
    /\ toRemote' = toRemote \o r /\ Replays(kept, r)

Fresh(kept, ack, e, r, whole) ==
    /\ e.id = nextId /\ e.ack = ack
    /\ nextId' = nextId + 1 /\ written' = written \cup {e}
    /\ \/ e.keep /\ buffered' = Append(kept, e)
       \/ ~e.keep /\ buffered' = kept
    /\ toRemote' = toRemote \o (IF whole THEN Append(r, e) ELSE r)
    /\ Replays(kept, r)

LEMMA NoReplay ==
    ASSUME NEW kept
    PROVE  /\ Replays(kept, <<>>)
           /\ \A s \in Seq(ClientEnvelope) : s \o <<>> = s
           /\ \A e \in ClientEnvelope : Append(<<>>, e) = <<e>>
  <1>1. <<>> \in Seq(ClientEnvelope) /\ Len(<<>>) = 0
    OBVIOUS
  <1>2. Replays(kept, <<>>)
    BY <1>1 DEF Replays
  <1>3. \A s \in Seq(ClientEnvelope) : s \o <<>> = s
    OBVIOUS
  <1>4. \A e \in ClientEnvelope : Append(<<>>, e) = <<e>>
    OBVIOUS
  <1> QED BY <1>2, <1>3, <1>4

LEMMA PipeEffect ==
    ASSUME TypeOK, NEW whole, NEW end, PipeGets(whole, end)
    PROVE  toRemote' = toRemote \o whole \/ toRemote' = toRemote \o <<>>
  <1>1. toRemote \o <<>> = toRemote
    BY NoReplay DEF TypeOK
  <1> QED BY <1>1 DEF PipeGets

LEMMA NothingEffect ==
    ASSUME TypeOK, NEW kept, WriteNothing(kept)
    PROVE  Replayed(kept, <<>>)
  <1>1. toRemote' = toRemote \o <<>>
    BY NoReplay DEF WriteNothing, TypeOK
  <1> QED BY <1>1, NoReplay DEF WriteNothing, Replayed

LEMMA BufferedEffect ==
    ASSUME TypeOK, NEW kept \in Seq(ClientEnvelope), NEW ack \in Nat, NEW kind \in ClientKinds,
           NEW re \in Nat, NEW end, WriteBuffered(kept, ack, kind, re, end)
    PROVE  \/ end = "early" /\ Replayed(kept, <<>>)
           \/ \E e \in ClientEnvelope, whole \in BOOLEAN :
                 Fresh(kept, ack, e, <<>>, whole) /\ e.re = re /\ e.keep
  <1> DEFINE e == Outgoing(ack, kind, re, TRUE)
             put == IF end = "done" THEN <<e>> ELSE <<>>
  <1>1. nextId \in Nat \ {0} /\ toRemote \in Seq(ClientEnvelope)
    BY DEF TypeOK
  <1>2. e \in ClientEnvelope /\ e.id = nextId /\ e.ack = ack /\ e.re = re /\ e.keep
    BY <1>1, OutgoingType DEF Outgoing
  <1>3. CASE end = "early" /\ WriteNothing(kept)
    BY <1>3, NothingEffect
  <1>4. CASE /\ nextId' = nextId + 1 /\ buffered' = Append(kept, e)
             /\ written' = written \cup {e} /\ PipeGets(put, end)
    <2> HIDE DEF e
    <2>1. toRemote' = toRemote \o Append(<<>>, e) \/ toRemote' = toRemote \o <<>>
      BY <1>2, <1>4, PipeEffect, NoReplay
    <2>2. PICK whole \in BOOLEAN : toRemote' = toRemote \o (IF whole THEN Append(<<>>, e) ELSE <<>>)
      BY <2>1
    <2>3. Fresh(kept, ack, e, <<>>, whole)
      BY <1>2, <1>4, <2>2, NoReplay DEF Fresh
    <2> QED BY <1>2, <2>3
  <1> QED BY <1>3, <1>4 DEF WriteBuffered

LEMMA SpecialEffect ==
    ASSUME TypeOK, NEW kept \in Seq(ClientEnvelope), NEW ack \in Nat,
           NEW replay \in {<<>>, kept}, NEW re \in Nat, NEW end,
           WriteSpecialAck(kept, replay, ack, re, end)
    PROVE  \/ end \in {"early", "torn"} /\ \E r \in Seq(ClientEnvelope) : Replayed(kept, r)
           \/ \E e \in ClientEnvelope, r \in Seq(ClientEnvelope), whole \in BOOLEAN :
                 /\ Fresh(kept, ack, e, r, whole) /\ e.re = re /\ ~e.keep
                 /\ whole => r = replay
  <1> DEFINE e == Outgoing(ack, "Ack", re, FALSE)
             put == IF end = "done" THEN Append(replay, e) ELSE replay
  <1>1. nextId \in Nat \ {0} /\ "Ack" \in ClientKinds /\ buffered' = kept
    BY DEF TypeOK, ClientKinds, WriteSpecialAck
  <1>2. e \in ClientEnvelope /\ e.id = nextId /\ e.ack = ack /\ e.re = re /\ ~e.keep
    BY <1>1, OutgoingType DEF Outgoing
  <1>3. Replays(kept, replay) /\ replay \in Seq(ClientEnvelope) /\ <<>> \in Seq(ClientEnvelope)
    <2>0. <<>> \in Seq(ClientEnvelope)
      OBVIOUS
    <2>1. CASE replay = <<>>
      BY <2>0, <2>1, NoReplay
    <2>2. CASE replay = kept
      BY <2>0, <2>2 DEF Replays
    <2> QED BY <2>1, <2>2
  <1>4. ASSUME end \in {"early", "torn"}, NEW n \in 0..Len(replay),
               PipeGets(SubSeq(replay, 1, n), end), UNCHANGED <<nextId, written>>
        PROVE  \E r \in Seq(ClientEnvelope) : Replayed(kept, r)
    <2> DEFINE r == SubSeq(replay, 1, n)
    <2>1. r \in Seq(ClientEnvelope) /\ Len(r) = n /\ \A i \in 1..n : r[i] = replay[i]
      BY <1>3
    <2>2. \A i \in 1..n : i \in 1..Len(replay)
      BY <1>3
    <2> HIDE DEF r
    <2>3. Replays(kept, r)
      BY <1>3, <2>1, <2>2 DEF Replays
    <2>4. toRemote' = toRemote \o r \/ toRemote' = toRemote \o <<>>
      BY <1>4, PipeEffect DEF r
    <2> QED BY <1>1, <1>3, <1>4, <2>1, <2>3, <2>4, NoReplay DEF Replayed
  <1>5. CASE nextId' = nextId + 1 /\ written' = written \cup {e} /\ PipeGets(put, end)
    <2> HIDE DEF e
    <2>1. \/ toRemote' = toRemote \o Append(replay, e)
          \/ toRemote' = toRemote \o replay
          \/ toRemote' = toRemote \o <<>>
      BY <1>5, PipeEffect
    <2>2. PICK r \in {replay, <<>>}, whole \in BOOLEAN :
             /\ toRemote' = toRemote \o (IF whole THEN Append(r, e) ELSE r)
             /\ whole => r = replay
      BY <2>1
    <2>3. Replays(kept, r) /\ r \in Seq(ClientEnvelope)
      BY <1>3, NoReplay
    <2>4. Fresh(kept, ack, e, r, whole)
      BY <1>1, <1>2, <1>5, <2>2, <2>3 DEF Fresh
    <2> QED BY <1>2, <2>2, <2>3, <2>4
  <1> QED BY <1>4, <1>5 DEF WriteSpecialAck

LEMMA WritesEffect ==
    ASSUME TypeOK, NEW kept \in Seq(ClientEnvelope), NEW ack \in Nat, Writes(kept, ack)
    PROVE  \/ \E r \in Seq(ClientEnvelope) : Replayed(kept, r)
           \/ \E e \in ClientEnvelope, r \in Seq(ClientEnvelope), whole \in BOOLEAN :
                 Fresh(kept, ack, e, r, whole)
  <1>0. <<>> \in Seq(ClientEnvelope)
    OBVIOUS
  <1>1. CASE \E kind \in ClientKinds, re \in Nat, end \in Ends :
                WriteBuffered(kept, ack, kind, re, end)
    <2>1. PICK kind \in ClientKinds, re \in Nat, end \in Ends :
                WriteBuffered(kept, ack, kind, re, end)
      BY <1>1
    <2>2. \/ Replayed(kept, <<>>)
          \/ \E e \in ClientEnvelope, whole \in BOOLEAN : Fresh(kept, ack, e, <<>>, whole)
      BY <2>1, BufferedEffect
    <2> QED BY <1>0, <2>2
  <1>2. CASE \E replay \in {<<>>, kept}, re \in Nat, end \in Ends :
                WriteSpecialAck(kept, replay, ack, re, end)
    BY <1>2, SpecialEffect
  <1>3. CASE WriteNothing(kept)
    BY <1>0, <1>3, NothingEffect
  <1> QED BY <1>1, <1>2, <1>3 DEF Writes

\* `t` is `s`, then `r`: what stands where.
LEMMA JoinedPlaces ==
    ASSUME NEW S, NEW s \in Seq(S), NEW r \in Seq(S), NEW t, t = s \o r
    PROVE  /\ t \in Seq(S) /\ Len(t) = Len(s) + Len(r)
           /\ \A i \in 1..Len(s) : i \in 1..Len(t) /\ t[i] = s[i]
           /\ \A i \in 1..Len(r) : Len(s) + i \in 1..Len(t) /\ t[Len(s) + i] = r[i]
           /\ \A i \in 1..Len(t) : i \in 1..Len(s) \/ i - Len(s) \in 1..Len(r)
           /\ \A i \in 1..Len(t) : \/ \E j \in 1..Len(s) : t[i] = s[j]
                                  \/ \E j \in 1..Len(r) : t[i] = r[j]
  <1>1. /\ t \in Seq(S) /\ Len(t) = Len(s) + Len(r) /\ Len(s) \in Nat /\ Len(r) \in Nat
        /\ \A i \in 1..Len(s) : t[i] = s[i]
        /\ \A i \in 1..Len(r) : t[Len(s) + i] = r[i]
    OBVIOUS
  <1>2. \A i \in 1..Len(t) : i \in 1..Len(s) \/ i - Len(s) \in 1..Len(r)
    BY <1>1
  <1>3. ASSUME NEW i \in 1..Len(t), i - Len(s) \in 1..Len(r)
        PROVE  t[i] = r[i - Len(s)]
    <2>1. Len(s) + (i - Len(s)) = i
      BY <1>1
    <2> QED BY <1>1, <1>3, <2>1
  <1>4. ASSUME NEW i \in 1..Len(t)
        PROVE  (\E j \in 1..Len(s) : t[i] = s[j]) \/ (\E j \in 1..Len(r) : t[i] = r[j])
    <2>1. CASE i \in 1..Len(s)
      BY <2>1, <1>1
    <2>2. CASE i - Len(s) \in 1..Len(r)
      BY <2>2, <1>3
    <2> QED BY <1>2, <2>1, <2>2
  <1>5. /\ \A i \in 1..Len(s) : i \in 1..Len(t)
        /\ \A i \in 1..Len(r) : Len(s) + i \in 1..Len(t)
    BY <1>1
  <1> QED BY <1>1, <1>2, <1>4, <1>5

\* A fresh envelope goes to the end of the list, or beside it.
LEMMA NewLast ==
    ASSUME NEW b \in Seq(ClientEnvelope), NEW w \in SUBSET ClientEnvelope, NEW a \in Nat,
           NEW n \in Nat, NEW e \in ClientEnvelope,
           Lists(b, w, a), \A x \in w : x.id < n, a < n, e.id = n
    PROVE  /\ e.keep  => Lists(Append(b, e), w \cup {e}, a)
           /\ ~e.keep => Lists(b, w \cup {e}, a)
  <1>1. ASSUME e.keep PROVE Lists(Append(b, e), w \cup {e}, a)
    <2> DEFINE c == Append(b, e)
    <2>1. /\ Len(c) = Len(b) + 1 /\ Len(b) \in Nat /\ c[Len(b) + 1] = e
          /\ \A i \in 1..Len(b) : c[i] = b[i]
      OBVIOUS
    <2> HIDE DEF c
    <2>2. \A i \in 1..Len(b) : b[i] \in w /\ b[i].id < n
      BY DEF Lists
    <2>3. ASSUME NEW i \in 1..Len(c), NEW j \in 1..Len(c), i < j
          PROVE  c[i].id < c[j].id
      <3>1. i \in 1..Len(b)
        BY <2>1, <2>3
      <3>2. CASE j = Len(b) + 1
        BY <3>1, <3>2, <2>1, <2>2
      <3>3. CASE j # Len(b) + 1
        <4>1. j \in 1..Len(b)
          BY <3>3, <2>1
        <4>2. b[i].id < b[j].id
          BY <3>1, <4>1, <2>3 DEF Lists
        <4> QED BY <3>1, <4>1, <4>2, <2>1
      <3> QED BY <3>2, <3>3
    <2>4. ASSUME NEW i \in 1..Len(c)
          PROVE  c[i] \in w \cup {e} /\ c[i].keep /\ c[i].id > a
      <3>1. CASE i = Len(b) + 1
        BY <3>1, <2>1, <1>1
      <3>2. CASE i # Len(b) + 1
        <4>1. i \in 1..Len(b)
          BY <3>2, <2>1
        <4> QED BY <4>1, <2>1 DEF Lists
      <3> QED BY <3>1, <3>2
    <2>5. ASSUME NEW x \in w \cup {e}, x.keep, x.id > a
          PROVE  \E i \in 1..Len(c) : c[i] = x
      <3>1. CASE x = e
        BY <3>1, <2>1
      <3>2. CASE x # e
        <4>1. PICK i \in 1..Len(b) : b[i] = x
          BY <3>2, <2>5 DEF Lists
        <4> QED BY <4>1, <2>1
      <3> QED BY <3>1, <3>2
    <2>6. Lists(c, w \cup {e}, a)
      BY <2>3, <2>4, <2>5 DEF Lists
    <2> QED BY <2>6 DEF c
  <1>2. ASSUME ~e.keep PROVE Lists(b, w \cup {e}, a)
    BY <1>2 DEF Lists
  <1> QED BY <1>1, <1>2

\* A write keeps the list and the bound of the ids, from a buffer whose envelopes
\* are above `a`.
LEMMA WriteKeepsBuffer ==
    ASSUME TypeOK, NEW kept \in Seq(ClientEnvelope), NEW ack \in Nat, NEW a \in Nat,
           Writes(kept, ack), Lists(kept, written, a), a < nextId,
           \A e \in written : e.id < nextId,
           \A i \in 1..Len(toRemote) : toRemote[i].id < nextId
    PROVE  /\ Lists(buffered', written', a)
           /\ nextId' \in {nextId, nextId + 1}
           /\ \A e \in written' : e.id < nextId'
           /\ \A i \in 1..Len(toRemote') : toRemote'[i].id < nextId'
  <1>1. nextId \in Nat /\ written \in SUBSET ClientEnvelope /\ toRemote \in Seq(ClientEnvelope)
    BY DEF TypeOK
  <1>i. \A x \in ClientEnvelope : x.id \in Nat
    BY DEF ClientEnvelope
  <1>r. ASSUME NEW r, Replays(kept, r)
        PROVE  r \in Seq(ClientEnvelope) /\ \A i \in 1..Len(r) : r[i].id < nextId
    BY <1>r DEF Replays, Lists
  <1>2. ASSUME NEW r \in Seq(ClientEnvelope), Replayed(kept, r)
        PROVE  /\ Lists(buffered', written', a)
               /\ nextId' \in {nextId, nextId + 1}
               /\ \A e \in written' : e.id < nextId'
               /\ \A i \in 1..Len(toRemote') : toRemote'[i].id < nextId'
    <2>1. /\ UNCHANGED <<nextId, written>> /\ buffered' = kept
          /\ toRemote' = toRemote \o r /\ Replays(kept, r)
      BY <1>2 DEF Replayed
    <2>2. \A i \in 1..Len(r) : r[i].id < nextId
      BY <2>1, <1>r
    <2>3. \A i \in 1..Len(toRemote') : \/ \E j \in 1..Len(toRemote) : toRemote'[i] = toRemote[j]
                                       \/ \E j \in 1..Len(r) : toRemote'[i] = r[j]
      BY <1>1, <2>1, JoinedPlaces
    <2>4. \A i \in 1..Len(toRemote') : toRemote'[i].id < nextId
      BY <2>2, <2>3
    <2> QED BY <2>1, <2>4
  <1>3. ASSUME NEW e \in ClientEnvelope, NEW r \in Seq(ClientEnvelope), NEW whole \in BOOLEAN,
               Fresh(kept, ack, e, r, whole)
        PROVE  /\ Lists(buffered', written', a)
               /\ nextId' \in {nextId, nextId + 1}
               /\ \A x \in written' : x.id < nextId'
               /\ \A i \in 1..Len(toRemote') : toRemote'[i].id < nextId'
    <2>f. /\ e.id = nextId /\ nextId' = nextId + 1 /\ written' = written \cup {e}
          /\ \/ e.keep /\ buffered' = Append(kept, e)
             \/ ~e.keep /\ buffered' = kept
          /\ toRemote' = toRemote \o (IF whole THEN Append(r, e) ELSE r)
          /\ Replays(kept, r)
      BY <1>3 DEF Fresh
    <2>1. Lists(buffered', written', a)
      <3>1. /\ e.keep  => Lists(Append(kept, e), written \cup {e}, a)
            /\ ~e.keep => Lists(kept, written \cup {e}, a)
        BY <1>1, <2>f, NewLast
      <3>2. CASE e.keep
        BY <3>1, <3>2, <2>f
      <3>3. CASE ~e.keep
        BY <3>1, <3>3, <2>f
      <3> QED BY <3>2, <3>3
    <2>2. ASSUME NEW x \in written' PROVE x.id < nextId'
      <3>1. x \in written \/ x = e
        BY <2>f
      <3>2. x.id < nextId \/ x.id = nextId
        BY <3>1, <2>f
      <3>3. x.id \in Nat
        BY <3>1, <1>1, <1>i
      <3> QED BY <3>2, <3>3, <1>1, <2>f
    <2> DEFINE u == IF whole THEN Append(r, e) ELSE r
    <2>3. u \in Seq(ClientEnvelope)
      OBVIOUS
    <2>4. ASSUME NEW i \in 1..Len(u) PROVE u[i].id < nextId + 1
      <3>1. (i \in 1..Len(r) /\ u[i] = r[i]) \/ u[i] = e
        OBVIOUS
      <3>2. u[i] \in ClientEnvelope
        BY <2>3
      <3> HIDE DEF u
      <3>3. u[i].id < nextId \/ u[i].id = nextId
        BY <3>1, <2>f, <1>r
      <3>4. u[i].id \in Nat
        BY <3>2, <1>i
      <3> QED BY <3>3, <3>4, <1>1
    <2> HIDE DEF u
    <2>5. \A i \in 1..Len(toRemote') : \/ \E j \in 1..Len(toRemote) : toRemote'[i] = toRemote[j]
                                       \/ \E j \in 1..Len(u) : toRemote'[i] = u[j]
      <3>1. toRemote' = toRemote \o u
        BY <2>f DEF u
      <3>2. ASSUME NEW v \in Seq(ClientEnvelope), toRemote' = toRemote \o v
            PROVE  \A i \in 1..Len(toRemote') :
                      \/ \E j \in 1..Len(toRemote) : toRemote'[i] = toRemote[j]
                      \/ \E j \in 1..Len(v) : toRemote'[i] = v[j]
        BY <1>1, <3>2, JoinedPlaces
      <3> QED BY <2>3, <3>1, <3>2
    <2>6. ASSUME NEW j \in 1..Len(toRemote) PROVE toRemote[j].id < nextId + 1
      <3>1. toRemote[j] \in ClientEnvelope
        BY <1>1
      <3>2. toRemote[j].id \in Nat /\ toRemote[j].id < nextId
        BY <3>1, <1>i
      <3> QED BY <3>2, <1>1
    <2>7. \A i \in 1..Len(toRemote') : toRemote'[i].id < nextId + 1
      BY <2>4, <2>5, <2>6
    <2> QED BY <2>1, <2>2, <2>7, <2>f
  <1>4. \/ \E r \in Seq(ClientEnvelope) : Replayed(kept, r)
        \/ \E e \in ClientEnvelope, r \in Seq(ClientEnvelope), whole \in BOOLEAN :
              Fresh(kept, ack, e, r, whole)
    BY WritesEffect
  <1> QED BY <1>2, <1>3, <1>4

\* Every step keeps BufferInv.
LEMMA BufferRead == ASSUME TypeOK, BufferInv, ReadStep PROVE BufferInv'
  <1> DEFINE m == Head(toClient)
  <1>1. PICK k \in 0..Len(buffered) : Read(m, k) /\ Writes(Kept(k), ReceivedBy(m))
    BY DEF ReadStep
  <1>2. toClient \in Seq(RemoteEnvelope) /\ toClient # <<>> /\ toClient' = Tail(toClient)
    BY <1>1 DEF Read, TypeOK
  <1>3. m \in RemoteEnvelope /\ m = toClient[1] /\ 1 \in 1..Len(toClient)
    BY <1>2
  <1>4. m.ack \in Nat /\ m.id \in Nat
    BY <1>3 DEF RemoteEnvelope
  <1>5. m.ack < nextId
    BY <1>3 DEF BufferInv
  <1>6. ReceivedBy(m) \in Nat /\ acked \in Nat /\ nextId \in Nat /\ rMax \in Nat
    BY <1>4 DEF ReceivedBy, TypeOK
  <1>7. Kept(k) \in Seq(ClientEnvelope) /\ Larger(acked, m.ack) \in Nat
    BY <1>4, <1>6, KeptType DEF Larger
  <1>8. Retires(k, m.ack) /\ acked' = Larger(acked, m.ack) /\ rMax' = rMax
    BY <1>1 DEF Read, remoteVars
  <1>9. Larger(acked, m.ack) < nextId
    BY <1>5 DEF BufferInv, Larger
  <1> HIDE DEF m
  <1>10. Lists(Kept(k), written, Larger(acked, m.ack))
    BY <1>4, <1>8, RetireKeeps DEF BufferInv
  <1>11. /\ Lists(buffered', written', acked')
         /\ nextId' \in {nextId, nextId + 1}
         /\ \A e \in written' : e.id < nextId'
         /\ \A i \in 1..Len(toRemote') : toRemote'[i].id < nextId'
    BY <1>1, <1>6, <1>7, <1>8, <1>9, <1>10, WriteKeepsBuffer DEF BufferInv
  <1>12. acked' < nextId' /\ rMax' < nextId'
    BY <1>6, <1>7, <1>8, <1>9, <1>11 DEF BufferInv
  <1>13. ASSUME NEW i \in 1..Len(toClient') PROVE toClient'[i].ack < nextId'
    <2>1. i + 1 \in 1..Len(toClient) /\ toClient'[i] = toClient[i + 1]
      BY <1>2
    <2>2. toClient[i + 1] \in RemoteEnvelope
      BY <1>2, <2>1
    <2>3. toClient[i + 1].ack \in Nat /\ toClient[i + 1].ack < nextId
      BY <2>1, <2>2 DEF BufferInv, RemoteEnvelope
    <2> QED BY <2>1, <2>3, <1>6, <1>11
  <1> QED BY <1>11, <1>12, <1>13 DEF BufferInv

LEMMA BufferPlain == ASSUME TypeOK, BufferInv, PlainStep PROVE BufferInv'
  <1>1. /\ buffered \in Seq(ClientEnvelope) /\ maxReceived \in Nat /\ acked \in Nat
        /\ nextId \in Nat /\ rMax \in Nat /\ toClient \in Seq(RemoteEnvelope)
    BY DEF TypeOK
  <1>2. Writes(buffered, maxReceived) /\ UNCHANGED <<toClient, rMax, acked>>
    BY DEF PlainStep
  <1>3. /\ Lists(buffered', written', acked)
        /\ nextId' \in {nextId, nextId + 1}
        /\ \A e \in written' : e.id < nextId'
        /\ \A i \in 1..Len(toRemote') : toRemote'[i].id < nextId'
    BY <1>1, <1>2, WriteKeepsBuffer DEF BufferInv
  <1>4. acked' < nextId' /\ rMax' < nextId'
    BY <1>1, <1>2, <1>3 DEF BufferInv
  <1>5. ASSUME NEW i \in 1..Len(toClient') PROVE toClient'[i].ack < nextId'
    <2>1. i \in 1..Len(toClient) /\ toClient'[i] = toClient[i]
      BY <1>2
    <2>2. toClient[i] \in RemoteEnvelope
      BY <1>1, <2>1
    <2>3. toClient[i].ack \in Nat /\ toClient[i].ack < nextId
      BY <2>1, <2>2 DEF BufferInv, RemoteEnvelope
    <2> QED BY <2>1, <2>3, <1>1, <1>3
  <1>6. Lists(buffered', written', acked')
    BY <1>2, <1>3
  <1> QED BY <1>3, <1>4, <1>5, <1>6 DEF BufferInv

LEMMA BufferRemote == ASSUME TypeOK, BufferInv, RemoteEffect PROVE BufferInv'
  <1>1. /\ toRemote \in Seq(ClientEnvelope) /\ toClient \in Seq(RemoteEnvelope)
        /\ UNCHANGED <<nextId, buffered, written, acked>>
    BY DEF TypeOK, RemoteEffect
  <1>2. CASE /\ toRemote # <<>> /\ toRemote' = Tail(toRemote) /\ rMax' = Head(toRemote).id
             /\ UNCHANGED <<toClient, rNext>>
    <2>1. rMax' < nextId
      <3>1. 1 \in 1..Len(toRemote) /\ Head(toRemote) = toRemote[1]
        BY <1>1, <1>2
      <3> QED BY <1>2, <3>1 DEF BufferInv
    <2>2. ASSUME NEW i \in 1..Len(toRemote') PROVE toRemote'[i].id < nextId
      <3>1. i + 1 \in 1..Len(toRemote) /\ toRemote'[i] = toRemote[i + 1]
        BY <1>1, <1>2
      <3> QED BY <3>1 DEF BufferInv
    <2> QED BY <1>1, <1>2, <2>1, <2>2 DEF BufferInv
  <1>3. ASSUME UNCHANGED <<toRemote, rMax>>, NEW ms \in Seq(RemoteEnvelope), Appended(ms)
        PROVE  BufferInv'
    <2>1. ASSUME NEW i \in 1..Len(toClient') PROVE toClient'[i].ack < nextId
      <3>1. toClient' = toClient \o ms /\ Len(toClient) \in Nat /\ Len(ms) \in Nat
        BY <1>1, <1>3 DEF Appended
      <3>2. CASE i \in 1..Len(toClient)
        <4>1. toClient'[i] = toClient[i]
          BY <1>1, <3>1, <3>2
        <4> QED BY <3>2, <4>1 DEF BufferInv
      <3>3. CASE i \in Len(toClient) + 1..Len(toClient) + Len(ms)
        <4>1. i - Len(toClient) \in 1..Len(ms) /\ toClient'[i] = ms[i - Len(toClient)]
          BY <1>1, <3>1, <3>3
        <4>2. toClient'[i].ack \in {None, rMax}
          BY <1>3, <4>1 DEF Appended
        <4>3. 0 < nextId
          BY DEF TypeOK
        <4> QED BY <4>2, <4>3 DEF BufferInv, None
      <3>4. i \in 1..Len(toClient) + Len(ms)
        BY <1>1, <3>1
      <3> QED BY <3>1, <3>2, <3>3, <3>4
    <2> QED BY <1>1, <1>3, <2>1 DEF BufferInv
  <1> QED BY <1>2, <1>3 DEF RemoteEffect

LEMMA BufferStutter == BufferInv /\ UNCHANGED vars => BufferInv'
  BY DEF BufferInv, vars, clientVars, callVars, remoteVars

\* The replay buffer and the ids of both pipes, always.
LEMMA BufferAlways == Spec => []BufferInv
  <1>1. Init => BufferInv
    <2> SUFFICES ASSUME Init PROVE BufferInv
      OBVIOUS
    <2>1. buffered = <<>> /\ toRemote = <<>> /\ toClient = <<>>
      BY DEF Init, Counters
    <2>2. Len(buffered) = 0 /\ Len(toRemote) = 0 /\ Len(toClient) = 0
      BY <2>1
    <2>3. written = {} /\ acked = 0 /\ rMax = 0 /\ nextId = 1
      BY DEF Init, Counters
    <2> QED BY <2>2, <2>3 DEF BufferInv, Lists
  <1>2. TypeOK /\ BufferInv /\ [Next]_vars => BufferInv'
    <2> SUFFICES ASSUME TypeOK, BufferInv, [Next]_vars PROVE BufferInv'
      OBVIOUS
    <2>1. CASE ClientRead
      BY <2>1, ClientReadEffect, BufferRead
    <2>2. CASE \/ Start
               \/ \E isOpen \in BOOLEAN, t \in BOOLEAN, end \in Ends : Call(isOpen, t, end)
               \/ \E cut \in BOOLEAN : Abandon(cut)
               \/ ReadGarbage
      BY <2>2, PlainEffect, BufferPlain
    <2>3. CASE RemoteStep
      BY <2>3, RemoteStepEffect, BufferRemote
    <2>4. CASE UNCHANGED vars
      BY <2>4, BufferStutter
    <2> QED BY <2>1, <2>2, <2>3, <2>4 DEF Next, ClientStep
  <1> QED BY <1>1, <1>2, TypeCorrect, PTL DEF Spec

\* The replay buffer holds exactly the kept envelopes above every ack_id read, in order
\* of their ids, for any number of calls, timeouts, flushes and messages
\* (write_buffered_envelope, read_envelope).
THEOREM ReplayBufferExact == Spec => []UnackedKept
  <1>1. TypeOK /\ BufferInv => UnackedKept
    BY ListsIsUnackedKept DEF BufferInv
  <1> QED BY <1>1, TypeCorrect, BufferAlways, PTL

-----------------------------------------------------------------------------
(* Acknowledgements.  AckSound is kept because the input pipe is first in, *)
(* first out and the remote server numbers what it sends upwards.          *)

FifoInv ==
    /\ AckSound
    /\ maxReceived < rNext
    /\ \A e \in written : e.ack < rNext
    /\ \A i \in 1..Len(toClient) : toClient[i].id < rNext
    /\ \A i, j \in 1..Len(toClient) : i < j => toClient[i].id < toClient[j].id

\* Every new envelope carries the ack_id its writer stamped.
LEMMA WritesAck ==
    ASSUME TypeOK, NEW kept \in Seq(ClientEnvelope), NEW ack \in Nat, Writes(kept, ack)
    PROVE  \A e \in written' : e \in written \/ e.ack = ack
  BY WritesEffect DEF Fresh, Replayed

LEMMA FifoRead == ASSUME TypeOK, FifoInv, ReadStep PROVE FifoInv'
  <1> DEFINE m == Head(toClient)
  <1>1. PICK k \in 0..Len(buffered) : Read(m, k) /\ Writes(Kept(k), ReceivedBy(m))
    BY DEF ReadStep
  <1>2. /\ toClient \in Seq(RemoteEnvelope) /\ toClient # <<>> /\ toClient' = Tail(toClient)
        /\ rNext' = rNext /\ maxReceived' = ReceivedBy(m)
    BY <1>1 DEF Read, TypeOK, remoteVars
  <1>3. m \in RemoteEnvelope /\ m = toClient[1] /\ 1 \in 1..Len(toClient)
    BY <1>2
  <1>4. ReceivedBy(m) = m.id \/ ReceivedBy(m) = maxReceived
    BY DEF ReceivedBy
  <1>5. m.id \in Nat /\ ReceivedBy(m) \in Nat
    BY <1>3, <1>4 DEF RemoteEnvelope, TypeOK
  <1>6. Kept(k) \in Seq(ClientEnvelope)
    BY KeptType
  <1>7. \A i \in 1..Len(toClient') : i + 1 \in 1..Len(toClient) /\ toClient'[i] = toClient[i + 1]
    BY <1>2
  <1> HIDE DEF m
  <1>8. ReceivedBy(m) < rNext
    BY <1>3, <1>4 DEF FifoInv
  <1>9. \A i \in 1..Len(toClient') : ReceivedBy(m) < toClient'[i].id
    <2> SUFFICES ASSUME NEW i \in 1..Len(toClient') PROVE ReceivedBy(m) < toClient[i + 1].id
      BY <1>7
    <2>1. i + 1 \in 1..Len(toClient) /\ 1 < i + 1
      BY <1>7
    <2>2. m.id < toClient[i + 1].id
      BY <1>3, <2>1 DEF FifoInv
    <2>3. maxReceived < toClient[i + 1].id
      BY <2>1 DEF FifoInv, AckSound
    <2> QED BY <1>4, <2>2, <2>3
  <1>10. \A e \in written' : e \in written \/ e.ack = ReceivedBy(m)
    BY <1>1, <1>5, <1>6, WritesAck
  <1>11. \A e \in written' : e.ack < rNext
    BY <1>8, <1>10 DEF FifoInv
  <1>12. AckSound'
    <2> SUFFICES ASSUME NEW i \in 1..Len(toClient'), NEW e \in written'
                 PROVE  maxReceived' < toClient'[i].id /\ e.ack < toClient'[i].id
      BY <1>2, <1>9 DEF AckSound
    <2>1. CASE e \in written
      BY <2>1, <1>2, <1>7, <1>9 DEF FifoInv, AckSound
    <2>2. CASE e.ack = ReceivedBy(m)
      BY <2>2, <1>2, <1>9
    <2> QED BY <2>1, <2>2, <1>10
  <1>13. /\ \A i \in 1..Len(toClient') : toClient'[i].id < rNext
         /\ \A i, j \in 1..Len(toClient') : i < j => toClient'[i].id < toClient'[j].id
    <2>1. ASSUME NEW i \in 1..Len(toClient') PROVE toClient'[i].id < rNext
      BY <1>7 DEF FifoInv
    <2>2. ASSUME NEW i \in 1..Len(toClient'), NEW j \in 1..Len(toClient'), i < j
          PROVE  toClient'[i].id < toClient'[j].id
      <3>1. /\ i + 1 \in 1..Len(toClient) /\ toClient'[i] = toClient[i + 1]
            /\ j + 1 \in 1..Len(toClient) /\ toClient'[j] = toClient[j + 1]
        BY <1>7
      <3>2. i + 1 < j + 1
        BY <2>2
      <3> QED BY <3>1, <3>2 DEF FifoInv
    <2> QED BY <2>1, <2>2
  <1> QED BY <1>2, <1>8, <1>11, <1>12, <1>13 DEF FifoInv

LEMMA FifoPlain == ASSUME TypeOK, FifoInv, PlainStep PROVE FifoInv'
  <1>1. buffered \in Seq(ClientEnvelope) /\ maxReceived \in Nat
    BY DEF TypeOK
  <1>2. Writes(buffered, maxReceived) /\ UNCHANGED <<maxReceived, toClient, rNext>>
    BY DEF PlainStep
  <1>3. \A e \in written' : e \in written \/ e.ack = maxReceived
    BY <1>1, <1>2, WritesAck
  <1> QED BY <1>2, <1>3 DEF FifoInv, AckSound

LEMMA FifoRemote == ASSUME TypeOK, FifoInv, RemoteEffect PROVE FifoInv'
  <1>1. /\ toClient \in Seq(RemoteEnvelope) /\ rNext \in Nat /\ maxReceived \in Nat
        /\ UNCHANGED <<maxReceived, written>>
    BY DEF TypeOK, RemoteEffect
  <1>2. CASE UNCHANGED <<toClient, rNext>>
    BY <1>1, <1>2 DEF FifoInv, AckSound
  <1>3. ASSUME NEW ms \in Seq(RemoteEnvelope), Appended(ms)
        PROVE  FifoInv'
    <2> DEFINE n == Len(toClient)
    <2>1. /\ toClient' = toClient \o ms /\ n \in Nat /\ Len(ms) \in Nat
          /\ rNext' = rNext + Len(ms) /\ rNext' \in Nat
      BY <1>1, <1>3 DEF Appended
    <2>2. /\ \A i \in 1..n : toClient'[i] = toClient[i]
          /\ \A i \in 1..Len(toClient') : i \in 1..n \/ i \in n + 1..n + Len(ms)
      BY <1>1, <2>1
    <2>3. ASSUME NEW i \in n + 1..n + Len(ms) PROVE toClient'[i].id = rNext + (i - n) - 1
      <3>1. i - n \in 1..Len(ms) /\ toClient'[i] = ms[i - n]
        BY <1>1, <2>1
      <3> QED BY <3>1, <1>3 DEF Appended
    <2>4. \A i \in 1..n : toClient[i].id < rNext /\ toClient[i] \in RemoteEnvelope
      BY <1>1 DEF FifoInv
    <2>i. \A i \in 1..n : toClient[i].id \in Nat
      BY <2>4 DEF RemoteEnvelope
    <2> HIDE DEF n
    <2>5. ASSUME NEW i \in 1..Len(toClient')
          PROVE  toClient'[i].id \in Nat /\ toClient'[i].id < rNext'
      <3>1. CASE i \in 1..n
        <4>1. toClient'[i].id \in Nat /\ toClient'[i].id < rNext
          BY <3>1, <2>2, <2>4, <2>i
        <4>2. rNext \in Nat /\ rNext <= rNext'
          BY <1>1, <2>1
        <4> QED BY <4>1, <4>2, <2>1
      <3>2. CASE i \in n + 1..n + Len(ms)
        <4>1. /\ rNext + (i - n) - 1 \in Nat
              /\ rNext + (i - n) - 1 < rNext'
          BY <3>2, <1>1, <2>1
        <4> QED BY <3>2, <4>1, <2>3
      <3> QED BY <3>1, <3>2, <2>2
    <2>6. ASSUME NEW i \in 1..Len(toClient'), NEW j \in 1..Len(toClient'), i < j
          PROVE  toClient'[i].id < toClient'[j].id
      <3>1. CASE j \in 1..n
        <4>1. i \in 1..n
          BY <3>1, <2>6, <2>1
        <4> QED BY <3>1, <4>1, <2>2, <2>6 DEF FifoInv, n
      <3>2. CASE j \in n + 1..n + Len(ms)
        <4>j. toClient'[j].id = rNext + (j - n) - 1 /\ j - n >= 1
          BY <3>2, <2>1, <2>3
        <4>1. CASE i \in 1..n
          <5>1. toClient'[i].id < rNext /\ toClient'[i].id \in Nat
            BY <4>1, <2>2, <2>4, <2>i
          <5>2. rNext + (j - n) - 1 >= rNext /\ rNext + (j - n) - 1 \in Nat /\ rNext \in Nat
            BY <3>2, <1>1, <2>1
          <5> QED BY <5>1, <5>2, <4>j
        <4>2. CASE i \in n + 1..n + Len(ms)
          <5>1. toClient'[i].id = rNext + (i - n) - 1
            BY <4>2, <2>3
          <5> QED BY <5>1, <4>j, <4>2, <3>2, <2>6, <1>1, <2>1
        <4> QED BY <4>1, <4>2, <2>2
      <3> QED BY <3>1, <3>2, <2>2
    <2>7. \A e \in written : e.ack \in Nat
      BY DEF TypeOK, ClientEnvelope
    <2>8. maxReceived' < rNext' /\ \A e \in written' : e.ack < rNext'
      BY <1>1, <2>1, <2>7 DEF FifoInv
    <2>9. ASSUME NEW i \in 1..Len(toClient')
          PROVE  maxReceived < toClient'[i].id /\ \A e \in written : e.ack < toClient'[i].id
      <3>1. CASE i \in 1..n
        BY <3>1, <2>2 DEF FifoInv, AckSound, n
      <3>2. CASE i \in n + 1..n + Len(ms)
        <4>1. toClient'[i].id \in Nat /\ toClient'[i].id >= rNext
          BY <3>2, <1>1, <2>1, <2>3
        <4> QED BY <4>1, <1>1, <2>7 DEF FifoInv
      <3> QED BY <3>1, <3>2, <2>2
    <2> QED BY <1>1, <2>5, <2>6, <2>8, <2>9 DEF FifoInv, AckSound
  <1> QED BY <1>2, <1>3 DEF RemoteEffect

LEMMA FifoStutter == FifoInv /\ UNCHANGED vars => FifoInv'
  BY DEF FifoInv, AckSound, vars, clientVars, callVars, remoteVars

\* The ids and acknowledgements of both pipes, always.
LEMMA FifoAlways == Spec => []FifoInv
  <1>1. Init => FifoInv
    <2> SUFFICES ASSUME Init PROVE FifoInv
      OBVIOUS
    <2>1. Len(toClient) = 0 /\ written = {} /\ maxReceived = 0 /\ rNext = 1
      BY DEF Init, Counters
    <2> QED BY <2>1 DEF FifoInv, AckSound
  <1>2. TypeOK /\ FifoInv /\ [Next]_vars => FifoInv'
    <2> SUFFICES ASSUME TypeOK, FifoInv, [Next]_vars PROVE FifoInv'
      OBVIOUS
    <2>1. CASE ClientRead
      BY <2>1, ClientReadEffect, FifoRead
    <2>2. CASE \/ Start
               \/ \E isOpen \in BOOLEAN, t \in BOOLEAN, end \in Ends : Call(isOpen, t, end)
               \/ \E cut \in BOOLEAN : Abandon(cut)
               \/ ReadGarbage
      BY <2>2, PlainEffect, FifoPlain
    <2>3. CASE RemoteStep
      BY <2>3, RemoteStepEffect, FifoRemote
    <2>4. CASE UNCHANGED vars
      BY <2>4, FifoStutter
    <2> QED BY <2>1, <2>2, <2>3, <2>4 DEF Next, ClientStep
  <1> QED BY <1>1, <1>2, TypeCorrect, PTL DEF Spec

\* The gateway never acknowledges an envelope it has not read, in whichever loop it
\* stamps the ack_id (should_track_received, assign_outgoing_metadata).
THEOREM NothingUnreadAcked == Spec => []AckSound
  <1>1. FifoInv => AckSound
    BY DEF FifoInv
  <1> QED BY <1>1, TypeCorrect, FifoAlways, PTL

-----------------------------------------------------------------------------
(* Replies and flushes.  What a step writes by what it answers, and what   *)
(* it asks.                                                                *)

Unread(x) == \E i \in 1..Len(toClient) : toClient[i].id = x

\* The remote server asks nothing with these.
Answering == {"Ack", "Response", "Error"}

(* AnsweredOnce alone is not kept: an id could be answered before it is used, come twice, or
   stand among the dropped ones before it is read. *)
ReplyInv ==
    /\ \A q \in asked : q.id # None /\ q.id < rNext /\ q.kind \notin Answering
    /\ \A q \in asked, i \in 1..Len(toClient) :
          toClient[i].id = q.id => toClient[i].kind = q.kind /\ toClient[i].re = None
    /\ \A e \in written : e.re < rNext /\ \A i \in 1..Len(toClient) : e.re < toClient[i].id
    /\ \A e, f \in written : e.re = f.re /\ e.re # None => e = f
    /\ \A q \in asked : \/ Unread(q.id) \/ (\E e \in written : e.re = q.id)
                        \/ q.kind = "Chunk" \/ q.id \in dropped
    /\ \A x \in dropped : x < rNext /\ \A i \in 1..Len(toClient) : x < toClient[i].id
    /\ pc = "await" => want # None

\* What a read writes: a reply, which follows a replay when it is the special ack of a
\* flush; or no more than a replay, when it was asked nothing, got a last chunk, or the
\* call is dropped there.
Unanswered(m, k) ==
    /\ \E r \in Seq(ClientEnvelope) : Replayed(Kept(k), r)
    /\ m.re # None \/ m.kind \in Answering \/ m.kind = "Chunk" \/ m.id \in dropped'
Reply(m, k) ==
    \E e \in ClientEnvelope, r \in Seq(ClientEnvelope), whole \in BOOLEAN :
        /\ Fresh(Kept(k), ReceivedBy(m), e, r, whole) /\ e.re = m.id
        /\ m.kind = "Flush" /\ ~e.keep /\ whole => r = Kept(k)

LEMMA ReadDrops ==
    ASSUME NEW k, NEW m, NEW end, InitRead(m, k) \/ AwaitRead(m, k, end) \/ ChunkRead(m, k, end)
    PROVE  \/ dropped' = dropped
           \/ dropped' = dropped \cup {m.id} /\ pc \in {"await", "chunks"} /\ pc' = "idle"
  BY DEF InitRead, AwaitRead, ChunkRead, Dropped, Return

LEMMA ReadReplies ==
    ASSUME TypeOK, pc = "await" => want # None, NEW k \in 0..Len(buffered), NEW m,
           NEW end \in Ends, InitRead(m, k) \/ AwaitRead(m, k, end) \/ ChunkRead(m, k, end)
    PROVE  Read(m, k) /\ (Unanswered(m, k) \/ Reply(m, k))
  <1>1. Read(m, k)
    BY DEF InitRead, AwaitRead, ChunkRead
  <1>2. /\ m \in RemoteEnvelope /\ ReceivedBy(m) \in Nat /\ Kept(k) \in Seq(ClientEnvelope)
        /\ m.id \in Nat /\ <<>> \in Seq(ClientEnvelope)
    BY <1>1, ReadType DEF RemoteEnvelope
  <1>3. ASSUME NEW kind \in ClientKinds, NEW w,
               WriteBuffered(Kept(k), ReceivedBy(m), kind, m.id, w),
               w # "early" \/ m.id \in dropped'
        PROVE  Unanswered(m, k) \/ Reply(m, k)
    <2>1. CASE w = "early" /\ Replayed(Kept(k), <<>>)
      BY <1>2, <1>3, <2>1 DEF Unanswered
    <2>2. ASSUME NEW e \in ClientEnvelope, NEW whole \in BOOLEAN,
                 Fresh(Kept(k), ReceivedBy(m), e, <<>>, whole), e.re = m.id, e.keep
          PROVE  Reply(m, k)
      BY <1>2, <2>2 DEF Reply
    <2> QED BY <1>2, <1>3, <2>1, <2>2, BufferedEffect
  <1>4. ASSUME NEW replay \in {<<>>, Kept(k)}, NEW w,
               WriteSpecialAck(Kept(k), replay, ReceivedBy(m), m.id, w),
               w \notin {"early", "torn"} \/ m.id \in dropped',
               m.kind = "Flush" => replay = Kept(k)
        PROVE  Unanswered(m, k) \/ Reply(m, k)
    <2>1. CASE w \in {"early", "torn"} /\ \E r \in Seq(ClientEnvelope) : Replayed(Kept(k), r)
      BY <1>4, <2>1 DEF Unanswered
    <2>2. ASSUME NEW e \in ClientEnvelope, NEW r \in Seq(ClientEnvelope), NEW whole \in BOOLEAN,
                 Fresh(Kept(k), ReceivedBy(m), e, r, whole), e.re = m.id, whole => r = replay
          PROVE  Reply(m, k)
      BY <1>4, <2>2 DEF Reply
    <2>3. \/ w \in {"early", "torn"} /\ \E r \in Seq(ClientEnvelope) : Replayed(Kept(k), r)
          \/ \E e \in ClientEnvelope, r \in Seq(ClientEnvelope), whole \in BOOLEAN :
                /\ Fresh(Kept(k), ReceivedBy(m), e, r, whole) /\ e.re = m.id /\ ~e.keep
                /\ whole => r = replay
      BY <1>2, <1>4, SpecialEffect
    <2> QED BY <2>1, <2>2, <2>3
  <1>5. ASSUME WriteNothing(Kept(k)), m.re # None \/ m.kind \in Answering \/ m.kind = "Chunk"
        PROVE  Unanswered(m, k)
    BY <1>2, <1>5, NothingEffect DEF Unanswered
  <1>6. "Ack" \in ClientKinds /\ "AllocResponse" \in ClientKinds
    BY DEF ClientKinds
  <1>7. ASSUME NEW w, AckIfNeeded(m, k, w), w = "done" \/ m.id \in dropped'
        PROVE  Unanswered(m, k) \/ Reply(m, k)
    BY <1>3, <1>5, <1>6, <1>7 DEF AckIfNeeded
  <1>8. ASSUME NEW w, HandleUnsolicited(m, k, w), w = "done" \/ m.id \in dropped'
        PROVE  Unanswered(m, k) \/ Reply(m, k)
    BY <1>3, <1>4, <1>6, <1>7, <1>8 DEF HandleUnsolicited, ReplayAndAck
  <1>d. Dropped(m) => m.id \in dropped'
    BY DEF Dropped
  <1>9. CASE InitRead(m, k)
    <2>1. CASE m.kind = "Ack" /\ WriteNothing(Kept(k))
      BY <1>1, <1>5, <2>1 DEF Answering
    <2>2. CASE m.kind = "RemoteStarted"
               /\ WriteSpecialAck(Kept(k), <<>>, ReceivedBy(m), m.id, "done")
      BY <1>1, <1>4, <2>2
    <2> QED BY <1>1, <1>8, <1>9, <2>1, <2>2 DEF InitRead
  <1>10. CASE AwaitRead(m, k, end)
    <2>1. CASE AnswersCall(m) /\ WriteNothing(Kept(k))
      <3>1. m.re # None
        BY <1>10, <2>1 DEF AwaitRead, AnswersCall
      <3> QED BY <1>1, <1>5, <2>1, <3>1
    <2>2. CASE HandleUnsolicited(m, k, end) /\ (end = "done" \/ Dropped(m))
      BY <1>1, <1>8, <1>d, <2>2
    <2> QED BY <1>10, <2>1, <2>2 DEF AwaitRead
  <1>11. CASE ChunkRead(m, k, end)
    <2>1. CASE WriteBuffered(Kept(k), ReceivedBy(m), "Ack", m.id, end)
               /\ (end = "done" \/ Dropped(m))
      BY <1>1, <1>3, <1>6, <1>d, <2>1
    <2>2. CASE AckIfNeeded(m, k, end) /\ end = "done"
      BY <1>1, <1>7, <2>2
    <2>3. CASE WriteNothing(Kept(k)) /\ (m.kind \in Answering \/ m.kind = "Chunk")
      BY <1>1, <1>5, <2>3
    <2> QED BY <1>11, <2>1, <2>2, <2>3 DEF ChunkRead, LastChunk, Answering
  <1> QED BY <1>9, <1>10, <1>11

\* The awaited request, over a read.
LEMMA ReadWants ==
    ASSUME NEW k, NEW m, NEW end, InitRead(m, k) \/ AwaitRead(m, k, end) \/ ChunkRead(m, k, end)
    PROVE  pc' = "await" => pc = "await" /\ want' = want
  BY DEF InitRead, AwaitRead, ChunkRead, Dropped, Return, callVars

\* What is left in the input after a read, and what was there.
LEMMA TailPlaces ==
    ASSUME NEW S, NEW s \in Seq(S), s # <<>>, NEW t, t = Tail(s)
    PROVE  /\ t \in Seq(S) /\ Len(t) = Len(s) - 1 /\ 1 \in 1..Len(s) /\ Head(s) = s[1]
           /\ \A i \in 1..Len(t) : i + 1 \in 1..Len(s) /\ t[i] = s[i + 1]
           /\ \A j \in 1..Len(s) : j = 1 \/ (j - 1 \in 1..Len(t) /\ t[j - 1] = s[j])
  OBVIOUS

LEMMA ReplyRead ==
    ASSUME TypeOK, ReplyInv, FifoInv, ClientRead
    PROVE  ReplyInv'
  <1> DEFINE m == Head(toClient)
  <1>1. PICK k \in 0..Len(buffered), end \in Ends :
           InitRead(m, k) \/ AwaitRead(m, k, end) \/ ChunkRead(m, k, end)
    BY DEF ClientRead, Ends
  <1>2. Read(m, k) /\ (Unanswered(m, k) \/ Reply(m, k))
    BY <1>1, ReadReplies DEF ReplyInv
  <1>3. /\ toClient \in Seq(RemoteEnvelope) /\ toClient # <<>> /\ toClient' = Tail(toClient)
        /\ UNCHANGED <<asked, rNext>>
    BY <1>2 DEF Read, TypeOK, remoteVars
  <1>4. /\ m = toClient[1] /\ 1 \in 1..Len(toClient)
        /\ \A i \in 1..Len(toClient') : i + 1 \in 1..Len(toClient) /\ toClient'[i] = toClient[i + 1]
        /\ \A j \in 1..Len(toClient) :
              j = 1 \/ (j - 1 \in 1..Len(toClient') /\ toClient'[j - 1] = toClient[j])
    BY <1>3, TailPlaces
  <1>5. pc' = "await" => want' # None
    BY <1>1, ReadWants DEF ReplyInv
  <1> HIDE DEF m
  <1>d. \/ dropped' = dropped
        \/ dropped' = dropped \cup {m.id}
    BY <1>1, ReadDrops
  <1>6. m.id < rNext /\ \A i \in 1..Len(toClient') : m.id < toClient'[i].id
    <2>1. \A i \in 1..Len(toClient') : 1 < i + 1
      OBVIOUS
    <2> QED BY <1>4, <2>1 DEF FifoInv
  <1>7. \A e \in written' : e \in written \/ e.re = m.id
    BY <1>2 DEF Unanswered, Replayed, Reply, Fresh
  <1>8. \A e, f \in written' : e \notin written /\ f \notin written => e = f
    BY <1>2 DEF Unanswered, Replayed, Reply, Fresh
  <1>9. \A e \in written : e \in written'
    BY <1>2 DEF Unanswered, Replayed, Reply, Fresh
  <1>10. \A q \in asked', i \in 1..Len(toClient') :
            toClient'[i].id = q.id => toClient'[i].kind = q.kind /\ toClient'[i].re = None
    BY <1>3, <1>4 DEF ReplyInv
  <1>11. \A e \in written' : e.re < rNext /\ \A i \in 1..Len(toClient') : e.re < toClient'[i].id
    BY <1>4, <1>6, <1>7 DEF ReplyInv
  <1>12. \A e, f \in written' : e.re = f.re /\ e.re # None => e = f
    <2>1. m.id \in Nat /\ \A e \in written : e.re \in Nat /\ e.re < m.id
      <3>1. m \in RemoteEnvelope
        BY <1>3, <1>4
      <3>2. \A e \in written : e.re \in Nat /\ e.re < m.id
        BY <1>4 DEF ReplyInv, TypeOK, ClientEnvelope
      <3> QED BY <3>1, <3>2 DEF RemoteEnvelope
    <2>2. \A e \in written : e.re # m.id
      BY <2>1
    <2> QED BY <1>7, <1>8, <2>2 DEF ReplyInv
  <1>13. ASSUME NEW q \in asked'
         PROVE  \/ Unread(q.id)' \/ (\E e \in written' : e.re = q.id)
                \/ q.kind = "Chunk" \/ q.id \in dropped'
    <2>0. CASE q.id \in dropped
      BY <1>d, <2>0
    <2>1. CASE \E e \in written : e.re = q.id
      BY <1>9, <2>1
    <2>2. ASSUME NEW j \in 1..Len(toClient), toClient[j].id = q.id, j # 1 PROVE Unread(q.id)'
      BY <1>4, <2>2 DEF Unread
    <2>3. CASE m.id = q.id
      <3>1. m.kind = q.kind /\ m.re = None /\ q.kind \notin Answering
        BY <1>3, <1>4, <2>3 DEF ReplyInv
      <3>2. CASE Unanswered(m, k)
        BY <2>3, <3>1, <3>2 DEF Unanswered
      <3>3. CASE Reply(m, k)
        <4>1. \E e \in written' : e.re = m.id
          BY <3>3 DEF Reply, Fresh
        <4> QED BY <2>3, <4>1
      <3> QED BY <1>2, <3>2, <3>3
    <2> QED BY <1>3, <1>4, <2>0, <2>1, <2>2, <2>3 DEF ReplyInv, Unread
  <1>14. \A q \in asked' : q.id # None /\ q.id < rNext /\ q.kind \notin Answering
    BY <1>3 DEF ReplyInv
  <1>15. \A x \in dropped' : x < rNext /\ \A i \in 1..Len(toClient') : x < toClient'[i].id
    <2>1. \A x \in dropped : x < rNext /\ \A i \in 1..Len(toClient') : x < toClient'[i].id
      BY <1>4 DEF ReplyInv
    <2> QED BY <1>d, <1>6, <2>1
  <1> QED BY <1>3, <1>5, <1>10, <1>11, <1>12, <1>13, <1>14, <1>15 DEF ReplyInv

LEMMA ReplyPlain ==
    ASSUME TypeOK, ReplyInv, FifoInv,
           \/ Start
           \/ \E isOpen \in BOOLEAN, t \in BOOLEAN, end \in Ends : Call(isOpen, t, end)
           \/ \E cut \in BOOLEAN : Abandon(cut)
           \/ ReadGarbage
    PROVE  ReplyInv'
  <1>1. UNCHANGED <<toClient, rNext, asked, dropped>>
    BY DEF Start, Call, Abandon, ReadGarbage, remoteVars
  <1>2. pc' = "await" => want' # None
    <2>1. nextId # None
      BY DEF TypeOK, None
    <2>2. CASE Start \/ (\E cut \in BOOLEAN : Abandon(cut)) \/ ReadGarbage
      BY <2>2 DEF Start, Abandon, ReadGarbage, Return
    <2>3. ASSUME NEW isOpen \in BOOLEAN, NEW t \in BOOLEAN, NEW end \in Ends, Call(isOpen, t, end)
          PROVE  pc' = "await" => want' # None
      BY <2>1, <2>3 DEF Call, callVars
    <2> QED BY <2>2, <2>3
  <1>3. /\ \A e \in written' : e \in written \/ e.re = None
        /\ \A e \in written : e \in written'
    <2>1. \/ UNCHANGED written
          \/ \E ack, kind, end : WriteBuffered(buffered, ack, kind, None, end)
      BY DEF Start, Call, Abandon, ReadGarbage
    <2>2. ASSUME NEW ack, NEW kind, NEW end, WriteBuffered(buffered, ack, kind, None, end)
          PROVE  UNCHANGED written \/ \E e : e.re = None /\ written' = written \cup {e}
      <3> DEFINE e == Outgoing(ack, kind, None, TRUE)
      <3>1. e.re = None
        BY DEF Outgoing
      <3>2. written' = written \cup {e} \/ UNCHANGED written
        BY <2>2 DEF WriteBuffered, WriteNothing
      <3> QED BY <3>1, <3>2
    <2> QED BY <2>1, <2>2
  <1>4. None < rNext /\ \A i \in 1..Len(toClient) : None < toClient[i].id
    <2>1. rNext \in Nat \ {0} /\ maxReceived \in Nat
      BY DEF TypeOK
    <2>2. ASSUME NEW i \in 1..Len(toClient) PROVE toClient[i].id \in Nat
      <3>1. toClient[i] \in RemoteEnvelope
        BY DEF TypeOK
      <3> QED BY <3>1 DEF RemoteEnvelope
    <2>3. \A i \in 1..Len(toClient) : maxReceived < toClient[i].id
      BY DEF FifoInv, AckSound
    <2> QED BY <2>1, <2>2, <2>3 DEF None
  <1>5. \A e \in written' : e.re < rNext /\ \A i \in 1..Len(toClient) : e.re < toClient[i].id
    BY <1>3, <1>4 DEF ReplyInv
  <1>6. \A e, f \in written' : e.re = f.re /\ e.re # None => e = f
    BY <1>3 DEF ReplyInv
  <1>7. \A q \in asked : \/ Unread(q.id) \/ (\E e \in written' : e.re = q.id)
                          \/ q.kind = "Chunk" \/ q.id \in dropped
    BY <1>3 DEF ReplyInv
  <1>8. \A x : Unread(x)' = Unread(x)
    BY <1>1 DEF Unread
  <1> QED BY <1>1, <1>2, <1>5, <1>6, <1>7, <1>8 DEF ReplyInv

\* What the remote server sends: what is no response becomes one of its requests, and
\* no ack_id is above the highest it has sent.
Asks(ms) ==
    /\ Appended(ms)
    /\ rAcked' \in Nat /\ rAcked <= rAcked' /\ \A i \in 1..Len(ms) : ms[i].ack <= rAcked'
    /\ \A q \in asked' :
          q \in asked \/ \E i \in 1..Len(ms) : /\ q.id = ms[i].id /\ q.kind = ms[i].kind
                                               /\ ms[i].re = None /\ q.kind \notin Answering

FlushBy(ms) ==
    \/ UNCHANGED flush
    \/ /\ flush.id = None /\ Len(ms) = 1 /\ ms[1].kind = "Flush"
       /\ flush'.id = rNext /\ flush'.floor = rAcked'

RemoteSends ==
    /\ UNCHANGED <<written, toRemote, pc, want, dropped, acked>>
    /\ \E ms \in Seq(RemoteEnvelope) : Asks(ms) /\ FlushBy(ms)

LEMMA SendAsks ==
    ASSUME TypeOK, NEW ack \in {None, rMax}, NEW kind \in RemoteKinds, NEW re \in Nat,
           NEW buf \in BufferIds, RemoteSend(ack, kind, re, buf),
           re = None => kind \notin Answering
    PROVE  \E ms \in Seq(RemoteEnvelope) : Asks(ms) /\ Len(ms) = 1 /\ ms[1].kind = kind
  <1> DEFINE m == Incoming(rNext, ack, kind, re, buf)
  <1>1. rNext \in Nat /\ ack \in Nat /\ rAcked \in Nat /\ toClient \in Seq(RemoteEnvelope)
    BY DEF TypeOK, None
  <1>2. /\ m \in RemoteEnvelope /\ m.id = rNext /\ m.ack = ack /\ m.kind = kind /\ m.re = re
    BY <1>1, IncomingType DEF Incoming
  <1>3. toClient' = Append(toClient, m) /\ rNext' = rNext + 1 /\ rAcked' = Larger(rAcked, ack)
    BY DEF RemoteSend
  <1>4. \A q \in asked' : \/ q \in asked
                          \/ /\ q.id = m.id /\ q.kind = m.kind
                             /\ m.re = None /\ q.kind \notin Answering
    BY <1>2 DEF RemoteSend
  <1> HIDE DEF m
  <1>5. rAcked' \in Nat /\ rAcked <= rAcked' /\ m.ack <= rAcked'
    BY <1>1, <1>2, <1>3 DEF Larger
  <1>6. <<m>> \in Seq(RemoteEnvelope) /\ Len(<<m>>) = 1 /\ <<m>>[1] = m
    BY <1>2
  <1>7. Appended(<<m>>)
    BY <1>1, <1>2, <1>3 DEF Appended
  <1>8. Asks(<<m>>)
    BY <1>4, <1>5, <1>6, <1>7 DEF Asks
  <1> QED BY <1>2, <1>6, <1>8

LEMMA AnswerAsks ==
    ASSUME TypeOK, NEW o \in rOwed, o.re # None, RemoteAnswer(o)
    PROVE  \E ms \in Seq(RemoteEnvelope) : Asks(ms)
  <1>1. /\ rNext \in Nat /\ rMax \in Nat /\ rAcked \in Nat /\ toClient \in Seq(RemoteEnvelope)
        /\ o.re \in Nat
    BY DEF TypeOK
  <1>2. /\ NoBuffer \in BufferIds /\ None \in Nat /\ Buffers \subseteq BufferIds
        /\ {"Ack", "RemoteStarted", "Response", "Error"} \subseteq RemoteKinds
        /\ "RemoteStarted" \notin Answering
    BY DEF BufferIds, RemoteKinds, None, NoBuffer, Answering
  <1>3. CASE o.kind = "RemoteStarted"
    <2> DEFINE a == Incoming(rNext, rMax, "Ack", o.re, NoBuffer)
               b == Incoming(rNext + 1, rMax, "RemoteStarted", None, NoBuffer)
               ms == <<a, b>>
    <2>1. /\ toClient' = toClient \o ms /\ rNext' = rNext + 2 /\ rAcked' = Larger(rAcked, rMax)
          /\ asked' = asked \cup {[id |-> rNext + 1, kind |-> "RemoteStarted"]}
      BY <1>3 DEF RemoteAnswer
    <2>2. a \in RemoteEnvelope /\ a.id = rNext /\ a.ack = rMax
      BY <1>1, <1>2, IncomingType DEF Incoming
    <2>3. b \in RemoteEnvelope /\ b.id = rNext + 1 /\ b.ack = rMax /\ b.kind = "RemoteStarted"
          /\ b.re = None
      BY <1>1, <1>2, IncomingType DEF Incoming
    <2> HIDE DEF a, b
    <2>4. ms \in Seq(RemoteEnvelope) /\ Len(ms) = 2 /\ ms[1] = a /\ ms[2] = b
      BY <2>2, <2>3
    <2>5. rAcked' \in Nat /\ rAcked <= rAcked' /\ rMax <= rAcked'
      BY <1>1, <2>1 DEF Larger
    <2> HIDE DEF ms
    <2>6. ASSUME NEW i \in 1..Len(ms) PROVE ms[i].id = rNext + i - 1 /\ ms[i].ack = rMax
      <3>1. CASE i = 1
        BY <3>1, <2>2, <2>4, <1>1
      <3>2. CASE i = 2
        BY <3>2, <2>3, <2>4, <1>1
      <3> QED BY <3>1, <3>2, <2>4
    <2>7. Appended(ms)
      BY <2>1, <2>4, <2>6 DEF Appended
    <2>8. ASSUME NEW q \in asked', q \notin asked
          PROVE  \E i \in 1..Len(ms) : /\ q.id = ms[i].id /\ q.kind = ms[i].kind
                                       /\ ms[i].re = None /\ q.kind \notin Answering
      <3>1. q.id = rNext + 1 /\ q.kind = "RemoteStarted"
        BY <2>1, <2>8
      <3>2. 2 \in 1..Len(ms)
        BY <2>4
      <3> QED BY <3>1, <3>2, <1>2, <2>3, <2>4
    <2>9. Asks(ms)
      BY <2>5, <2>6, <2>7, <2>8 DEF Asks
    <2> QED BY <2>4, <2>9
  <1>4. CASE RemoteSend(rMax, "Error", o.re, NoBuffer) \/ RemoteSend(rMax, "Response", o.re, NoBuffer)
    <2>1. "Error" \in RemoteKinds /\ "Response" \in RemoteKinds
      BY <1>2
    <2> QED BY <1>1, <1>2, <1>4, <2>1, SendAsks
  <1>5. ASSUME NEW b \in Buffers, RemoteSend(rMax, "Response", o.re, b)
        PROVE  \E ms \in Seq(RemoteEnvelope) : Asks(ms)
    <2>1. "Response" \in RemoteKinds /\ b \in BufferIds
      BY <1>2
    <2> QED BY <1>1, <1>2, <1>5, <2>1, SendAsks
  <1> QED BY <1>3, <1>4, <1>5 DEF RemoteAnswer

LEMMA RemoteStepSends ==
    ASSUME TypeOK, \A o \in rOwed : o.re # None, RemoteStep, ~RemoteRead
    PROVE  RemoteSends
  <1>1. ASSUME NEW o \in rOwed, RemoteAnswer(o) PROVE RemoteSends
    <2>1. \E ms \in Seq(RemoteEnvelope) : Asks(ms)
      BY <1>1, AnswerAsks
    <2>2. UNCHANGED <<written, toRemote, pc, want, dropped, acked, flush>>
      BY <1>1 DEF RemoteAnswer, clientVars, callVars
    <2> QED BY <2>1, <2>2 DEF RemoteSends, FlushBy
  <1>2. CASE RemoteStream
    <2>1. Head(rStream) \in StreamPiece
      BY <1>2, HeadAndTail DEF RemoteStream, TypeOK
    <2>2. /\ Head(rStream).kind \in RemoteKinds /\ Head(rStream).buf \in BufferIds
          /\ Head(rStream).kind \notin Answering /\ None \in Nat
      BY <2>1 DEF StreamPiece, RemoteKinds, BufferIds, Answering, None
    <2>3. RemoteSend(rMax, Head(rStream).kind, None, Head(rStream).buf)
      BY <1>2 DEF RemoteStream
    <2>4. \E ms \in Seq(RemoteEnvelope) : Asks(ms)
      BY <2>2, <2>3, SendAsks
    <2>5. UNCHANGED <<written, toRemote, pc, want, dropped, acked, flush>>
      BY <1>2 DEF RemoteStream, clientVars, callVars
    <2> QED BY <2>4, <2>5 DEF RemoteSends, FlushBy
  <1>3. ASSUME NEW kind \in {"Ping", "Alloc", "Other", "Flush"}, NEW ack \in {None, rMax},
               RemoteSpeak(kind, ack)
        PROVE  RemoteSends
    <2>1. /\ kind \in RemoteKinds /\ kind \notin Answering /\ None \in Nat
          /\ NoBuffer \in BufferIds
      BY DEF RemoteKinds, Answering, None, BufferIds
    <2>2. RemoteSend(ack, kind, None, NoBuffer)
      BY <1>3 DEF RemoteSpeak
    <2>3. PICK ms \in Seq(RemoteEnvelope) : Asks(ms) /\ Len(ms) = 1 /\ ms[1].kind = kind
      BY <2>1, <2>2, SendAsks
    <2>4. UNCHANGED <<written, toRemote, pc, want, dropped, acked>>
      BY <1>3 DEF RemoteSpeak, clientVars, callVars
    <2>5. \/ UNCHANGED flush
          \/ /\ flush.id = None /\ kind = "Flush"
             /\ flush' = [id |-> rNext, floor |-> Larger(rAcked, ack), since |-> {}]
      BY <1>3 DEF RemoteSpeak
    <2>6. rAcked' = Larger(rAcked, ack)
      BY <2>2 DEF RemoteSend
    <2>7. FlushBy(ms)
      BY <2>3, <2>5, <2>6 DEF FlushBy
    <2> QED BY <2>3, <2>4, <2>7 DEF RemoteSends
  <1> QED BY <1>1, <1>2, <1>3 DEF RemoteStep

\* `t` is `s`, then `r`, then `e`: what stands where in the client's output after a write.
Placed(S, s, r, e, t) ==
    /\ t \in Seq(S) /\ Len(t) = Len(s) + Len(r) + 1
    /\ \A i \in 1..Len(s) : i \in 1..Len(t) /\ t[i] = s[i]
    /\ \A i \in 1..Len(r) : Len(s) + i \in 1..Len(t) /\ t[Len(s) + i] = r[i]
    /\ t[Len(t)] = e
    /\ \A i \in 1..Len(t) : i \in 1..Len(s) \/ i - Len(s) \in 1..Len(r) \/ i = Len(t)

LEMMA WrittenPlaces ==
    ASSUME NEW S, NEW s \in Seq(S), NEW r \in Seq(S), NEW e \in S,
           NEW t, t = s \o Append(r, e)
    PROVE  Placed(S, s, r, e, t)
  <1> DEFINE u == Append(r, e)
  <1>1. /\ u \in Seq(S) /\ Len(u) = Len(r) + 1 /\ u[Len(r) + 1] = e
        /\ \A i \in 1..Len(r) : i \in 1..Len(u) /\ u[i] = r[i]
        /\ \A i \in 1..Len(u) : i \in 1..Len(r) \/ i = Len(r) + 1
        /\ Len(r) + 1 \in 1..Len(u)
    OBVIOUS
  <1>2. Len(s) \in Nat /\ Len(r) \in Nat
    OBVIOUS
  <1>3. ASSUME NEW v \in Seq(S), t = s \o v
        PROVE  /\ t \in Seq(S) /\ Len(t) = Len(s) + Len(v)
               /\ \A i \in 1..Len(s) : i \in 1..Len(t) /\ t[i] = s[i]
               /\ \A i \in 1..Len(v) : Len(s) + i \in 1..Len(t) /\ t[Len(s) + i] = v[i]
               /\ \A i \in 1..Len(t) : i \in 1..Len(s) \/ i - Len(s) \in 1..Len(v)
    BY <1>3, JoinedPlaces
  <1>4. /\ t \in Seq(S) /\ Len(t) = Len(s) + Len(u)
        /\ \A i \in 1..Len(s) : i \in 1..Len(t) /\ t[i] = s[i]
        /\ \A i \in 1..Len(u) : Len(s) + i \in 1..Len(t) /\ t[Len(s) + i] = u[i]
        /\ \A i \in 1..Len(t) : i \in 1..Len(s) \/ i - Len(s) \in 1..Len(u)
    BY <1>1, <1>3
  <1> HIDE DEF u
  <1>5. t[Len(t)] = e /\ Len(t) = Len(s) + Len(r) + 1
    <2>1. Len(t) = Len(s) + (Len(r) + 1)
      BY <1>1, <1>2, <1>4
    <2>2. t[Len(s) + (Len(r) + 1)] = e
      BY <1>1, <1>4
    <2> QED BY <1>2, <2>1, <2>2
  <1>6. \A i \in 1..Len(r) : Len(s) + i \in 1..Len(t) /\ t[Len(s) + i] = r[i]
    BY <1>1, <1>4
  <1>7. ASSUME NEW i \in 1..Len(t)
        PROVE  i \in 1..Len(s) \/ i - Len(s) \in 1..Len(r) \/ i = Len(t)
    <2>1. CASE i - Len(s) = Len(r) + 1
      BY <1>2, <1>5, <2>1
    <2> QED BY <1>1, <1>4, <2>1
  <1> QED BY <1>4, <1>5, <1>6, <1>7 DEF Placed

\* What the client writes, and what the remote server owes an answer to, has an id.
OwedInv ==
    /\ \A o \in rOwed : o.re # None
    /\ \A i \in 1..Len(toRemote) : toRemote[i].id # None

LEMMA OwedWrites ==
    ASSUME TypeOK, OwedInv, NEW kept \in Seq(ClientEnvelope), NEW ack \in Nat, Writes(kept, ack),
           \A i \in 1..Len(kept) : kept[i].id # None
    PROVE  \A i \in 1..Len(toRemote') : toRemote'[i].id # None
  <1>1. ASSUME NEW r \in Seq(ClientEnvelope), Replays(kept, r), toRemote' = toRemote \o r,
               NEW i \in 1..Len(toRemote')
        PROVE  toRemote'[i].id # None
    <2>1. toRemote \in Seq(ClientEnvelope) /\ \A j \in 1..Len(r) : r[j].id # None
      BY <1>1 DEF TypeOK, Replays
    <2>2. \/ \E j \in 1..Len(toRemote) : toRemote'[i] = toRemote[j]
          \/ \E j \in 1..Len(r) : toRemote'[i] = r[j]
      BY <1>1, <2>1, JoinedPlaces
    <2> QED BY <2>1, <2>2 DEF OwedInv
  <1>2. ASSUME NEW e \in ClientEnvelope, NEW r \in Seq(ClientEnvelope), Replays(kept, r),
               e.id = nextId, toRemote' = toRemote \o Append(r, e), NEW i \in 1..Len(toRemote')
        PROVE  toRemote'[i].id # None
    <2>1. /\ e.id # None /\ toRemote \in Seq(ClientEnvelope)
          /\ \A j \in 1..Len(r) : r[j].id # None
      BY <1>2 DEF Replays, TypeOK, None
    <2>2. Placed(ClientEnvelope, toRemote, r, e, toRemote')
      BY <1>2, <2>1, WrittenPlaces
    <2>3. CASE i - Len(toRemote) \in 1..Len(r)
      <3>1. toRemote'[Len(toRemote) + (i - Len(toRemote))] = r[i - Len(toRemote)]
        BY <2>2, <2>3 DEF Placed
      <3>2. Len(toRemote) + (i - Len(toRemote)) = i
        BY <2>1
      <3> QED BY <2>1, <2>3, <3>1, <3>2
    <2> QED BY <2>1, <2>2, <2>3 DEF OwedInv, Placed
  <1>3. ASSUME NEW r \in Seq(ClientEnvelope), Replayed(kept, r), NEW i \in 1..Len(toRemote')
        PROVE  toRemote'[i].id # None
    BY <1>1, <1>3 DEF Replayed
  <1>4. ASSUME NEW e \in ClientEnvelope, NEW r \in Seq(ClientEnvelope), NEW whole \in BOOLEAN,
               Fresh(kept, ack, e, r, whole), NEW i \in 1..Len(toRemote')
        PROVE  toRemote'[i].id # None
    <2>1. /\ e.id = nextId /\ Replays(kept, r)
          /\ toRemote' = toRemote \o Append(r, e) \/ toRemote' = toRemote \o r
      BY <1>4 DEF Fresh
    <2> QED BY <1>1, <1>2, <2>1
  <1> QED BY <1>3, <1>4, WritesEffect

LEMMA OwedNext ==
    ASSUME TypeOK, BufferInv, OwedInv, [Next]_vars
    PROVE  OwedInv'
  <1>0. buffered \in Seq(ClientEnvelope) /\ acked \in Nat /\ maxReceived \in Nat
    BY DEF TypeOK
  <1>1. \A i \in 1..Len(buffered) : buffered[i].id # None
    <2> SUFFICES ASSUME NEW i \in 1..Len(buffered) PROVE buffered[i].id # None
      OBVIOUS
    <2>1. buffered[i].id > acked
      BY DEF BufferInv, Lists
    <2> QED BY <2>1, <1>0 DEF None
  <1>2. ASSUME ReadStep PROVE OwedInv'
    <2> DEFINE m == Head(toClient)
    <2>1. PICK k \in 0..Len(buffered) : Read(m, k) /\ Writes(Kept(k), ReceivedBy(m))
      BY <1>2 DEF ReadStep
    <2>2. ReceivedBy(m) \in Nat /\ Kept(k) \in Seq(ClientEnvelope) /\ UNCHANGED rOwed
      BY <2>1, ReadType DEF remoteVars
    <2>3. \A i \in 1..Len(Kept(k)) : i + k \in 1..Len(buffered) /\ Kept(k)[i] = buffered[i + k]
      BY <1>0, KeptType
    <2> HIDE DEF m
    <2> QED BY <1>1, <2>1, <2>2, <2>3, OwedWrites DEF OwedInv
  <1>3. ASSUME PlainStep, UNCHANGED rOwed PROVE OwedInv'
    BY <1>0, <1>1, <1>3, OwedWrites DEF PlainStep, OwedInv
  <1>4. CASE RemoteRead
    <2>1. toRemote \in Seq(ClientEnvelope) /\ toRemote # <<>> /\ toRemote' = Tail(toRemote)
      BY <1>4 DEF RemoteRead, TypeOK
    <2>2. /\ Head(toRemote) = toRemote[1] /\ 1 \in 1..Len(toRemote)
          /\ \A i \in 1..Len(toRemote') : i + 1 \in 1..Len(toRemote) /\ toRemote'[i] = toRemote[i + 1]
      BY <2>1, TailPlaces
    <2>3. \A o \in rOwed' : o \in rOwed \/ o.re = toRemote[1].id
      BY <1>4, <2>2 DEF RemoteRead
    <2> QED BY <2>2, <2>3 DEF OwedInv
  <1>5. CASE RemoteStep /\ ~RemoteRead
    <2>1. UNCHANGED toRemote /\ \A o \in rOwed' : o \in rOwed
      BY <1>5 DEF RemoteStep, RemoteAnswer, RemoteStream, RemoteSpeak
    <2> QED BY <2>1 DEF OwedInv
  <1>6. CASE UNCHANGED vars
    BY <1>6 DEF OwedInv, vars, remoteVars
  <1>7. CASE ClientRead
    BY <1>2, <1>7, ClientReadEffect
  <1>8. CASE \/ Start
             \/ \E isOpen \in BOOLEAN, t \in BOOLEAN, end \in Ends : Call(isOpen, t, end)
             \/ \E cut \in BOOLEAN : Abandon(cut)
             \/ ReadGarbage
    <2>1. UNCHANGED rOwed
      BY <1>8 DEF Start, Call, Abandon, ReadGarbage, remoteVars
    <2> QED BY <1>3, <1>8, <2>1, PlainEffect
  <1> QED BY <1>4, <1>5, <1>6, <1>7, <1>8 DEF Next, ClientStep

LEMMA ReplySends ==
    ASSUME TypeOK, ReplyInv, FifoInv, RemoteSends
    PROVE  ReplyInv'
  <1>1. PICK ms \in Seq(RemoteEnvelope) : Asks(ms)
    BY DEF RemoteSends
  <1>2. /\ UNCHANGED <<written, pc, want, dropped>> /\ toClient \in Seq(RemoteEnvelope)
        /\ toClient' = toClient \o ms /\ rNext' = rNext + Len(ms) /\ rNext \in Nat \ {0}
        /\ \A i \in 1..Len(ms) : ms[i].id = rNext + i - 1
    BY <1>1 DEF RemoteSends, Asks, Appended, TypeOK
  <1>3. /\ \A i \in 1..Len(toClient) : i \in 1..Len(toClient') /\ toClient'[i] = toClient[i]
        /\ \A i \in 1..Len(ms) : Len(toClient) + i \in 1..Len(toClient')
                                 /\ toClient'[Len(toClient) + i] = ms[i]
        /\ \A i \in 1..Len(toClient') : i \in 1..Len(toClient) \/ i - Len(toClient) \in 1..Len(ms)
        /\ Len(ms) \in Nat
    BY <1>2
  <1>4. ASSUME NEW i \in 1..Len(toClient')
        PROVE  \/ i \in 1..Len(toClient) /\ toClient'[i] = toClient[i]
               \/ \E j \in 1..Len(ms) : toClient'[i] = ms[j]
    <2>1. CASE i \in 1..Len(toClient)
      BY <1>3, <2>1
    <2>2. CASE i - Len(toClient) \in 1..Len(ms)
      <3>1. toClient'[Len(toClient) + (i - Len(toClient))] = ms[i - Len(toClient)]
        BY <1>3, <2>2
      <3>2. Len(toClient) + (i - Len(toClient)) = i
        BY <1>2
      <3> QED BY <2>2, <3>1, <3>2
    <2> QED BY <1>3, <2>1, <2>2
  <1>5. \A j \in 1..Len(ms) : rNext <= ms[j].id /\ ms[j].id < rNext' /\ ms[j].id # None
    BY <1>2, <1>3 DEF None
  <1>6. \A i, j \in 1..Len(ms) : ms[i].id = ms[j].id => i = j
    BY <1>2, <1>3
  <1>7. \A q \in asked : q.id < rNext /\ q.id \in Nat
    BY DEF ReplyInv, TypeOK
  <1>8. ASSUME NEW q \in asked'
        PROVE  \/ q \in asked
               \/ \E i \in 1..Len(ms) : /\ q.id = ms[i].id /\ q.kind = ms[i].kind
                                        /\ ms[i].re = None /\ q.kind \notin Answering
    BY <1>1 DEF Asks
  <1>9. \A q \in asked' : q.id # None /\ q.id < rNext' /\ q.kind \notin Answering
    <2> SUFFICES ASSUME NEW q \in asked' PROVE q.id # None /\ q.id < rNext' /\ q.kind \notin Answering
      OBVIOUS
    <2>1. CASE q \in asked
      BY <2>1, <1>2, <1>3, <1>7 DEF ReplyInv
    <2> QED BY <2>1, <1>5, <1>8
  <1>10. ASSUME NEW q \in asked', NEW i \in 1..Len(toClient'), toClient'[i].id = q.id
         PROVE  toClient'[i].kind = q.kind /\ toClient'[i].re = None
    <2>1. CASE q \in asked
      <3>1. ~\E j \in 1..Len(ms) : toClient'[i] = ms[j]
        BY <1>2, <1>5, <1>7, <1>10, <2>1
      <3> QED BY <3>1, <1>4, <1>10, <2>1 DEF ReplyInv
    <2>2. ASSUME NEW j \in 1..Len(ms), q.id = ms[j].id, q.kind = ms[j].kind, ms[j].re = None
          PROVE  toClient'[i].kind = q.kind /\ toClient'[i].re = None
      <3>1. ~(i \in 1..Len(toClient) /\ toClient'[i] = toClient[i])
        <4>1. ASSUME i \in 1..Len(toClient) PROVE toClient[i].id \in Nat /\ toClient[i].id < rNext
          <5>1. toClient[i] \in RemoteEnvelope
            BY <1>2, <4>1
          <5> QED BY <4>1, <5>1 DEF FifoInv, RemoteEnvelope
        <4> QED BY <1>2, <1>5, <1>10, <2>2, <4>1
      <3>2. PICK l \in 1..Len(ms) : toClient'[i] = ms[l]
        BY <1>4, <3>1
      <3>3. l = j
        BY <1>6, <1>10, <2>2, <3>2
      <3> QED BY <2>2, <3>2, <3>3
    <2> QED BY <1>8, <2>1, <2>2
  <1>11. ASSUME NEW e \in written
         PROVE  e.re < rNext' /\ \A i \in 1..Len(toClient') : e.re < toClient'[i].id
    <2>1. e.re \in Nat /\ e.re < rNext /\ \A i \in 1..Len(toClient) : e.re < toClient[i].id
      BY DEF ReplyInv, TypeOK, ClientEnvelope
    <2>2. \A j \in 1..Len(ms) : e.re < ms[j].id
      BY <1>2, <2>1
    <2>3. e.re < rNext'
      BY <1>2, <1>3, <2>1
    <2> QED BY <1>4, <2>1, <2>2, <2>3
  <1>12. ASSUME NEW q \in asked'
         PROVE  \/ Unread(q.id)' \/ (\E e \in written : e.re = q.id)
                \/ q.kind = "Chunk" \/ q.id \in dropped
    <2>1. ASSUME NEW j \in 1..Len(toClient), toClient[j].id = q.id PROVE Unread(q.id)'
      BY <1>3, <2>1 DEF Unread
    <2>2. CASE q \in asked
      BY <2>1, <2>2 DEF ReplyInv, Unread
    <2>3. ASSUME NEW j \in 1..Len(ms), ms[j].id = q.id PROVE Unread(q.id)'
      BY <1>3, <2>3 DEF Unread
    <2> QED BY <1>8, <2>2, <2>3
  <1>13. ASSUME NEW x \in dropped
         PROVE  x < rNext' /\ \A i \in 1..Len(toClient') : x < toClient'[i].id
    <2>1. x \in Nat /\ x < rNext /\ \A i \in 1..Len(toClient) : x < toClient[i].id
      BY DEF ReplyInv, TypeOK
    <2>2. \A j \in 1..Len(ms) : x < ms[j].id
      BY <1>2, <2>1
    <2>3. x < rNext'
      BY <1>2, <1>3, <2>1
    <2> QED BY <1>4, <2>1, <2>2, <2>3
  <1> QED BY <1>2, <1>9, <1>10, <1>11, <1>12, <1>13 DEF ReplyInv

LEMMA ReplyRemoteRead == ReplyInv /\ RemoteRead => ReplyInv'
  BY DEF ReplyInv, RemoteRead, Unread, clientVars, callVars

LEMMA ReplyStutter == ReplyInv /\ UNCHANGED vars => ReplyInv'
  BY DEF ReplyInv, Unread, vars, clientVars, callVars, remoteVars

LEMMA ReplyNext ==
    ASSUME TypeOK, FifoInv, OwedInv, ReplyInv, [Next]_vars
    PROVE  ReplyInv'
  <1>1. CASE ClientRead
    BY <1>1, ReplyRead
  <1>2. CASE \/ Start
             \/ \E isOpen \in BOOLEAN, t \in BOOLEAN, end \in Ends : Call(isOpen, t, end)
             \/ \E cut \in BOOLEAN : Abandon(cut)
             \/ ReadGarbage
    BY <1>2, ReplyPlain
  <1>3. CASE RemoteRead
    BY <1>3, ReplyRemoteRead
  <1>4. CASE RemoteStep /\ ~RemoteRead
    BY <1>4, RemoteStepSends, ReplySends DEF OwedInv
  <1>5. CASE UNCHANGED vars
    BY <1>5, ReplyStutter
  <1> QED BY <1>1, <1>2, <1>3, <1>4, <1>5 DEF Next, ClientStep

\* A call that is dropped while answering has been counted, and answers one envelope.
DropInv ==
    /\ IsFiniteSet(dropped)
    /\ Cardinality(dropped) + (IF pc \in {"await", "chunks"} THEN 1 ELSE 0) <= calls

LEMMA DropNext ==
    ASSUME TypeOK, DropInv, [Next]_vars
    PROVE  DropInv'
  <1>1. Cardinality(dropped) \in Nat /\ calls \in Nat
    BY FS_CardinalityType DEF DropInv, TypeOK
  <1>2. ASSUME dropped' = dropped, calls' = calls,
               pc' \in {"await", "chunks"} => pc \in {"await", "chunks"}
        PROVE  DropInv'
    BY <1>1, <1>2 DEF DropInv
  <1>3. CASE ClientRead
    <2> DEFINE m == Head(toClient)
    <2>1. PICK k \in 0..Len(buffered), end \in Ends :
             InitRead(m, k) \/ AwaitRead(m, k, end) \/ ChunkRead(m, k, end)
      BY <1>3 DEF ClientRead, Ends
    <2>2. calls' = calls
      BY <2>1 DEF InitRead, AwaitRead, ChunkRead, Read
    <2>3. pc' \in {"await", "chunks"} => pc \in {"await", "chunks"}
      BY <2>1 DEF InitRead, AwaitRead, ChunkRead, Dropped, Return, callVars
    <2> HIDE DEF m
    <2>4. \/ dropped' = dropped
          \/ dropped' = dropped \cup {m.id} /\ pc \in {"await", "chunks"} /\ pc' = "idle"
      BY <2>1, ReadDrops
    <2>5. CASE dropped' = dropped \cup {m.id} /\ pc \in {"await", "chunks"} /\ pc' = "idle"
      <3>1. /\ IsFiniteSet(dropped')
            /\ Cardinality(dropped') \in {Cardinality(dropped), Cardinality(dropped) + 1}
        BY <2>5, FS_AddElement DEF DropInv
      <3> QED BY <1>1, <2>2, <2>5, <3>1 DEF DropInv
    <2> QED BY <1>2, <2>2, <2>3, <2>4, <2>5
  <1>4. ASSUME NEW isOpen \in BOOLEAN, NEW t \in BOOLEAN, NEW end \in Ends, Call(isOpen, t, end)
        PROVE  DropInv'
    <2>1. pc = "idle" /\ calls' = calls + 1 /\ dropped' = dropped
      BY <1>4 DEF Call
    <2> QED BY <1>1, <2>1 DEF DropInv
  <1>5. CASE Start \/ (\E cut \in BOOLEAN : Abandon(cut)) \/ ReadGarbage
    BY <1>2, <1>5 DEF Start, Abandon, ReadGarbage, Return
  <1>6. CASE RemoteStep
    <2>1. UNCHANGED <<clientVars, calls>>
      BY <1>6 DEF RemoteStep, RemoteRead, RemoteAnswer, RemoteStream, RemoteSpeak
    <2> QED BY <1>2, <2>1 DEF clientVars, callVars
  <1>7. CASE UNCHANGED vars
    BY <1>2, <1>7 DEF vars, clientVars, callVars
  <1> QED BY <1>3, <1>4, <1>5, <1>6, <1>7 DEF Next, ClientStep

LEMMA DropAlways == Spec => []DropInv
  <1>1. Init => DropInv
    <2> SUFFICES ASSUME Init PROVE DropInv
      OBVIOUS
    <2>1. dropped = {} /\ calls = 0 /\ pc = "new"
      BY DEF Init
    <2> QED BY <2>1, FS_EmptySet DEF DropInv
  <1>2. TypeOK /\ DropInv /\ [Next]_vars => DropInv'
    BY DropNext
  <1> QED BY <1>1, <1>2, TypeCorrect, PTL DEF Spec

\* Of the replies the invariant allows, there is none or one to count.
LEMMA ReplyIsAnsweredOnce == TypeOK /\ ReplyInv /\ DropInv => AnsweredOnce
  <1> SUFFICES ASSUME TypeOK, ReplyInv, DropInv PROVE AnsweredOnce
    OBVIOUS
  <1>1. ASSUME NEW q \in asked
        PROVE  LET replies == Cardinality({e \in written : e.re = q.id})
                   unread  == \E i \in DOMAIN toClient : toClient[i].id = q.id
               IN  \/ unread /\ replies = 0 /\ q.id \notin dropped
                   \/ ~unread /\ replies = 1
                   \/ ~unread /\ replies = 0 /\ (q.kind = "Chunk" \/ q.id \in dropped)
    <2> DEFINE R == {e \in written : e.re = q.id}
    <2>1. DOMAIN toClient = 1..Len(toClient)
      BY DEF TypeOK
    <2>2. Unread(q.id) => q.id \notin dropped
      <3> SUFFICES ASSUME NEW i \in 1..Len(toClient), toClient[i].id = q.id, q.id \in dropped
                   PROVE FALSE
        BY DEF Unread
      <3>1. q.id < q.id /\ q.id \in Nat
        BY DEF ReplyInv, TypeOK
      <3> QED BY <3>1
    <2>3. CASE R = {}
      <3>1. Cardinality(R) = 0
        BY <2>3, FS_EmptySet
      <3>2. ~\E e \in written : e.re = q.id
        BY <2>3
      <3> QED BY <2>1, <2>2, <3>1, <3>2 DEF ReplyInv, Unread
    <2>4. CASE R # {}
      <3>1. PICK e \in written : e.re = q.id
        BY <2>4
      <3>2. R = {e}
        BY <3>1 DEF ReplyInv
      <3>3. Cardinality(R) = 1
        BY <3>2, FS_Singleton
      <3>4. ~Unread(q.id)
        <4> SUFFICES ASSUME NEW i \in 1..Len(toClient), toClient[i].id = q.id PROVE FALSE
          BY DEF Unread
        <4>1. q.id < q.id /\ q.id \in Nat
          BY <3>1 DEF ReplyInv, TypeOK
        <4> QED BY <4>1
      <3> QED BY <2>1, <3>3, <3>4 DEF Unread
    <2> QED BY <2>3, <2>4
  <1>2. Cardinality(dropped) <= calls
    <2>1. Cardinality(dropped) \in Nat /\ calls \in Nat
      BY FS_CardinalityType DEF DropInv, TypeOK
    <2> QED BY <2>1 DEF DropInv
  <1> QED BY <1>1, <1>2 DEF AnsweredOnce

\* The replies, always.
LEMMA RepliesAlways == Spec => [](OwedInv /\ ReplyInv)
  <1>1. Init => OwedInv /\ ReplyInv
    <2> SUFFICES ASSUME Init PROVE OwedInv /\ ReplyInv
      OBVIOUS
    <2>1. /\ Len(toClient) = 0 /\ Len(toRemote) = 0 /\ written = {} /\ asked = {}
          /\ rOwed = {} /\ pc = "new" /\ dropped = {}
      BY DEF Init, Counters
    <2> QED BY <2>1 DEF OwedInv, ReplyInv
  <1>2. TypeOK /\ BufferInv /\ OwedInv /\ [Next]_vars => OwedInv'
    BY OwedNext
  <1>3. TypeOK /\ FifoInv /\ OwedInv /\ ReplyInv /\ [Next]_vars => ReplyInv'
    BY ReplyNext
  <1> QED BY <1>1, <1>2, <1>3, TypeCorrect, BufferAlways, FifoAlways, PTL DEF Spec

\* Every envelope of the remote server that is no response gets one reply when it is
\* read and none before, in whichever loop it is read and wherever calls were dropped:
\* only a last chunk may go without, and the envelope a call was answering when its
\* timeout dropped it, of which there is at most one for each call (read_envelope's
\* callers, write_encoded_envelope).
THEOREM RepliedOnce == Spec => []AnsweredOnce
  <1>1. TypeOK /\ ReplyInv /\ DropInv => AnsweredOnce
    BY ReplyIsAnsweredOnce
  <1> QED BY <1>1, TypeCorrect, RepliesAlways, DropAlways, PTL

-----------------------------------------------------------------------------
(* Flushes.  FlushRecovers speaks of the ack at the remote server's input; *)
(* it holds there because it holds of every such ack under way: what the   *)
(* flush asks for stands before the ack in the pipe or has been read.      *)

\* What the remote server has sent and the client read has ack_ids it has sent; a
\* pending flush was sent with all the acks of what precedes it.
FlushSent ==
    /\ acked <= rAcked /\ \A i \in 1..Len(toClient) : toClient[i].ack <= rAcked
    /\ flush.id # None =>
          /\ flush.id < rNext
          /\ \A i \in 1..Len(toClient) :
                /\ toClient[i].id = flush.id => toClient[i].kind = "Flush"
                /\ toClient[i].id <= flush.id => toClient[i].ack <= flush.floor
          /\ Unread(flush.id) => acked <= flush.floor

Recovered(i) ==
    \A x \in written : (x.keep /\ flush.floor < x.id /\ x.id < toRemote[i].id) =>
        x.id \in flush.since \/ \E j \in 1..i-1 : toRemote[j].id = x.id

FlushAcked ==
    /\ \A i \in 1..Len(toRemote) : toRemote[i] \in written
    /\ flush.id # None =>
          \A i \in 1..Len(toRemote) :
             toRemote[i].re = flush.id /\ ~toRemote[i].keep => Recovered(i)

\* A replay alone, or one whose special ack is not written to its end, keeps FlushAcked.
LEMMA FlushReplay ==
    ASSUME TypeOK, BufferInv, FlushAcked, UNCHANGED flush, NEW r \in Seq(ClientEnvelope),
           \A i \in 1..Len(r) : r[i] \in written /\ r[i].keep,
           toRemote' = toRemote \o r,
           \A x \in written : x \in written',
           \A x \in written' : x \in written \/ x.id = nextId
    PROVE  FlushAcked'
  <1>1. toRemote \in Seq(ClientEnvelope) /\ nextId \in Nat
    BY DEF TypeOK
  <1>2. /\ \A i \in 1..Len(toRemote) : i \in 1..Len(toRemote') /\ toRemote'[i] = toRemote[i]
        /\ \A i \in 1..Len(r) : toRemote'[Len(toRemote) + i] = r[i]
        /\ \A i \in 1..Len(toRemote') : i \in 1..Len(toRemote) \/ i - Len(toRemote) \in 1..Len(r)
        /\ Len(toRemote) \in Nat
    BY <1>1, JoinedPlaces
  <1>3. ASSUME NEW i \in 1..Len(toRemote')
        PROVE  \/ i \in 1..Len(toRemote)
               \/ toRemote'[i] \in written /\ toRemote'[i].keep
    <2>1. CASE i - Len(toRemote) \in 1..Len(r)
      <3>1. toRemote'[Len(toRemote) + (i - Len(toRemote))] = r[i - Len(toRemote)]
        BY <1>2, <2>1
      <3>2. Len(toRemote) + (i - Len(toRemote)) = i
        BY <1>2
      <3> QED BY <2>1, <3>1, <3>2
    <2> QED BY <1>2, <2>1
  <1>4. ASSUME NEW i \in 1..Len(toRemote') PROVE toRemote'[i] \in written'
    BY <1>2, <1>3 DEF FlushAcked
  <1>5. ASSUME flush.id # None, NEW i \in 1..Len(toRemote'),
               toRemote'[i].re = flush.id, ~toRemote'[i].keep,
               NEW x \in written', x.keep, flush.floor < x.id, x.id < toRemote'[i].id
        PROVE  x.id \in flush.since \/ \E j \in 1..i-1 : toRemote'[j].id = x.id
    <2>1. i \in 1..Len(toRemote) /\ toRemote'[i] = toRemote[i] /\ toRemote[i] \in ClientEnvelope
      BY <1>1, <1>2, <1>3, <1>5
    <2>2. toRemote[i].id < nextId /\ toRemote[i].id \in Nat
      BY <2>1 DEF BufferInv, ClientEnvelope
    <2>3. x \in written
      <3>1. x.id # nextId
        BY <1>1, <1>5, <2>1, <2>2
      <3> QED BY <1>5, <3>1
    <2>4. x.id \in flush.since \/ \E j \in 1..i-1 : toRemote[j].id = x.id
      BY <1>5, <2>1, <2>3 DEF FlushAcked, Recovered
    <2>5. \A j \in 1..i-1 : j \in 1..Len(toRemote)
      BY <1>2, <2>1
    <2> QED BY <1>2, <2>4, <2>5
  <1> QED BY <1>4, <1>5 DEF FlushAcked, Recovered

\* A write keeps FlushAcked when the special ack of the flush stands behind a replay of
\* all it asks for.
LEMMA FlushWrites ==
    ASSUME TypeOK, BufferInv, FlushAcked, UNCHANGED flush,
           NEW kept \in Seq(ClientEnvelope), NEW ack, NEW a \in Nat,
           NEW e \in ClientEnvelope, NEW r \in Seq(ClientEnvelope),
           Fresh(kept, ack, e, r, TRUE), Lists(kept, written, a),
           flush.id # None /\ e.re = flush.id /\ ~e.keep => r = kept /\ a <= flush.floor
    PROVE  FlushAcked'
  <1>1. /\ toRemote \in Seq(ClientEnvelope) /\ toRemote' = toRemote \o Append(r, e)
        /\ written' = written \cup {e} /\ e.id = nextId
        /\ \A i \in 1..Len(r) : \E j \in 1..Len(kept) : r[i] = kept[j]
    BY DEF Fresh, Replays, TypeOK
  <1>2. /\ toRemote' \in Seq(ClientEnvelope) /\ Len(toRemote') = Len(toRemote) + Len(r) + 1
        /\ \A i \in 1..Len(toRemote) : i \in 1..Len(toRemote') /\ toRemote'[i] = toRemote[i]
        /\ \A i \in 1..Len(r) : Len(toRemote) + i \in 1..Len(toRemote')
                                /\ toRemote'[Len(toRemote) + i] = r[i]
        /\ toRemote'[Len(toRemote')] = e
        /\ \A i \in 1..Len(toRemote') :
              i \in 1..Len(toRemote) \/ i - Len(toRemote) \in 1..Len(r) \/ i = Len(toRemote')
    <2>1. toRemote \in Seq(ClientEnvelope) /\ toRemote' = toRemote \o Append(r, e)
      BY <1>1
    <2>2. Placed(ClientEnvelope, toRemote, r, e, toRemote')
      BY <2>1, WrittenPlaces
    <2> QED BY <2>2 DEF Placed
  <1>3. Len(toRemote) \in Nat /\ Len(r) \in Nat
    BY <1>1
  <1>4. \A i \in 1..Len(r) : r[i] \in written /\ r[i].keep
    BY <1>1 DEF Lists
  <1>5. ASSUME NEW i \in 1..Len(toRemote')
        PROVE  \/ i \in 1..Len(toRemote)
               \/ toRemote'[i] \in written /\ toRemote'[i].keep
               \/ i = Len(toRemote')
    <2>1. CASE i - Len(toRemote) \in 1..Len(r)
      <3>1. toRemote'[Len(toRemote) + (i - Len(toRemote))] = r[i - Len(toRemote)]
        BY <1>2, <2>1
      <3>2. Len(toRemote) + (i - Len(toRemote)) = i
        BY <1>3
      <3> QED BY <1>4, <2>1, <3>1, <3>2
    <2> QED BY <1>2, <2>1
  <1>6. ASSUME NEW i \in 1..Len(toRemote') PROVE toRemote'[i] \in written'
    BY <1>1, <1>2, <1>5 DEF FlushAcked
  <1>7. ASSUME flush.id # None, NEW i \in 1..Len(toRemote'),
               toRemote'[i].re = flush.id, ~toRemote'[i].keep,
               NEW x \in written', x.keep, flush.floor < x.id, x.id < toRemote'[i].id
        PROVE  x.id \in flush.since \/ \E j \in 1..i-1 : toRemote'[j].id = x.id
    <2>1. CASE i \in 1..Len(toRemote)
      <3>1. toRemote'[i] = toRemote[i] /\ toRemote[i].id < nextId
        BY <1>2, <2>1 DEF BufferInv
      <3>2. x \in written
        <4>1. toRemote[i] \in ClientEnvelope
          BY <1>1, <2>1
        <4>2. nextId \in Nat /\ toRemote[i].id \in Nat
          BY <4>1 DEF TypeOK, ClientEnvelope
        <4>3. e.id # x.id
          BY <1>1, <1>7, <3>1, <4>2
        <4> QED BY <1>1, <4>3
      <3>3. x.id \in flush.since \/ \E j \in 1..i-1 : toRemote[j].id = x.id
        BY <1>7, <2>1, <3>1, <3>2 DEF FlushAcked, Recovered
      <3>4. \A j \in 1..i-1 : j \in 1..Len(toRemote)
        BY <1>3, <2>1
      <3> QED BY <1>2, <3>3, <3>4
    <2>2. CASE i = Len(toRemote')
      <3>1. e.re = flush.id /\ ~e.keep
        BY <1>2, <1>7, <2>2
      <3>2. r = kept /\ a <= flush.floor
        BY <1>7, <3>1
      <3>3. x \in written
        BY <1>1, <1>7, <3>1
      <3>4. x.id > a
        <4>1. x.id \in Nat /\ flush.floor \in Nat
          BY <3>3 DEF TypeOK, ClientEnvelope
        <4> QED BY <1>7, <3>2, <4>1
      <3>5. PICK j \in 1..Len(r) : r[j] = x
        BY <1>7, <3>2, <3>3, <3>4 DEF Lists
      <3>6. Len(toRemote) + j \in 1..i-1
        BY <1>2, <1>3, <2>2
      <3> QED BY <1>2, <3>5, <3>6
    <2> QED BY <1>5, <1>7, <2>1, <2>2
  <1> QED BY <1>6, <1>7 DEF FlushAcked, Recovered

\* Either way of leaving the ack behind.
LEMMA FlushCut ==
    ASSUME TypeOK, BufferInv, FlushAcked, UNCHANGED flush,
           NEW kept \in Seq(ClientEnvelope), NEW a \in Nat, Lists(kept, written, a),
           NEW r \in Seq(ClientEnvelope),
           \/ Replayed(kept, r)
           \/ \E ack, e : Fresh(kept, ack, e, r, FALSE)
    PROVE  FlushAcked'
  <1>1. /\ Replays(kept, r) /\ toRemote' = toRemote \o r
        /\ \A x \in written : x \in written'
        /\ \A x \in written' : x \in written \/ x.id = nextId
    BY DEF Replayed, Fresh
  <1>2. \A i \in 1..Len(r) : r[i] \in written /\ r[i].keep
    BY <1>1 DEF Replays, Lists
  <1> QED BY <1>1, <1>2, FlushReplay

LEMMA FlushRead ==
    ASSUME TypeOK, BufferInv, FifoInv, ReplyInv, FlushSent, FlushAcked, ClientRead
    PROVE  FlushSent' /\ FlushAcked'
  <1> DEFINE m == Head(toClient)
  <1>1. PICK k \in 0..Len(buffered), end \in Ends :
           InitRead(m, k) \/ AwaitRead(m, k, end) \/ ChunkRead(m, k, end)
    BY DEF ClientRead, Ends
  <1>2. Read(m, k) /\ (Unanswered(m, k) \/ Reply(m, k))
    BY <1>1, ReadReplies DEF ReplyInv
  <1>3. /\ toClient \in Seq(RemoteEnvelope) /\ toClient # <<>> /\ toClient' = Tail(toClient)
        /\ UNCHANGED <<flush, rNext, rAcked>> /\ acked' = Larger(acked, m.ack)
        /\ Retires(k, m.ack)
    BY <1>2 DEF Read, TypeOK, remoteVars
  <1>4. /\ m = toClient[1] /\ 1 \in 1..Len(toClient)
        /\ \A i \in 1..Len(toClient') : i + 1 \in 1..Len(toClient) /\ toClient'[i] = toClient[i + 1]
    BY <1>3, TailPlaces
  <1>5. /\ m \in RemoteEnvelope /\ ReceivedBy(m) \in Nat /\ Kept(k) \in Seq(ClientEnvelope)
    BY <1>2, ReadType
  <1> HIDE DEF m
  <1>6. /\ m.ack \in Nat /\ m.id \in Nat /\ acked \in Nat /\ rAcked \in Nat
        /\ flush.floor \in Nat /\ flush.id \in Nat
    BY <1>5 DEF RemoteEnvelope, TypeOK
  <1>7. acked' <= rAcked /\ \A i \in 1..Len(toClient') : toClient'[i].ack <= rAcked
    BY <1>3, <1>4, <1>6 DEF FlushSent, Larger
  <1>8. ASSUME flush.id # None, m.id <= flush.id, acked <= flush.floor
        PROVE  Larger(acked, m.ack) <= flush.floor
    BY <1>4, <1>6, <1>8 DEF FlushSent, Larger
  <1>9. ASSUME flush.id # None
        PROVE  /\ flush.id < rNext
               /\ \A i \in 1..Len(toClient') :
                     /\ toClient'[i].id = flush.id => toClient'[i].kind = "Flush"
                     /\ toClient'[i].id <= flush.id => toClient'[i].ack <= flush.floor
    BY <1>4, <1>9 DEF FlushSent
  <1>10. ASSUME flush.id # None, Unread(flush.id)' PROVE acked' <= flush.floor
    <2>1. PICK i \in 1..Len(toClient') : toClient'[i].id = flush.id
      BY <1>3, <1>10 DEF Unread
    <2>2. i + 1 \in 1..Len(toClient) /\ toClient[i + 1].id = flush.id /\ 1 < i + 1
      BY <1>4, <2>1
    <2>3. m.id < flush.id /\ Unread(flush.id)
      BY <1>4, <2>2 DEF FifoInv, Unread
    <2>4. acked <= flush.floor /\ m.id <= flush.id
      BY <1>6, <1>10, <2>3 DEF FlushSent
    <2> QED BY <1>3, <1>8, <1>10, <2>4
  <1>11. FlushSent'
    BY <1>3, <1>7, <1>9, <1>10 DEF FlushSent
  <1>l. Lists(Kept(k), written, Larger(acked, m.ack)) /\ Larger(acked, m.ack) \in Nat
    <2>1. Larger(acked, m.ack) \in Nat
      BY <1>6 DEF Larger
    <2> QED BY <1>3, <1>6, <2>1, RetireKeeps DEF BufferInv
  <1>12. CASE Unanswered(m, k)
    <2>1. PICK r \in Seq(ClientEnvelope) : Replayed(Kept(k), r)
      BY <1>12 DEF Unanswered
    <2>2. FlushAcked'
      BY <1>3, <1>5, <1>l, <2>1, FlushCut
    <2> QED BY <1>11, <2>2
  <1>13. ASSUME NEW e \in ClientEnvelope, NEW r \in Seq(ClientEnvelope),
                Fresh(Kept(k), ReceivedBy(m), e, r, TRUE), e.re = m.id,
                m.kind = "Flush" /\ ~e.keep => r = Kept(k)
         PROVE  FlushAcked'
    <2>2. ASSUME flush.id # None, e.re = flush.id, ~e.keep
          PROVE  r = Kept(k) /\ Larger(acked, m.ack) <= flush.floor
      <3>1. m.id = flush.id /\ m.kind = "Flush"
        BY <1>4, <1>13, <2>2 DEF FlushSent
      <3>2. acked <= flush.floor /\ m.id <= flush.id
        <4>1. Unread(flush.id)
          BY <1>4, <3>1 DEF Unread
        <4> QED BY <1>6, <2>2, <3>1, <4>1 DEF FlushSent
      <3> QED BY <1>8, <1>13, <2>2, <3>1, <3>2
    <2> QED BY <1>3, <1>5, <1>l, <1>13, <2>2, FlushWrites
  <1>14. CASE Reply(m, k)
    <2>1. PICK e \in ClientEnvelope, r \in Seq(ClientEnvelope), whole \in BOOLEAN :
             /\ Fresh(Kept(k), ReceivedBy(m), e, r, whole) /\ e.re = m.id
             /\ m.kind = "Flush" /\ ~e.keep /\ whole => r = Kept(k)
      BY <1>14 DEF Reply
    <2>2. CASE whole = TRUE
      BY <1>11, <1>13, <2>1, <2>2
    <2>3. CASE whole = FALSE
      <3>1. Fresh(Kept(k), ReceivedBy(m), e, r, FALSE)
        BY <2>1, <2>3
      <3>2. FlushAcked'
        BY <1>3, <1>5, <1>l, <3>1, FlushCut
      <3> QED BY <1>11, <3>2
    <2> QED BY <2>2, <2>3
  <1> QED BY <1>2, <1>12, <1>14

LEMMA FlushPlain ==
    ASSUME TypeOK, BufferInv, FlushSent, FlushAcked,
           \/ Start
           \/ \E isOpen \in BOOLEAN, t \in BOOLEAN, end \in Ends : Call(isOpen, t, end)
           \/ \E cut \in BOOLEAN : Abandon(cut)
           \/ ReadGarbage
    PROVE  FlushSent' /\ FlushAcked'
  <1>1. UNCHANGED <<toClient, rNext, flush, rAcked, acked>>
    BY DEF Start, Call, Abandon, ReadGarbage, remoteVars
  <1>2. FlushSent'
    BY <1>1 DEF FlushSent, Unread
  <1>3. \/ UNCHANGED <<toRemote, written>>
        \/ \E kind \in ClientKinds, end \in Ends :
              WriteBuffered(buffered, maxReceived, kind, None, end)
    BY DEF Start, Call, Abandon, ReadGarbage, ClientKinds, Ends
  <1>4. CASE UNCHANGED <<toRemote, written>>
    BY <1>1, <1>2, <1>4 DEF FlushAcked, Recovered
  <1>5. ASSUME NEW kind \in ClientKinds, NEW end,
               WriteBuffered(buffered, maxReceived, kind, None, end)
        PROVE  FlushAcked'
    <2>1. buffered \in Seq(ClientEnvelope) /\ maxReceived \in Nat /\ None \in Nat /\ acked \in Nat
      BY DEF TypeOK, None
    <2>2. <<>> \in Seq(ClientEnvelope) /\ Lists(buffered, written, acked)
      BY DEF BufferInv
    <2>3. CASE Replayed(buffered, <<>>)
      BY <1>1, <2>1, <2>2, <2>3, FlushCut
    <2>4. ASSUME NEW e \in ClientEnvelope, NEW whole \in BOOLEAN,
                 Fresh(buffered, maxReceived, e, <<>>, whole), e.keep
          PROVE  FlushAcked'
      <3>1. CASE whole = TRUE
        <4>1. Fresh(buffered, maxReceived, e, <<>>, TRUE)
          BY <2>4, <3>1
        <4> QED BY <1>1, <2>1, <2>2, <2>4, <4>1, FlushWrites
      <3>2. CASE whole = FALSE
        <4>1. Fresh(buffered, maxReceived, e, <<>>, FALSE)
          BY <2>4, <3>2
        <4> QED BY <1>1, <2>1, <2>2, <4>1, FlushCut
      <3> QED BY <3>1, <3>2
    <2> QED BY <1>5, <2>1, <2>3, <2>4, BufferedEffect
  <1> QED BY <1>2, <1>3, <1>4, <1>5

LEMMA FlushRemoteRead ==
    ASSUME TypeOK, FlushSent, FlushAcked, RemoteRead
    PROVE  FlushSent' /\ FlushAcked'
  <1> DEFINE e == Head(toRemote)
  <1>1. /\ toRemote \in Seq(ClientEnvelope) /\ toRemote # <<>> /\ toRemote' = Tail(toRemote)
        /\ UNCHANGED <<toClient, rNext, rAcked, written, acked>>
    BY DEF RemoteRead, TypeOK
  <1>2. /\ e = toRemote[1] /\ Len(toRemote') = Len(toRemote) - 1 /\ Len(toRemote) \in Nat
        /\ \A i \in 1..Len(toRemote') : i + 1 \in 1..Len(toRemote) /\ toRemote'[i] = toRemote[i + 1]
        /\ \A j \in 1..Len(toRemote) :
              j = 1 \/ (j - 1 \in 1..Len(toRemote') /\ toRemote'[j - 1] = toRemote[j])
    BY <1>1, TailPlaces
  <1>3. flush'.id # None =>
           /\ flush.id # None /\ flush'.id = flush.id /\ flush'.floor = flush.floor
           /\ flush'.since = flush.since \cup {e.id}
    <2>1. CASE flush.id # None /\ e.re = flush.id
      BY <2>1 DEF RemoteRead
    <2>2. CASE flush.id # None /\ e.re # flush.id
      <3>1. flush' = [flush EXCEPT !.since = @ \cup {e.id}]
        BY <2>2 DEF RemoteRead
      <3>2. flush \in [id: Nat, floor: Nat, since: SUBSET Nat]
        BY DEF TypeOK
      <3> QED BY <2>2, <3>1, <3>2
    <2>3. CASE flush.id = None
      BY <2>3 DEF RemoteRead
    <2> QED BY <2>1, <2>2, <2>3
  <1>4. FlushSent'
    BY <1>1, <1>3 DEF FlushSent, Unread
  <1>5. \A i \in 1..Len(toRemote') : toRemote'[i] \in written'
    BY <1>1, <1>2 DEF FlushAcked
  <1> HIDE DEF e
  <1>6. ASSUME flush'.id # None, NEW i \in 1..Len(toRemote'),
               toRemote'[i].re = flush'.id, ~toRemote'[i].keep,
               NEW x \in written, x.keep, flush'.floor < x.id, x.id < toRemote'[i].id
        PROVE  x.id \in flush'.since \/ \E j \in 1..i-1 : toRemote'[j].id = x.id
    <2>1. i + 1 \in 1..Len(toRemote) /\ toRemote'[i] = toRemote[i + 1]
      BY <1>2
    <2>2. x.id \in flush.since \/ \E j \in 1..(i + 1)-1 : toRemote[j].id = x.id
      BY <1>3, <1>6, <2>1 DEF FlushAcked, Recovered
    <2>3. ASSUME NEW j \in 1..(i + 1)-1, toRemote[j].id = x.id
          PROVE  x.id \in flush'.since \/ \E l \in 1..i-1 : toRemote'[l].id = x.id
      <3>1. CASE j = 1
        BY <1>2, <1>3, <1>6, <2>3, <3>1
      <3>2. CASE j # 1
        <4>1. j \in 1..Len(toRemote) /\ j - 1 \in 1..i-1
          BY <1>2, <2>1, <3>2
        <4> QED BY <1>2, <2>3, <3>2, <4>1
      <3> QED BY <3>1, <3>2
    <2> QED BY <1>3, <1>6, <2>2, <2>3
  <1>7. FlushAcked'
    BY <1>1, <1>5, <1>6 DEF FlushAcked, Recovered
  <1> QED BY <1>4, <1>7

LEMMA FlushSends ==
    ASSUME TypeOK, FifoInv, ReplyInv, FlushSent, FlushAcked, RemoteSends
    PROVE  FlushSent' /\ FlushAcked'
  <1>1. PICK ms \in Seq(RemoteEnvelope) : Asks(ms) /\ FlushBy(ms)
    BY DEF RemoteSends
  <1>2. /\ UNCHANGED <<written, toRemote, acked>> /\ toClient \in Seq(RemoteEnvelope)
        /\ toClient' = toClient \o ms /\ rNext' = rNext + Len(ms)
        /\ rAcked \in Nat /\ rAcked <= rAcked' /\ \A i \in 1..Len(ms) : ms[i].ack <= rAcked'
        /\ \A i \in 1..Len(ms) : ms[i].id = rNext + i - 1
    BY <1>1 DEF RemoteSends, Asks, Appended, TypeOK
  <1>t. /\ rNext \in Nat /\ acked \in Nat /\ rAcked' \in Nat /\ Len(ms) \in Nat
        /\ flush.id \in Nat /\ flush.floor \in Nat
    BY <1>1 DEF TypeOK, Asks
  <1>3. ASSUME NEW i \in 1..Len(toClient')
        PROVE  \/ i \in 1..Len(toClient) /\ toClient'[i] = toClient[i]
               \/ \E j \in 1..Len(ms) : toClient'[i] = ms[j]
    BY <1>2
  <1>4. ASSUME NEW i \in 1..Len(toClient)
        PROVE  /\ toClient[i].id \in Nat /\ toClient[i].ack \in Nat
               /\ toClient[i].id < rNext /\ toClient[i].ack <= rAcked
    <2>1. toClient[i] \in RemoteEnvelope
      BY <1>2
    <2> QED BY <2>1 DEF FifoInv, FlushSent, RemoteEnvelope
  <1>5. \A j \in 1..Len(ms) : rNext <= ms[j].id
    BY <1>2, <1>t
  <1>6. acked <= rAcked' /\ \A i \in 1..Len(toClient') : toClient'[i].ack <= rAcked'
    <2>1. acked <= rAcked'
      BY <1>2, <1>t DEF FlushSent
    <2>2. ASSUME NEW i \in 1..Len(toClient) PROVE toClient[i].ack <= rAcked'
      <3>1. toClient[i].ack \in Nat /\ toClient[i].ack <= rAcked
        BY <1>4
      <3> QED BY <1>2, <1>t, <3>1
    <2> QED BY <1>2, <1>3, <2>1, <2>2
  <1>7. CASE UNCHANGED flush
    <2>1. FlushAcked'
      BY <1>2, <1>7 DEF FlushAcked, Recovered
    <2>2. ASSUME flush.id # None
          PROVE  /\ flush.id < rNext'
                 /\ \A i \in 1..Len(toClient') :
                       /\ toClient'[i].id = flush.id => toClient'[i].kind = "Flush"
                       /\ toClient'[i].id <= flush.id => toClient'[i].ack <= flush.floor
      <3>1. flush.id < rNext
        BY <2>2 DEF FlushSent
      <3>2. flush.id < rNext'
        BY <1>2, <1>t, <3>1
      <3>3. \A j \in 1..Len(ms) : ~(ms[j].id <= flush.id) /\ ms[j].id # flush.id
        BY <1>2, <1>t, <3>1
      <3> QED BY <1>3, <2>2, <3>2, <3>3 DEF FlushSent
    <2>3. ASSUME flush.id # None, Unread(flush.id)' PROVE acked <= flush.floor
      <3>1. PICK i \in 1..Len(toClient') : toClient'[i].id = flush.id
        BY <1>7, <2>3 DEF Unread
      <3>2. \A j \in 1..Len(ms) : ms[j].id # flush.id
        BY <1>2, <1>t, <2>3 DEF FlushSent
      <3>3. Unread(flush.id)
        BY <1>3, <3>1, <3>2 DEF Unread
      <3> QED BY <2>3, <3>3 DEF FlushSent
    <2>4. FlushSent'
      BY <1>2, <1>6, <1>7, <2>2, <2>3 DEF FlushSent
    <2> QED BY <2>1, <2>4
  <1>8. CASE /\ flush.id = None /\ Len(ms) = 1 /\ ms[1].kind = "Flush"
             /\ flush'.id = rNext /\ flush'.floor = rAcked'
    <2>1. \A j \in 1..Len(ms) : ms[j].kind = "Flush"
      BY <1>8
    <2>2. rNext < rNext'
      BY <1>2, <1>8, <1>t
    <2>3. \A i \in 1..Len(toClient') :
             /\ toClient'[i].id = rNext => toClient'[i].kind = "Flush"
             /\ toClient'[i].id <= rNext => toClient'[i].ack <= rAcked'
      <3>1. \A i \in 1..Len(toClient) : toClient[i].id # rNext
        BY <1>4, <1>t
      <3> QED BY <1>3, <1>6, <2>1, <3>1
    <2>4. FlushSent'
      BY <1>2, <1>6, <1>8, <2>2, <2>3 DEF FlushSent
    <2>5. \A i \in 1..Len(toRemote) : toRemote[i] \in written /\ toRemote[i].re # rNext
      <3>1. \A x \in written : x.re \in Nat /\ x.re < rNext
        BY DEF ReplyInv, TypeOK, ClientEnvelope
      <3> QED BY <1>t, <3>1 DEF FlushAcked
    <2>6. FlushAcked'
      BY <1>2, <1>8, <2>5 DEF FlushAcked
    <2> QED BY <2>4, <2>6
  <1> QED BY <1>1, <1>7, <1>8 DEF FlushBy

LEMMA FlushStutter == FlushSent /\ FlushAcked /\ UNCHANGED vars => FlushSent' /\ FlushAcked'
  BY DEF FlushSent, FlushAcked, Recovered, Unread, vars, clientVars, callVars, remoteVars

LEMMA FlushNext ==
    ASSUME TypeOK, BufferInv, FifoInv, OwedInv, ReplyInv, FlushSent, FlushAcked, [Next]_vars
    PROVE  FlushSent' /\ FlushAcked'
  <1>1. CASE ClientRead
    BY <1>1, FlushRead
  <1>2. CASE \/ Start
             \/ \E isOpen \in BOOLEAN, t \in BOOLEAN, end \in Ends : Call(isOpen, t, end)
             \/ \E cut \in BOOLEAN : Abandon(cut)
             \/ ReadGarbage
    BY <1>2, FlushPlain
  <1>3. CASE RemoteRead
    BY <1>3, FlushRemoteRead
  <1>4. CASE RemoteStep /\ ~RemoteRead
    BY <1>4, RemoteStepSends, FlushSends DEF OwedInv
  <1>5. CASE UNCHANGED vars
    BY <1>5, FlushStutter
  <1> QED BY <1>1, <1>2, <1>3, <1>4, <1>5 DEF Next, ClientStep

\* When the special ack of a flush arrives, the remote server has received since the
\* flush every kept envelope written before that ack and not acknowledged before the
\* flush (replay_buffered_messages, send_special_ack).
THEOREM FlushesRecover == Spec => []FlushRecovers
  <1>1. Init => FlushSent /\ FlushAcked
    <2> SUFFICES ASSUME Init PROVE FlushSent /\ FlushAcked
      OBVIOUS
    <2>1. /\ Len(toClient) = 0 /\ Len(toRemote) = 0 /\ acked = 0 /\ rAcked = 0
          /\ flush.id = None
      BY DEF Init, Counters
    <2> QED BY <2>1 DEF FlushSent, FlushAcked
  <1>2. (TypeOK /\ BufferInv /\ FifoInv /\ OwedInv /\ ReplyInv /\ FlushSent /\ FlushAcked
         /\ [Next]_vars) => FlushSent' /\ FlushAcked'
    BY FlushNext
  <1>3. TypeOK /\ FlushAcked => FlushRecovers
    <2> SUFFICES ASSUME TypeOK, FlushAcked, toRemote # <<>>, flush.id # None,
                        Head(toRemote).re = flush.id, ~Head(toRemote).keep,
                        NEW x \in written, x.keep, flush.floor < x.id, x.id < Head(toRemote).id
                 PROVE  x.id \in flush.since
      BY DEF FlushRecovers
    <2>1. Head(toRemote) = toRemote[1] /\ 1 \in 1..Len(toRemote)
      BY DEF TypeOK
    <2>2. 1..(1 - 1) = {}
      OBVIOUS
    <2> QED BY <2>1, <2>2 DEF FlushAcked, Recovered
  <1> QED BY <1>1, <1>2, <1>3, TypeCorrect, BufferAlways, FifoAlways, RepliesAlways, PTL DEF Spec
=============================================================================
