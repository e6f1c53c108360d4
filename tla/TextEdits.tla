------------------------------ MODULE TextEdits ------------------------------
(***************************************************************************)
(* The text of a file on its way to the tab and back.  It arrives in       *)
(* chunks cut by bytes (stream_buffer_content of commands.rs) that the tab *)
(* decodes; it is edited in UTF-16 offsets and positions (store/           *)
(* bufferRuntime.js); the batches of edits are carried out on the old text *)
(* by text_edits.rs for the ssh path and by operations_from_batches of     *)
(* client.rs for the remote server.                                        *)
(*                                                                         *)
(* A text is a sequence of characters, and an index into it, the number of *)
(* characters before a place, stands for the byte index of the code.  CRLF *)
(* is left out: what an editor makes of it is Monaco's affair.             *)
(***************************************************************************)
EXTENDS Integers, Sequences, SequencesExt, FiniteSets, FiniteSetsExt

CONSTANTS
    Chars,          \* characters
    Utf8, Utf16,    \* bytes and code units of each
    Newline,
    Mark,           \* U+FEFF, which a decoder drops from the beginning of a stream
    Files,          \* texts a file may have
    Inserted,       \* texts an edit may put in
    InitialBytes, ChunkBytes,   \* sizes of the first chunk and of the others
    MaxBatches,     \* bound: edits between two saves
    MaxLength       \* bound: characters of a text once edited

ASSUME TextAssumption ==
    /\ Utf8 \in [Chars -> Nat \ {0}] /\ Utf16 \in [Chars -> Nat \ {0}]
    /\ Files \subseteq Seq(Chars) /\ Inserted \subseteq Seq(Chars)
    /\ InitialBytes \in Nat /\ ChunkBytes \in Nat
    /\ "refused" \notin Chars

VARIABLES
    remoteFile,     \* the content the gateway opened
    sent,           \* bytes of it sent in chunks; -1 once the open is complete
    text,           \* the tab's currentContent
    base,           \* its baseContent
    batches,        \* its pendingBatches
    marked          \* history: the file began with a mark when it was opened

textVars == <<remoteFile, sent, text, base, batches, marked>>

Invalid == -1
Complete == -1

U16(t, n) == MapThenSumSet(LAMBDA i : Utf16[t[i]], 1..n)
U8(t, n) == MapThenSumSet(LAMBDA i : Utf8[t[i]], 1..n)

The(ns) == IF ns = {} THEN Invalid ELSE Min(ns)

-----------------------------------------------------------------------------
(* Chunks                                                                  *)

\* is_char_boundary, as byte offsets
Boundaries(t) == {U8(t, n) : n \in 0..Len(t)}

\* The end of the next chunk: back to a boundary, or on to one when the chunk is shorter
\* than the character it begins with.
Cut(t, offset, size) ==
    LET after == {b \in Boundaries(t) : b > offset}
        fits == {b \in after : b <= offset + size}
    IN  IF fits = {} THEN Min(after) ELSE Max(fits)

\* The bytes of a text, each as [char, of, byte].
Bytes(t) ==
    FlattenSeq([i \in DOMAIN t |-> [k \in 1..Utf8[t[i]] |-> [char |-> t[i], byte |-> k]]])

\* createChunkDecoder: a character is out when its last byte is in.
Decoded(bytes) ==
    FlattenSeq([i \in DOMAIN bytes |->
        IF bytes[i].byte = Utf8[bytes[i].char] THEN <<bytes[i].char>> ELSE <<>>])

Marked(t) == t # <<>> /\ t[1] = Mark

\* new TextDecoder(), whose ignoreBOM is false: a mark at the beginning is no text.
WithoutMark(t) == IF Marked(t) THEN Tail(t) ELSE t

-----------------------------------------------------------------------------
(* Offsets and positions                                                   *)

\* Mutant: offsets are counted in characters.
AtCharacter(t, offset) == IF offset <= Len(t) THEN offset ELSE Invalid

\* utf16_offset_to_byte_index, of both files: Invalid inside a pair or past the end.
AtOffset(t, offset) == The({n \in 0..Len(t) : U16(t, n) = offset})

Newlines(t, n) == Cardinality({i \in 1..n : t[i] = Newline})

LineStart(t, line) == The({n \in 0..Len(t) : Newlines(t, n) = line})

\* position_to_byte_index and line_character_to_byte_index
AtPosition(t, p) ==
    The({n \in 0..Len(t) :
            /\ Newlines(t, n) = p.line
            /\ U16(t, n) - U16(t, LineStart(t, p.line)) = p.character})

\* offsetToLspPosition, and Monaco's positions less one.
PositionAt(t, n) ==
    LET line == Newlines(t, n)
    IN  [line |-> line, character |-> U16(t, n) - U16(t, LineStart(t, line))]

\* toBufferTextChange of a replacement of the characters after s up to e.
Change(t, s, e, new) ==
    [offset |-> U16(t, s), length |-> U16(t, e) - U16(t, s),
     start |-> PositionAt(t, s), end |-> PositionAt(t, e), text |-> new]

Spliced(t, s, e, new) == SubSeq(t, 1, s) \o new \o SubSeq(t, e + 1, Len(t))

-----------------------------------------------------------------------------
(* The gateway                                                             *)

Refused == <<"refused">>      \* InvalidRequest

\* apply_text_change: offsets and positions must name the same places.
ApplyChange(t, c) ==
    LET s == AtOffset(t, c.offset)
        e == AtOffset(t, c.offset + c.length)
    IN  IF t = Refused \/ s = Invalid \/ e = Invalid
            \/ AtPosition(t, c.start) # s \/ AtPosition(t, c.end) # e
        THEN Refused ELSE Spliced(t, s, e, c.text)

\* operations_from_batches looks at the offsets only.  What the remote server makes of the
\* operations it sends is not modelled; this is the text the gateway expects of it.
OperateChange(t, c) ==
    LET s == AtOffset(t, c.offset)
        e == AtOffset(t, c.offset + c.length)
    IN  IF t = Refused \/ s = Invalid \/ e = Invalid THEN Refused ELSE Spliced(t, s, e, c.text)

Ordered(bs) == \A i \in DOMAIN bs : bs[i].seq > IF i = 1 THEN 0 ELSE bs[i - 1].seq

Changes(bs) == FlattenSeq([i \in DOMAIN bs |-> bs[i].changes])

\* apply_text_change_batches: one change after another, each on the text so far.
ApplyBatches(t, bs) ==
    IF Ordered(bs) THEN FoldLeft(ApplyChange, t, Changes(bs)) ELSE Refused

Operate(t, bs) ==
    IF Ordered(bs) THEN FoldLeft(OperateChange, t, Changes(bs)) ELSE Refused

-----------------------------------------------------------------------------
(* The tab                                                                 *)

TextInit ==
    /\ remoteFile = <<>> /\ sent = Complete
    /\ text = <<>> /\ base = <<>> /\ batches = <<>> /\ marked = FALSE

\* buffer.open and startLoading; the file may have changed.
OpenText(f) ==
    /\ sent = Complete /\ batches = <<>>
    /\ remoteFile' = f /\ sent' = 0 /\ text' = <<>> /\ marked' = Marked(f)
    /\ UNCHANGED <<base, batches>>

\* One buffer.chunk, decoded and appended.
Chunk ==
    /\ sent \in 0..(U8(remoteFile, Len(remoteFile)) - 1)
    /\ LET end   == Cut(remoteFile, sent, IF sent = 0 THEN InitialBytes ELSE ChunkBytes)
           chunk == Decoded(SubSeq(Bytes(remoteFile), sent + 1, end))
       IN  /\ sent' = end
           /\ text' = text \o IF sent = 0 THEN WithoutMark(chunk) ELSE chunk
    /\ UNCHANGED <<remoteFile, base, batches, marked>>

\* buffer.open.complete and finishLoading
FinishLoading ==
    /\ sent = U8(remoteFile, Len(remoteFile)) /\ sent' = Complete
    /\ base' = text /\ batches' = <<>>
    /\ UNCHANGED <<remoteFile, text, marked>>

NextSeq == IF batches = <<>> THEN 1 ELSE batches[Len(batches)].seq + 1

Push(changes) == batches' = Append(batches, [seq |-> NextSeq, changes |-> changes])

Editing == sent = Complete /\ Len(batches) < MaxBatches /\ UNCHANGED <<remoteFile, sent, base, marked>>

\* onModelContentChanged, of an edit in one place.
EditOnce(s, e, new) ==
    /\ Editing
    /\ text' = Spliced(text, s, e, new) /\ Len(text') <= MaxLength
    /\ Push(<<Change(text, s, e, new)>>)

\* The same in two places at once: Monaco names both in the old text, the later first.
EditTwo(s, e, s2, e2, new) ==
    /\ Editing /\ e < s2
    /\ text' = Spliced(Spliced(text, s2, e2, new), s, e, new) /\ Len(text') <= MaxLength
    /\ Push(<<Change(text, s2, e2, new), Change(text, s, e, new)>>)

\* buildSnapshotBatch, when a backup is restored.
Restore ==
    /\ sent = Complete /\ batches # <<>>
    /\ batches' = <<[seq |-> 1, changes |-> <<Change(base, 0, Len(base), text)>>]>>
    /\ UNCHANGED <<remoteFile, sent, text, base, marked>>

\* A save the gateway carries out, over either path, and handleSaveComplete.
Save(result) ==
    /\ sent = Complete /\ batches # <<>>
    /\ result # Refused /\ U8(result, Len(result)) = U8(text, Len(text))
    /\ remoteFile' = result /\ base' = text /\ batches' = <<>>
    /\ UNCHANGED <<sent, text, marked>>

Places == {p \in (0..Len(text)) \X (0..Len(text)) : p[1] <= p[2]}

TextNext ==
    \/ \E f \in Files : OpenText(f)
    \/ Chunk \/ FinishLoading \/ Restore
    \/ \E p \in Places, new \in Inserted : EditOnce(p[1], p[2], new)
    \/ \E p, q \in Places, new \in Inserted : EditTwo(p[1], p[2], q[1], q[2], new)
    \/ Save(ApplyBatches(remoteFile, batches)) \/ Save(Operate(remoteFile, batches))

TextSpec == TextInit /\ [][TextNext]_textVars

-----------------------------------------------------------------------------
(* Properties                                                              *)

TextTypeOK ==
    /\ {remoteFile, text, base} \subseteq Seq(Chars) /\ marked \in BOOLEAN
    /\ sent \in {Complete} \cup Boundaries(remoteFile)

(* The text decoded from the chunks so far is the beginning of the file the chunks make
   up, a mark at its beginning left out; and whatever was edited since, in one place or
   several, across lines and pairs, restored or not, both programs of the gateway compute
   from the base text and the batches the text the user sees, and neither refuses them.
   That base text is the file's, unless the file began with a mark: of such a file it is
   short of the mark, and so is every offset the tab names.
   [commands.rs: stream_buffer_content; text_edits.rs; bufferRuntime.js:278-316, 746-766;
   useRemoteWorkspace.js: createChunkDecoder] *)
Arrived == IF marked /\ sent # 0 THEN <<Mark>> \o text ELSE text
TextExact ==
    IF sent # Complete
    THEN U8(Arrived, Len(Arrived)) = sent /\ IsPrefix(Arrived, remoteFile)
    ELSE /\ base = remoteFile \/ marked
         /\ ApplyBatches(base, batches) = text
         /\ Operate(base, batches) = text
=============================================================================
