--------------------------- MODULE SemanticTokens ---------------------------
(***************************************************************************)
(* Semantic highlighting (lib/languages/semanticTokens.js and the provider *)
(* of monacoLanguages.js with serverHighlightProvider.js): Monaco asks for *)
(* the tokens of a model, the server may answer in one of two forms, and   *)
(* Monaco is given a flat array of five numbers a token, relative to the   *)
(* token before.                                                           *)
(*                                                                         *)
(* A name is the sequence of its parts between dots.  The aliases a field  *)
(* may have in the payload and the trimming of names are left out, and so  *)
(* are types and modifiers given as numbers, which are taken as they are.  *)
(***************************************************************************)
EXTENDS Integers, Sequences, SequencesExt, FiniteSets, FiniteSetsExt

CONSTANTS
    Tokens,         \* tokens a server names by position
    Arrays,         \* arrays it gives in Monaco's form
    MaxTokens,      \* bound: tokens of a payload
    MaxUint         \* largest number taken, 2^32 - 1 in the code

\* Names are sequences, and all of the modifiers together are a number.
ASSUME HighlightAssumption ==
    /\ MaxTokens \in Nat /\ MaxUint \in Nat /\ MaxUint >= 1023
    /\ \A t \in Tokens : t.type \in Seq(STRING)

VARIABLES
    mode,           \* HIGHLIGHT_MODES of the request under way
    cancelled,      \* its cancellation token
    data,           \* what Monaco was given last
    said            \* history: the tokens the answer behind data names

highlightVars == <<mode, cancelled, data, said>>

Idle == "idle"
Absent == -1        \* null, and whatever isValidUint refuses

TokenTypes ==
    <<"namespace", "type", "class", "enum", "interface", "struct", "typeParameter",
      "parameter", "variable", "property", "enumMember", "event", "function", "method",
      "macro", "keyword", "modifier", "comment", "string", "number", "regexp", "operator",
      "decorator", "tag">>

TokenModifiers ==
    <<"declaration", "definition", "readonly", "static", "deprecated", "abstract", "async",
      "modification", "documentation", "defaultLibrary">>

\* 1 << modifierIndex
Bits == <<1, 2, 4, 8, 16, 32, 64, 128, 256, 512>>

\* CAPTURE_TOKEN_TYPES: the captures each type is that of.
CaptureTypes ==
    [decorator |-> {<<"attribute">>},
     keyword |-> {<<"boolean">>, <<"keyword">>},
     string |-> {<<"character">>, <<"embedded">>, <<"escape">>, <<"string">>},
     comment |-> {<<"comment">>},
     enumMember |-> {<<"constant">>},
     class |-> {<<"constructor">>},
     enum |-> {<<"enum">>},
     number |-> {<<"float">>, <<"number">>},
     function |-> {<<"function">>, <<"function", "builtin">>, <<"function", "call">>},
     method |-> {<<"function", "method">>, <<"function", "method", "call">>, <<"method">>},
     macro |-> {<<"function", "macro">>, <<"macro">>},
     property |-> {<<"label">>, <<"property">>, <<"variable", "member">>},
     namespace |-> {<<"module">>, <<"namespace">>},
     operator |-> {<<"operator">>},
     regexp |-> {<<"regexp">>, <<"string", "regexp">>},
     tag |-> {<<"tag">>},
     type |-> {<<"type">>, <<"type", "builtin">>},
     typeParameter |-> {<<"type", "parameter">>},
     variable |-> {<<"variable">>},
     parameter |-> {<<"variable", "parameter">>}]

-----------------------------------------------------------------------------
(* One token                                                               *)

Uint(v) == IF v \in 0..MaxUint THEN v ELSE Absent

IndexOfType(type) == (CHOOSE i \in DOMAIN TokenTypes : TokenTypes[i] = type) - 1

IsCaptureOf(name, type) == name \in CaptureTypes[type]

\* semanticTokenTypeForCapture: the longest beginning of the name that is a capture.
CaptureIndex(name) ==
    LET known == {n \in 1..Len(name) :
                    \E type \in DOMAIN CaptureTypes : IsCaptureOf(SubSeq(name, 1, n), type)}
    IN  IF known = {} THEN Absent
        ELSE IndexOfType(CHOOSE type \in DOMAIN CaptureTypes :
                            IsCaptureOf(SubSeq(name, 1, Max(known)), type))

\* semanticTokenTypeIndex: a type of the legend by its name, or a capture.
TypeIndex(name) ==
    IF Len(name) = 1 /\ name[1] \in Range(TokenTypes) THEN IndexOfType(name[1])
    ELSE CaptureIndex(name)

\* semanticTokenModifierBitset: a modifier the legend does not have sets no bit.
Bitset(modifiers) ==
    MapThenSumSet(LAMBDA i : Bits[i],
                  {i \in DOMAIN TokenModifiers : TokenModifiers[i] \in modifiers})

\* An explicit length, else the distance to an end on the same line.
LengthOf(t) ==
    CASE Uint(t.length) # Absent -> t.length
      [] Uint(t.length) = Absent /\ Uint(t.endLine) = Uint(t.line) /\ Uint(t.endCharacter) # Absent ->
            t.endCharacter - Uint(t.startCharacter)
      [] OTHER -> Absent

\* normalizeAbsoluteToken as a sequence of one token, or of none.
Absolute(t) ==
    IF Uint(t.line) = Absent \/ Uint(t.startCharacter) = Absent \/ LengthOf(t) <= 0
        \/ TypeIndex(t.type) = Absent
    THEN <<>>
    ELSE <<[line |-> t.line, start |-> t.startCharacter, length |-> LengthOf(t),
            type |-> TypeIndex(t.type), modifiers |-> Bitset(t.modifiers)]>>

-----------------------------------------------------------------------------
(* An answer                                                               *)

Normalized(tokens) == FlattenSeq([i \in DOMAIN tokens |-> Absolute(tokens[i])])

\* The order of the text, tokens at the same place in the order they were named.
Before(ts, i, j) ==
    \/ ts[i].line < ts[j].line
    \/ ts[i].line = ts[j].line /\ ts[i].start < ts[j].start
    \/ ts[i].line = ts[j].line /\ ts[i].start = ts[j].start /\ i < j

\* The stable sort by line and start: a token comes after as many as are before it.
Sorted(ts) ==
    LET rank(i) == Cardinality({j \in DOMAIN ts : Before(ts, j, i)}) + 1
    IN  [k \in DOMAIN ts |-> ts[CHOOSE i \in DOMAIN ts : rank(i) = k]]

\* Mutant: the start is taken from the token before on a new line too.
RelativeAcross(t, previous) ==
    <<t.line - previous.line, t.start - previous.start, t.length, t.type, t.modifiers>>

\* Mutant: the start is never taken from the token before.
RelativeToLine(t, previous) ==
    <<t.line - previous.line, t.start, t.length, t.type, t.modifiers>>

\* One token after another, the first relative to the start of the model.
Relative(t, previous) ==
    LET deltaLine == t.line - previous.line
    IN  <<deltaLine, IF deltaLine = 0 THEN t.start - previous.start ELSE t.start,
          t.length, t.type, t.modifiers>>

\* encodeSemanticTokens.  Sorted tokens have no negative delta to be skipped.
Encode(tokens) ==
    LET ts == <<[line |-> 0, start |-> 0]>> \o Sorted(Normalized(tokens))
    IN  FlattenSeq([i \in 1..(Len(ts) - 1) |-> Relative(ts[i + 1], ts[i])])

\* normalizeEncodedData
WellFormed(array) == Len(array) % 5 = 0 /\ \A v \in Range(array) : Uint(v) # Absent

\* normalizeSemanticTokensResponse: an array of Monaco's form, else the tokens; the
\* array of a payload without one is <<Absent>>.
Response(payload) ==
    CASE payload.unsupported -> <<>>
      [] ~payload.unsupported /\ WellFormed(payload.array) -> payload.array
      [] OTHER -> Encode(payload.tokens)

-----------------------------------------------------------------------------
(* A request of Monaco's                                                   *)

HighlightInit == mode = Idle /\ cancelled = FALSE /\ data = <<>> /\ said = <<>>

Payloads ==
    [unsupported : BOOLEAN, array : Arrays, tokens : SeqOf(Tokens, MaxTokens)]

\* provideDocumentSemanticTokens up to its await.  Without a server to ask, for want of
\* the capability or of a model short enough, there are no tokens; a client provider is
\* never configured.
Provide(m, able) ==
    /\ mode = Idle
    /\ mode' = IF m \in {"server-first", "server"} /\ able THEN m ELSE Idle
    /\ cancelled' = FALSE /\ data' = <<>> /\ said' = <<>>

\* The model was edited or closed.
Cancel ==
    /\ mode # Idle /\ cancelled' = TRUE
    /\ UNCHANGED <<mode, data, said>>

\* What fetchServerSemanticTokens gives: the tokens of a payload, or none after a failure.
Fetched(payload) ==
    /\ mode # Idle /\ mode' = Idle
    /\ data' = IF cancelled THEN <<>> ELSE Response(payload)
    /\ said' = IF cancelled THEN <<>> ELSE <<payload>>
    /\ UNCHANGED cancelled

FetchFails ==
    /\ mode # Idle /\ mode' = Idle
    /\ UNCHANGED <<cancelled, data, said>>

Modes == {"server-first", "server", "client", "native"}

HighlightNext ==
    \/ \E m \in Modes, able \in BOOLEAN : Provide(m, able)
    \/ Cancel \/ FetchFails
    \/ mode # Idle /\ \E p \in Payloads : Fetched(p)

HighlightSpec == HighlightInit /\ [][HighlightNext]_highlightVars

-----------------------------------------------------------------------------
(* Properties                                                              *)

HighlightTypeOK ==
    /\ mode \in Modes \cup {Idle} /\ cancelled \in BOOLEAN
    /\ \A v \in Range(data) : v \in 0..MaxUint

\* Monaco's reading of the array: positions add up, a new line starts at zero.
Decode(array) ==
    LET token(i) == SubSeq(array, 5 * i - 4, 5 * i)
        line[i \in 0..(Len(array) \div 5)] == IF i = 0 THEN 0 ELSE line[i - 1] + token(i)[1]
        start[i \in 0..(Len(array) \div 5)] ==
            IF i = 0 THEN 0
            ELSE token(i)[2] + IF token(i)[1] = 0 THEN start[i - 1] ELSE 0
    IN  [i \in 1..(Len(array) \div 5) |->
            [line |-> line[i], start |-> start[i], length |-> token(i)[3],
             type |-> token(i)[4], modifiers |-> token(i)[5]]]

(* Whatever order the server named its tokens in, what Monaco reads back is every token
   with a position, a length and a type, at its own place and in the order of the text;
   a request that was cancelled or never sent brings none.
   [semanticTokens.js: encodeSemanticTokens, normalizeAbsoluteToken] *)
TokensExact ==
    \/ data = <<>> /\ said = <<>>
    \/ said # <<>> /\ ~cancelled /\ data = said[1].array /\ WellFormed(data)
    \/ /\ said # <<>> /\ ~cancelled
       /\ LET ts == Decode(data)
              read == Normalized(said[1].tokens)
          IN  /\ said[1].unsupported \/ ToBag(ts) = ToBag(read)
              /\ \A i \in 1..(Len(ts) - 1) :
                    \/ ts[i].line < ts[i + 1].line
                    \/ ts[i].line = ts[i + 1].line /\ ts[i].start <= ts[i + 1].start
=============================================================================
