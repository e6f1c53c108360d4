------------------------------ MODULE TextProofs ------------------------------
(***************************************************************************)
(* Proofs about what an editor shows of a file: its tokens                 *)
(* (SemanticTokens.tla) and its text (TextEdits.tla).                      *)
(***************************************************************************)
EXTENDS SemanticTokens, TextEdits, SequenceLemmas

-----------------------------------------------------------------------------
(* Tokens: what is read of an answer                                       *)

\* The tokens normalizeAbsoluteToken takes, and what it makes of one.
Takes(t) ==
    ~(Uint(t.line) = Absent \/ Uint(t.startCharacter) = Absent \/ LengthOf(t) <= 0
        \/ TypeIndex(t.type) = Absent)

Entry(t) ==
    [line |-> t.line, start |-> t.startCharacter, length |-> LengthOf(t),
     type |-> TypeIndex(t.type), modifiers |-> Bitset(t.modifiers)]

Entries == {Entry(t) : t \in {u \in Tokens : Takes(u)}}

Located(e) ==
    /\ e.line \in Nat /\ e.start \in Nat
    /\ e = [line |-> e.line, start |-> e.start, length |-> e.length, type |-> e.type,
            modifiers |-> e.modifiers]

LEMMA UintTaken == ASSUME NEW v, Uint(v) # Absent PROVE v \in 0..MaxUint /\ Uint(v) = v
BY HighlightAssumption DEF Uint, Absent

LEMMA EntriesLocated == \A e \in Entries : Located(e)
<1>1. ASSUME NEW t, Takes(t) PROVE Located(Entry(t))
    <2>1. t.line \in Nat /\ t.startCharacter \in Nat
        BY <1>1, UintTaken, HighlightAssumption DEF Takes
    <2> QED BY <2>1 DEF Located, Entry
<1> QED BY <1>1 DEF Entries

LEMMA NormalizedType ==
    ASSUME NEW ts \in Seq(Tokens)
    PROVE  Normalized(ts) \in Seq(Entries)
<1>1. ASSUME NEW t \in Tokens PROVE Absolute(t) \in Seq(Entries)
    <2>1. CASE Takes(t)
        <3>1. Absolute(t) = <<Entry(t)>> /\ Entry(t) \in Entries
            BY <2>1 DEF Absolute, Takes, Entry, Entries
        <3> QED BY <3>1
    <2>2. CASE ~Takes(t)
        <3>1. Absolute(t) = <<>>
            BY <2>2 DEF Absolute, Takes
        <3> QED BY <3>1
    <2> QED BY <2>1, <2>2
<1>2. [i \in DOMAIN ts |-> Absolute(ts[i])] \in Seq(Seq(Entries))
    <2>1. DOMAIN ts = 1..Len(ts) /\ Len(ts) \in Nat /\ \A i \in 1..Len(ts) : ts[i] \in Tokens
        OBVIOUS
    <2>2. [i \in DOMAIN ts |-> Absolute(ts[i])] \in [1..Len(ts) -> Seq(Entries)]
        BY <1>1, <2>1
    <2> QED BY <2>1, <2>2, FunctionIsSeq
<1> QED BY <1>2, FlattenType DEF Normalized

-----------------------------------------------------------------------------
(* Tokens: the order of the text                                           *)

InOrder(ts) ==
    \A i \in 1..(Len(ts) - 1) :
        \/ ts[i].line < ts[i + 1].line
        \/ ts[i].line = ts[i + 1].line /\ ts[i].start <= ts[i + 1].start

LEMMA BeforeOrders ==
    ASSUME NEW ts \in Seq(Entries)
    PROVE  Orders({p \in (1..Len(ts)) \X (1..Len(ts)) : Before(ts, p[1], p[2])}, Len(ts))
<1>1. \A i \in 1..Len(ts) : ts[i].line \in Nat /\ ts[i].start \in Nat
    BY EntriesLocated DEF Located
<1>2. \A i \in 1..Len(ts) : ~Before(ts, i, i)
    BY <1>1 DEF Before
<1>3. \A i, j, k \in 1..Len(ts) : Before(ts, i, j) /\ Before(ts, j, k) => Before(ts, i, k)
    BY <1>1 DEF Before
<1>4. \A i, j \in 1..Len(ts) : i = j \/ Before(ts, i, j) \/ Before(ts, j, i)
    BY <1>1 DEF Before
<1> QED BY <1>2, <1>3, <1>4 DEF Orders

LEMMA SortedIs ==
    ASSUME NEW ts \in Seq(Entries)
    PROVE  /\ Sorted(ts) \in Seq(Entries) /\ Len(Sorted(ts)) = Len(ts)
           /\ InOrder(Sorted(ts))
           /\ \E p \in Bijection(1..Len(ts), 1..Len(ts)) :
                \A k \in 1..Len(ts) : Sorted(ts)[k] = ts[p[k]]
<1> DEFINE n == Len(ts)
           R == {p \in (1..n) \X (1..n) : Before(ts, p[1], p[2])}
           r == [i \in 1..n |-> Cardinality(Preceding(R, n, i)) + 1]
           place(k) == CHOOSE i \in DOMAIN ts :
                            Cardinality({j \in DOMAIN ts : Before(ts, j, i)}) + 1 = k
           p == [k \in 1..n |-> place(k)]
<1>1. n \in Nat /\ DOMAIN ts = 1..n
    OBVIOUS
<1>2. \A i, j \in 1..n : <<i, j>> \in R <=> Before(ts, i, j)
    OBVIOUS
<1>3. Orders(R, n)
    BY BeforeOrders
<1>4. \A i \in 1..n : Preceding(R, n, i) = {j \in DOMAIN ts : Before(ts, j, i)}
    BY <1>1, <1>2 DEF Preceding
<1>5. Sorted(ts) = [k \in 1..n |-> ts[p[k]]]
    <2>1. Sorted(ts) = [k \in 1..n |-> ts[place(k)]]
        BY <1>1 DEF Sorted
    <2> QED BY <2>1
<1>6. ASSUME NEW k \in 1..n, \E i \in 1..n : r[i] = k PROVE p[k] \in 1..n /\ r[p[k]] = k
    <2>1. \A i \in 1..n : r[i] = Cardinality({j \in DOMAIN ts : Before(ts, j, i)}) + 1
        BY <1>4
    <2> HIDE DEF r
    <2>2. \E i \in DOMAIN ts : Cardinality({j \in DOMAIN ts : Before(ts, j, i)}) + 1 = k
        BY <1>1, <1>6, <2>1
    <2>3. /\ place(k) \in DOMAIN ts
          /\ Cardinality({j \in DOMAIN ts : Before(ts, j, place(k))}) + 1 = k
        BY <2>2
    <2>4. p[k] = place(k)
        OBVIOUS
    <2> HIDE DEF place, p
    <2> QED BY <1>1, <2>1, <2>3, <2>4
<1> HIDE DEF R, place
<1>7. r \in Bijection(1..n, 1..n) /\ \A i, j \in 1..n : r[i] < r[j] => <<i, j>> \in R
    BY <1>1, <1>3, RanksArePlaces
<1> HIDE DEF r, n
<1>8. /\ r \in [1..n -> 1..n]
      /\ \A i, j \in 1..n : r[i] = r[j] => i = j
      /\ \A k \in 1..n : \E i \in 1..n : r[i] = k
    BY <1>7 DEF Bijection, Injection, Surjection, IsInjective
<1>9. \A k \in 1..n : p[k] \in 1..n /\ r[p[k]] = k
    BY <1>8, <1>6
<1> HIDE DEF p
<1>10. p \in [1..n -> 1..n]
    <2>1. p = [k \in 1..n |-> p[k]]
        BY DEF p
    <2> QED BY <1>9, <2>1
<1>11. p \in Bijection(1..n, 1..n)
    <2>1. \A j, k \in 1..n : p[j] = p[k] => j = k
        BY <1>9
    <2>2. \A i \in 1..n : r[i] \in 1..n /\ p[r[i]] = i
        BY <1>8, <1>9
    <2> QED BY <1>10, <2>1, <2>2 DEF Bijection, Injection, Surjection, IsInjective
<1>12. Sorted(ts) \in Seq(Entries) /\ Len(Sorted(ts)) = n
    <2>1. \A k \in 1..n : ts[p[k]] \in Entries
        BY <1>9 DEF n
    <2> QED BY <1>1, <1>5, <2>1
<1>13. \A k \in 1..n : Sorted(ts)[k] = ts[p[k]]
    BY <1>1, <1>5
<1>14. InOrder(Sorted(ts))
    <2>1. ASSUME NEW k \in 1..(n - 1)
          PROVE  \/ ts[p[k]].line < ts[p[k + 1]].line
                 \/ ts[p[k]].line = ts[p[k + 1]].line /\ ts[p[k]].start <= ts[p[k + 1]].start
        <3>1. k \in 1..n /\ k + 1 \in 1..n /\ k < k + 1
            BY <1>1
        <3>2. <<p[k], p[k + 1]>> \in R
            BY <1>7, <1>9, <3>1
        <3>3. Before(ts, p[k], p[k + 1])
            BY <1>2, <1>9, <3>1, <3>2
        <3>4. ts[p[k]] \in Entries /\ ts[p[k + 1]] \in Entries
            BY <1>9, <3>1 DEF n
        <3>5. /\ ts[p[k]].start \in Nat /\ ts[p[k + 1]].start \in Nat
            BY <3>4, EntriesLocated DEF Located
        <3> QED BY <3>3, <3>5 DEF Before
    <2>2. ASSUME NEW k \in 1..(n - 1)
          PROVE  Sorted(ts)[k] = ts[p[k]] /\ Sorted(ts)[k + 1] = ts[p[k + 1]]
        BY <1>1, <1>13
    <2> QED BY <1>12, <2>1, <2>2 DEF InOrder
<1> QED BY <1>11, <1>12, <1>13, <1>14 DEF n

-----------------------------------------------------------------------------
(* Tokens: what Monaco reads                                               *)

Origin == [line |-> 0, start |-> 0]

Previous(e, i) == IF i = 1 THEN Origin ELSE e[i - 1]

\* An array of five numbers a token, each relative to the token before.
Encodes(a, e) ==
    /\ Len(a) = 5 * Len(e)
    /\ \A i \in 1..Len(e), k \in 1..5 : a[5 * (i - 1) + k] = Relative(e[i], Previous(e, i))[k]

LEMMA EncodeIs ==
    ASSUME NEW ts \in Seq(Tokens)
    PROVE  \E V : Encode(ts) \in Seq(V) /\ Encodes(Encode(ts), Sorted(Normalized(ts)))
<1> DEFINE e == Sorted(Normalized(ts))
           n == Len(e)
           all == <<Origin>> \o e
           row(i) == Relative(all[i + 1], all[i])
           V == UNION {{row(i)[k] : k \in 1..5} : i \in 1..n}
           s == [i \in 1..n |-> row(i)]
<1>1. e \in Seq(Entries)
    BY NormalizedType, SortedIs
<1> HIDE DEF e
<1>2. /\ n \in Nat /\ Len(all) = n + 1
      /\ \A i \in 1..(n + 1) : all[i] = IF i = 1 THEN Origin ELSE e[i - 1]
    <2>1. <<Origin>> \in Seq(Entries \cup {Origin}) /\ e \in Seq(Entries \cup {Origin})
        BY <1>1, SeqMonotonic
    <2>2. Len(<<Origin>>) = 1 /\ <<Origin>>[1] = Origin
        OBVIOUS
    <2> QED BY <1>1, <2>1, <2>2, ConcatProperties, LenProperties
<1>3. Encode(ts) = FlattenSeq(s)
    <2>1. 1..(Len(all) - 1) = 1..n
        BY <1>2
    <2>2. Encode(ts) = FlattenSeq([i \in 1..(Len(all) - 1) |-> Relative(all[i + 1], all[i])])
        BY DEF Encode, Origin, e
    <2> QED BY <2>1, <2>2
<1> HIDE DEF all
<1>4. ASSUME NEW i \in 1..n PROVE row(i) \in [1..5 -> V]
    <2>1. DOMAIN row(i) = 1..5 /\ row(i) = [k \in 1..5 |-> row(i)[k]]
        BY DEF Relative
    <2> HIDE DEF row
    <2>2. \A k \in 1..5 : row(i)[k] \in V
        OBVIOUS
    <2> HIDE DEF V
    <2> QED BY <2>1, <2>2
<1>5. s \in Seq([1..5 -> V]) /\ Len(s) = n
    <2> HIDE DEF row, V
    <2>1. s \in [1..n -> [1..5 -> V]]
        BY <1>4
    <2> QED BY <1>2, <2>1, FunctionIsSeq
<1>6. \A i \in 1..n : s[i] = Relative(e[i], Previous(e, i))
    BY <1>2 DEF Previous
<1> HIDE DEF s, V, n
<1>7. /\ FlattenSeq(s) \in Seq(V) /\ Len(FlattenSeq(s)) = 5 * n
      /\ \A i \in 1..n, k \in 1..5 : FlattenSeq(s)[5 * (i - 1) + k] = s[i][k]
    BY <1>5, FlattenFives
<1>8. Encodes(Encode(ts), e)
    BY <1>3, <1>6, <1>7 DEF Encodes, n
<1> QED BY <1>3, <1>7, <1>8 DEF e

\* Monaco's reading undoes the relative positions.
LEMMA DecodeReads ==
    ASSUME NEW V, NEW a \in Seq(V), NEW e \in Seq(Entries), Encodes(a, e)
    PROVE  Decode(a) = e
<1> DEFINE n == Len(a) \div 5
           tk(i) == SubSeq(a, 5 * i - 4, 5 * i)
           line == CHOOSE line : line =
                        [i \in 0..n |-> IF i = 0 THEN 0 ELSE line[i - 1] + tk(i)[1]]
           start == CHOOSE start : start =
                        [i \in 0..n |->
                            IF i = 0 THEN 0
                            ELSE tk(i)[2] + IF tk(i)[1] = 0 THEN start[i - 1] ELSE 0]
<1>1. Decode(a) = [i \in 1..n |->
                    [line |-> line[i], start |-> start[i], length |-> tk(i)[3],
                     type |-> tk(i)[4], modifiers |-> tk(i)[5]]]
    BY DEF Decode
<1>2. n = Len(e) /\ n \in Nat /\ Len(a) = 5 * n
    BY DEF Encodes
<1>3. ASSUME NEW i \in 1..n, NEW k \in 1..5
      PROVE  tk(i)[k] = Relative(e[i], Previous(e, i))[k]
    <2>1. /\ 5 * i - 4 \in Int /\ 5 * i \in Int /\ 5 * i - (5 * i - 4) + 1 = 5
          /\ \A j \in (5 * i - 4)..(5 * i) : j \in 1..Len(a) /\ a[j] \in V
        BY <1>2
    <2>2. tk(i)[k] = a[5 * i - 4 + k - 1]
        BY <2>1, SubSeqProperties
    <2>3. 5 * i - 4 + k - 1 = 5 * (i - 1) + k
        OBVIOUS
    <2> QED BY <1>2, <2>2, <2>3 DEF Encodes
<1>4. \A i \in 1..n : Located(e[i])
    BY <1>2, EntriesLocated
<1> DEFINE before(i) == Previous(e, i)
<1>5. ASSUME NEW i \in 1..n
      PROVE  /\ tk(i)[1] = e[i].line - before(i).line
             /\ tk(i)[2] = IF e[i].line - before(i).line = 0 THEN e[i].start - before(i).start
                           ELSE e[i].start
             /\ tk(i)[3] = e[i].length /\ tk(i)[4] = e[i].type /\ tk(i)[5] = e[i].modifiers
    <2> DEFINE rel == Relative(e[i], Previous(e, i))
    <2>1. tk(i)[1] = rel[1] /\ tk(i)[2] = rel[2] /\ tk(i)[3] = rel[3] /\ tk(i)[4] = rel[4]
            /\ tk(i)[5] = rel[5]
        <3>1. \A k \in 1..5 : tk(i)[k] = rel[k]
            BY <1>3
        <3> HIDE DEF tk, rel
        <3> QED BY <3>1
    <2> HIDE DEF tk
    <2> QED BY <2>1 DEF Relative
<1> HIDE DEF tk, n
<1>6. /\ \A i \in 1..n : before(i).line \in Nat /\ before(i).start \in Nat
      /\ \A i \in 1..n : i # 1 => i - 1 \in 1..n /\ before(i) = e[i - 1]
      /\ before(1).line = 0 /\ before(1).start = 0
    <2>1. \A i \in 1..n : i # 1 => i - 1 \in 1..n /\ before(i) = e[i - 1]
        BY <1>2 DEF Previous
    <2>2. before(1).line = 0 /\ before(1).start = 0
        BY DEF Previous, Origin
    <2> HIDE DEF before
    <2>3. ASSUME NEW i \in 1..n PROVE before(i).line \in Nat /\ before(i).start \in Nat
        <3>1. CASE i = 1
            BY <2>2, <3>1
        <3>2. CASE i # 1
            BY <1>4, <2>1, <3>2 DEF Located
        <3> QED BY <3>1, <3>2
    <2> QED BY <2>1, <2>2, <2>3
<1> HIDE DEF before
<1>7. \A i \in 1..n : e[i].line \in Nat /\ e[i].start \in Nat
    BY <1>4 DEF Located
<1> DEFINE lineOf(i) == IF i = 0 THEN 0 ELSE e[i].line
           startOf(i) == IF i = 0 THEN 0 ELSE e[i].start
<1>8. ASSUME NEW i \in 1..n
      PROVE  /\ before(i).line = lineOf(i - 1) /\ before(i).start = startOf(i - 1)
             /\ lineOf(i) = lineOf(i - 1) + tk(i)[1]
             /\ startOf(i) = tk(i)[2] + IF tk(i)[1] = 0 THEN startOf(i - 1) ELSE 0
    <2>1. before(i).line = lineOf(i - 1) /\ before(i).start = startOf(i - 1)
        BY <1>6
    <2>2. lineOf(i) = e[i].line /\ startOf(i) = e[i].start
        OBVIOUS
    <2> HIDE DEF lineOf, startOf
    <2> QED BY <1>5, <1>6, <1>7, <2>1, <2>2
<1>9. \A i \in 1..n : line[i] = e[i].line
    <2> DEFINE w == [i \in 0..n |-> lineOf(i)]
               S == {i \in Nat : i \in 0..n => line[i] = lineOf(i)}
    <2>1. w = [i \in 0..n |-> IF i = 0 THEN 0 ELSE w[i - 1] + tk(i)[1]]
        <3>1. ASSUME NEW i \in 0..n
              PROVE  lineOf(i) = IF i = 0 THEN 0 ELSE w[i - 1] + tk(i)[1]
            <4>1. i # 0 => i \in 1..n /\ i - 1 \in 0..n /\ w[i - 1] = lineOf(i - 1)
                BY <1>2
            <4>2. i = 0 => lineOf(i) = 0
                OBVIOUS
            <4> HIDE DEF lineOf, w
            <4> QED BY <1>8, <4>1, <4>2
        <3> HIDE DEF lineOf
        <3> QED BY <3>1
    <2> HIDE DEF w
    <2>2. line = [i \in 0..n |-> IF i = 0 THEN 0 ELSE line[i - 1] + tk(i)[1]]
        BY <2>1, Zenon
    <2> HIDE DEF line
    <2>3. \A i \in 0..n : line[i] = IF i = 0 THEN 0 ELSE line[i - 1] + tk(i)[1]
        BY <2>2, Zenon
    <2>4. 0 \in S
        BY <1>2, <2>3
    <2>5. ASSUME NEW i \in Nat, i \in S PROVE i + 1 \in S
        <3>1. SUFFICES ASSUME i + 1 \in 0..n PROVE line[i + 1] = lineOf(i + 1)
            OBVIOUS
        <3>2. line[i] = lineOf(i) /\ i + 1 \in 1..n /\ i + 1 - 1 = i
            BY <1>2, <2>5, <3>1
        <3> HIDE DEF lineOf
        <3> QED BY <1>8, <2>3, <3>2
    <2>6. Nat \subseteq S
        BY <2>4, <2>5, SetInduction
    <2> QED BY <1>2, <2>6
<1>10. \A i \in 1..n : start[i] = e[i].start
    <2> DEFINE w == [i \in 0..n |-> startOf(i)]
               S == {i \in Nat : i \in 0..n => start[i] = startOf(i)}
    <2>1. w = [i \in 0..n |->
                IF i = 0 THEN 0 ELSE tk(i)[2] + IF tk(i)[1] = 0 THEN w[i - 1] ELSE 0]
        <3>1. ASSUME NEW i \in 0..n
              PROVE  startOf(i) = IF i = 0 THEN 0
                                  ELSE tk(i)[2] + IF tk(i)[1] = 0 THEN w[i - 1] ELSE 0
            <4>1. i # 0 => i \in 1..n /\ i - 1 \in 0..n /\ w[i - 1] = startOf(i - 1)
                BY <1>2
            <4>2. i = 0 => startOf(i) = 0
                OBVIOUS
            <4> HIDE DEF startOf, w
            <4> QED BY <1>8, <4>1, <4>2
        <3> HIDE DEF startOf
        <3> QED BY <3>1
    <2> HIDE DEF w
    <2>2. start = [i \in 0..n |->
                    IF i = 0 THEN 0 ELSE tk(i)[2] + IF tk(i)[1] = 0 THEN start[i - 1] ELSE 0]
        BY <2>1, Zenon
    <2> HIDE DEF start
    <2>3. \A i \in 0..n : start[i] = IF i = 0 THEN 0
                                     ELSE tk(i)[2] + IF tk(i)[1] = 0 THEN start[i - 1] ELSE 0
        BY <2>2, Zenon
    <2>4. 0 \in S
        BY <1>2, <2>3
    <2>5. ASSUME NEW i \in Nat, i \in S PROVE i + 1 \in S
        <3>1. SUFFICES ASSUME i + 1 \in 0..n PROVE start[i + 1] = startOf(i + 1)
            OBVIOUS
        <3>2. start[i] = startOf(i) /\ i + 1 \in 1..n /\ i + 1 - 1 = i
            BY <1>2, <2>5, <3>1
        <3> HIDE DEF startOf
        <3> QED BY <1>8, <2>3, <3>2
    <2>6. Nat \subseteq S
        BY <2>4, <2>5, SetInduction
    <2> QED BY <1>2, <2>6
<1> HIDE DEF line, start
<1>11. ASSUME NEW i \in 1..n PROVE Decode(a)[i] = e[i]
    BY <1>1, <1>4, <1>5, <1>9, <1>10 DEF Located
<1>12. e = [i \in 1..n |-> e[i]]
    BY <1>2
<1>13. Decode(a) = [i \in 1..n |-> Decode(a)[i]]
    BY <1>1
<1> QED BY <1>11, <1>12, <1>13

-----------------------------------------------------------------------------
(* Tokens: the numbers of a type and of modifiers                          *)

LEMMA TypesKnown ==
    /\ DOMAIN TokenTypes = 1..24
    /\ \A type \in DOMAIN CaptureTypes : \E i \in 1..24 : TokenTypes[i] = type
<1>1. DOMAIN TokenTypes = 1..24
    BY DEF TokenTypes
<1>2. DOMAIN CaptureTypes =
        {"decorator", "keyword", "string", "comment", "enumMember", "class", "enum", "number",
         "function", "method", "macro", "property", "namespace", "operator", "regexp", "tag",
         "type", "typeParameter", "variable", "parameter"}
    BY DEF CaptureTypes
<1>3. /\ TokenTypes[1] = "namespace" /\ TokenTypes[2] = "type" /\ TokenTypes[3] = "class"
      /\ TokenTypes[4] = "enum" /\ TokenTypes[7] = "typeParameter" /\ TokenTypes[8] = "parameter"
      /\ TokenTypes[9] = "variable" /\ TokenTypes[10] = "property" /\ TokenTypes[11] = "enumMember"
      /\ TokenTypes[13] = "function" /\ TokenTypes[14] = "method" /\ TokenTypes[15] = "macro"
      /\ TokenTypes[16] = "keyword" /\ TokenTypes[18] = "comment" /\ TokenTypes[19] = "string"
      /\ TokenTypes[20] = "number" /\ TokenTypes[21] = "regexp" /\ TokenTypes[22] = "operator"
      /\ TokenTypes[23] = "decorator" /\ TokenTypes[24] = "tag"
    BY DEF TokenTypes
<1> QED BY <1>1, <1>2, <1>3

LEMMA IndexType ==
    ASSUME NEW type, \E i \in 1..24 : TokenTypes[i] = type
    PROVE  IndexOfType(type) \in 0..23
<1>1. (CHOOSE i \in DOMAIN TokenTypes : TokenTypes[i] = type) \in 1..24
    BY TypesKnown
<1> QED BY <1>1 DEF IndexOfType

LEMMA TypeNumber ==
    ASSUME NEW name \in Seq(STRING), TypeIndex(name) # Absent
    PROVE  TypeIndex(name) \in 0..23
<1> DEFINE known == {n \in 1..Len(name) :
                        \E type \in DOMAIN CaptureTypes : IsCaptureOf(SubSeq(name, 1, n), type)}
           type0 == CHOOSE type \in DOMAIN CaptureTypes :
                        IsCaptureOf(SubSeq(name, 1, Max(known)), type)
<1>1. CASE Len(name) = 1 /\ name[1] \in Range(TokenTypes)
    <2>1. \E i \in 1..24 : TokenTypes[i] = name[1]
        BY <1>1, TypesKnown DEF Range
    <2> QED BY <1>1, <2>1, IndexType DEF TypeIndex
<1>2. CASE ~(Len(name) = 1 /\ name[1] \in Range(TokenTypes))
    <2>1. TypeIndex(name) = IF known = {} THEN Absent ELSE IndexOfType(type0)
        BY <1>2 DEF TypeIndex, CaptureIndex
    <2>2. known # {} /\ TypeIndex(name) = IndexOfType(type0)
        BY <2>1
    <2>3. Max(known) \in known
        <3>1. known \in SUBSET (1..Len(name)) /\ Len(name) \in Nat
            OBVIOUS
        <3> HIDE DEF known
        <3> QED BY <2>2, <3>1, MaxOfSome
    <2>4. type0 \in DOMAIN CaptureTypes
        <3>1. \E type \in DOMAIN CaptureTypes : IsCaptureOf(SubSeq(name, 1, Max(known)), type)
            BY <2>3
        <3> HIDE DEF known
        <3> QED BY <3>1
    <2> HIDE DEF type0
    <2>5. \E i \in 1..24 : TokenTypes[i] = type0
        BY <2>4, TypesKnown
    <2> QED BY <2>2, <2>5, IndexType
<1> QED BY <1>1, <1>2

LEMMA BitsetNumber == \A ms : Bitset(ms) \in 0..1023
<1>1. SUFFICES ASSUME NEW ms PROVE Bitset(ms) \in 0..1023
    OBVIOUS
<1> DEFINE s == {i \in DOMAIN TokenModifiers : TokenModifiers[i] \in ms}
<1>2. DOMAIN TokenModifiers = 1..10
    BY DEF TokenModifiers
<1>3. s \in SUBSET (1..10) /\ Bits \in [1..10 -> Nat]
    BY <1>2 DEF Bits
<1> HIDE DEF s
<1>4. PICK h : Sums(h, Bits, 10)
    BY <1>3, SumsExist
<1>5. MapThenSumSet(LAMBDA i : Bits[i], s) = h[s]
    BY <1>3, <1>4, SumIs
<1>6. h[s] \in Nat /\ h[s] <= h[1..10]
    BY <1>3, <1>4, SumsMonotonic
<1>7. h[1..10] = 1023
    <2>1. /\ h[1..0] = 0
          /\ \A n \in 1..10 : h[1..n] = Bits[n] + h[1..(n - 1)] /\ h[1..n] \in Nat
        <3>1. 1..0 = {}
            OBVIOUS
        <3>2. ASSUME NEW n \in 1..10 PROVE h[1..n] = Bits[n] + h[1..(n - 1)] /\ h[1..n] \in Nat
            <4>1. 1..n \in SUBSET (1..10) /\ n \in 1..n /\ (1..n) \ {n} = 1..(n - 1)
                OBVIOUS
            <4>2. h[1..n] = Bits[n] + h[(1..n) \ {n}]
                BY <1>4, <4>1 DEF Sums
            <4>3. h[1..n] \in Nat
                BY <1>4, <4>1 DEF Sums
            <4> QED BY <4>1, <4>2, <4>3
        <3> QED BY <1>4, <3>1, <3>2 DEF Sums
    <2>2. /\ Bits[1] = 1 /\ Bits[2] = 2 /\ Bits[3] = 4 /\ Bits[4] = 8 /\ Bits[5] = 16
          /\ Bits[6] = 32 /\ Bits[7] = 64 /\ Bits[8] = 128 /\ Bits[9] = 256 /\ Bits[10] = 512
        BY DEF Bits
    <2>3. h[1..1] = 1 /\ h[1..2] = 3
        BY <2>1, <2>2
    <2>4. h[1..3] = 7 /\ h[1..4] = 15
        BY <2>1, <2>2, <2>3
    <2>5. h[1..5] = 31 /\ h[1..6] = 63
        BY <2>1, <2>2, <2>4
    <2>6. h[1..7] = 127 /\ h[1..8] = 255
        BY <2>1, <2>2, <2>5
    <2>7. h[1..9] = 511 /\ h[1..10] = 1023
        BY <2>1, <2>2, <2>6
    <2> QED BY <2>7
<1> QED BY <1>5, <1>6, <1>7 DEF Bitset, s
-----------------------------------------------------------------------------
(* Tokens: the numbers Monaco is given                                     *)

\* Numbers Monaco takes.
Uints == 0..MaxUint

LEMMA LengthTaken == ASSUME NEW t, Takes(t) PROVE LengthOf(t) \in Uints
<1>1. t.line \in Uints /\ t.startCharacter \in Uints /\ Uint(t.startCharacter) = t.startCharacter
    BY UintTaken DEF Takes, Uints
<1>2. CASE Uint(t.length) # Absent
    <2>1. LengthOf(t) = t.length
        BY <1>2 DEF LengthOf
    <2> QED BY <1>2, <2>1, UintTaken DEF Uints
<1>3. CASE Uint(t.length) = Absent /\ Uint(t.endLine) = Uint(t.line)
            /\ Uint(t.endCharacter) # Absent
    <2>1. LengthOf(t) = t.endCharacter - t.startCharacter
        BY <1>1, <1>3 DEF LengthOf
    <2>2. t.endCharacter \in Uints
        BY <1>3, UintTaken DEF Uints
    <2>3. LengthOf(t) > 0
        <3>1. ~(LengthOf(t) <= 0)
            BY DEF Takes
        <3> QED BY <1>1, <2>1, <2>2, <3>1 DEF Uints
    <2> QED BY <1>1, <2>1, <2>2, <2>3, HighlightAssumption DEF Uints
<1>4. CASE Uint(t.length) = Absent
            /\ ~(Uint(t.endLine) = Uint(t.line) /\ Uint(t.endCharacter) # Absent)
    <2>1. LengthOf(t) = Absent
        BY <1>4 DEF LengthOf
    <2> QED BY <2>1 DEF Takes, Absent
<1> QED BY <1>2, <1>3, <1>4

LEMMA EntryNumbers ==
    \A e \in Entries : /\ e.line \in Uints /\ e.start \in Uints /\ e.length \in Uints
                      /\ e.type \in Uints /\ e.modifiers \in Uints
<1>1. ASSUME NEW t \in Tokens, Takes(t)
      PROVE  /\ Entry(t).line \in Uints /\ Entry(t).start \in Uints
             /\ Entry(t).length \in Uints /\ Entry(t).type \in Uints
             /\ Entry(t).modifiers \in Uints
    <2>1. t.line \in Uints /\ t.startCharacter \in Uints /\ TypeIndex(t.type) # Absent
        BY <1>1, UintTaken DEF Takes, Uints
    <2>2. LengthOf(t) \in Uints
        BY <1>1, LengthTaken
    <2>3. TypeIndex(t.type) \in 0..23 /\ Bitset(t.modifiers) \in 0..1023
        <3>1. t.type \in Seq(STRING)
            BY HighlightAssumption
        <3> QED BY <2>1, <3>1, TypeNumber, BitsetNumber
    <2>4. 0..23 \subseteq Uints /\ 0..1023 \subseteq Uints
        BY HighlightAssumption DEF Uints
    <2> QED BY <2>1, <2>2, <2>3, <2>4 DEF Entry
<1> QED BY <1>1 DEF Entries

\* In the order of the text no position is before the one it is relative to.
LEMMA RelativeNumbers ==
    ASSUME NEW e \in Seq(Entries), InOrder(e), NEW i \in 1..Len(e), NEW k \in 1..5
    PROVE  Relative(e[i], Previous(e, i))[k] \in Uints
<1> DEFINE x == e[i]
           p == Previous(e, i)
<1>1. /\ x.line \in Uints /\ x.start \in Uints /\ x.length \in Uints
      /\ x.type \in Uints /\ x.modifiers \in Uints
    BY EntryNumbers
<1>2. /\ p.line \in Uints /\ p.start \in Uints
      /\ p.line < x.line \/ (p.line = x.line /\ p.start <= x.start)
    <2>1. CASE i = 1
        <3>1. p.line = 0 /\ p.start = 0
            BY <2>1 DEF Previous, Origin
        <3> HIDE DEF x, p
        <3> QED BY <1>1, <3>1, HighlightAssumption DEF Uints
    <2>2. CASE i # 1
        <3>1. i - 1 \in 1..(Len(e) - 1) /\ i - 1 \in 1..Len(e) /\ i - 1 + 1 = i
            BY <2>2
        <3>2. p = e[i - 1]
            BY <2>2 DEF Previous
        <3>3. e[i - 1].line < e[i].line
                \/ (e[i - 1].line = e[i].line /\ e[i - 1].start <= e[i].start)
            BY <3>1 DEF InOrder
        <3> QED BY <3>1, <3>2, <3>3, EntryNumbers
    <2> QED BY <2>1, <2>2
<1> HIDE DEF x, p
<1>3. /\ Relative(x, p)[1] = x.line - p.line
      /\ Relative(x, p)[2] = IF x.line - p.line = 0 THEN x.start - p.start ELSE x.start
      /\ Relative(x, p)[3] = x.length /\ Relative(x, p)[4] = x.type
      /\ Relative(x, p)[5] = x.modifiers
    BY DEF Relative
<1>4. Relative(x, p)[1] \in Uints /\ Relative(x, p)[2] \in Uints
    <2>1. CASE p.line < x.line
        <3>1. x.line - p.line \in Uints /\ x.line - p.line # 0
            BY <1>1, <1>2, <2>1, HighlightAssumption DEF Uints
        <3> QED BY <1>1, <1>3, <3>1
    <2>2. CASE p.line = x.line /\ p.start <= x.start
        <3>1. x.line - p.line = 0 /\ 0 \in Uints
            BY <1>1, <2>2, HighlightAssumption DEF Uints
        <3>2. x.start - p.start \in Uints
            BY <1>1, <1>2, <2>2, HighlightAssumption DEF Uints
        <3> QED BY <1>3, <3>1, <3>2
    <2> QED BY <1>2, <2>1, <2>2
<1>5. k = 1 \/ k = 2 \/ k = 3 \/ k = 4 \/ k = 5
    OBVIOUS
<1>6. Relative(x, p)[k] \in Uints
    BY <1>1, <1>3, <1>4, <1>5
<1> QED BY <1>6 DEF x, p

LEMMA EncodedNumbers ==
    ASSUME NEW V, NEW a \in Seq(V), NEW e \in Seq(Entries), InOrder(e), Encodes(a, e)
    PROVE  \A v \in Range(a) : v \in Uints
<1>1. ASSUME NEW j \in 1..Len(a) PROVE a[j] \in Uints
    <2> DEFINE i == (j - 1) \div 5 + 1
               k == ((j - 1) % 5) + 1
    <2>1. Len(a) = 5 * Len(e) /\ Len(e) \in Nat
        BY DEF Encodes
    <2>2. i \in 1..Len(e) /\ k \in 1..5 /\ j = 5 * (i - 1) + k
        BY <2>1
    <2> HIDE DEF i, k
    <2>3. a[j] = Relative(e[i], Previous(e, i))[k]
        BY <2>2 DEF Encodes
    <2> QED BY <2>2, <2>3, RelativeNumbers
<1> QED BY <1>1 DEF Range

-----------------------------------------------------------------------------
(* Tokens: the provider                                                    *)

\* Reading back what was encoded gives the tokens read of the answer, in order.
LEMMA EncodeExact ==
    ASSUME NEW ts \in Seq(Tokens)
    PROVE  /\ ToBag(Decode(Encode(ts))) = ToBag(Normalized(ts))
           /\ InOrder(Decode(Encode(ts)))
           /\ \A v \in Range(Encode(ts)) : v \in Uints
<1> DEFINE read == Normalized(ts)
           e == Sorted(read)
           n == Len(read)
<1>1. read \in Seq(Entries)
    BY NormalizedType
<1> HIDE DEF read
<1>2. /\ e \in Seq(Entries) /\ Len(e) = n /\ InOrder(e)
      /\ \E p \in Bijection(1..n, 1..n) : \A k \in 1..n : e[k] = read[p[k]]
    BY <1>1, SortedIs
<1>3. PICK V : Encode(ts) \in Seq(V) /\ Encodes(Encode(ts), e)
    BY EncodeIs DEF read
<1> HIDE DEF e
<1>4. Decode(Encode(ts)) = e
    BY <1>2, <1>3, DecodeReads
<1>5. PICK p \in Bijection(1..n, 1..n) : \A k \in 1..n : e[k] = read[p[k]]
    BY <1>2
<1>6. n \in Nat /\ DOMAIN e = 1..n /\ DOMAIN read = 1..n
    BY <1>1, <1>2
<1> HIDE DEF n
<1>7. \A x : Cardinality({k \in DOMAIN e : e[k] = x}) = Cardinality({i \in DOMAIN read : read[i] = x})
    <2>1. ASSUME NEW x PROVE Times(e, n, x) = Times(read, n, x)
        <3>1. \A k \in 1..n : e[k] = read[p[k]]
            BY <1>5
        <3>2. n \in Nat
            BY <1>6
        <3> QED BY <3>1, <3>2, SameElements
    <2>2. ASSUME NEW x
          PROVE  /\ {k \in DOMAIN e : e[k] = x} = {k \in 1..n : e[k] = x}
                 /\ {i \in DOMAIN read : read[i] = x} = {i \in 1..n : read[i] = x}
        BY <1>6
    <2> QED BY <2>1, <2>2, Zenon DEF Times
<1>8. Range(e) = Range(read)
    <2>1. p \in [1..n -> 1..n] /\ \A i \in 1..n : \E k \in 1..n : p[k] = i
        BY DEF Bijection, Injection, Surjection, IsInjective
    <2>2. \A x \in Range(e) : x \in Range(read)
        BY <1>5, <1>6, <2>1 DEF Range
    <2>3. ASSUME NEW x \in Range(read) PROVE x \in Range(e)
        <3>1. PICK i \in 1..n : x = read[i]
            BY <1>6 DEF Range
        <3>2. PICK k \in 1..n : p[k] = i
            BY <2>1
        <3> QED BY <1>5, <1>6, <3>1, <3>2 DEF Range
    <2> QED BY <2>2, <2>3
<1>9. ToBag(e) = ToBag(read)
    BY <1>7, <1>8 DEF ToBag
<1>10. \A v \in Range(Encode(ts)) : v \in Uints
    BY <1>2, <1>3, EncodedNumbers
<1> QED BY <1>2, <1>4, <1>9, <1>10 DEF read

LEMMA PayloadTokens == \A p \in Payloads : p.tokens \in Seq(Tokens)
<1>1. SeqOf(Tokens, MaxTokens) \subseteq Seq(Tokens)
    BY HighlightAssumption DEF SeqOf
<1> QED BY <1>1 DEF Payloads

\* While a request is under way Monaco has nothing yet.
HighlightInv ==
    /\ HighlightTypeOK
    /\ mode # Idle => data = <<>> /\ said = <<>>
    /\ TokensExact

LEMMA NoNumbers == \A S : \A v \in Range(<<>>) : v \in S
BY DEF Range

LEMMA HighlightStart == HighlightInit => HighlightInv
BY NoNumbers DEF HighlightInit, HighlightInv, HighlightTypeOK, TokensExact, Idle

LEMMA FetchedKeeps ==
    ASSUME HighlightInv, NEW p \in Payloads, Fetched(p)
    PROVE  HighlightInv'
<1>1. mode' = Idle /\ cancelled' = cancelled /\ cancelled \in BOOLEAN
    BY DEF Fetched, HighlightInv, HighlightTypeOK
<1>2. CASE cancelled
    <2>1. data' = <<>> /\ said' = <<>>
        BY <1>2 DEF Fetched
    <2> QED BY <1>1, <2>1, NoNumbers DEF HighlightInv, HighlightTypeOK, TokensExact
<1>3. CASE ~cancelled
    <2>1. data' = Response(p) /\ said' = <<p>> /\ said' # <<>> /\ said'[1] = p /\ ~cancelled'
        BY <1>1, <1>3 DEF Fetched
    <2>2. SUFFICES (\A v \in Range(data') : v \in Uints) /\ TokensExact'
        BY <1>1 DEF HighlightInv, HighlightTypeOK, Uints
    <2>3. CASE p.unsupported
        <3>1. data' = <<>>
            BY <2>1, <2>3 DEF Response
        <3>2. Len(Decode(<<>>)) = 0
            <4>1. Len(<<>>) \div 5 = 0
                OBVIOUS
            <4> QED BY <4>1 DEF Decode
        <3>3. InOrder(Decode(data'))
            BY <3>1, <3>2 DEF InOrder
        <3>4. \A v \in Range(data') : v \in Uints
            BY <3>1, NoNumbers
        <3> QED BY <2>1, <2>3, <3>3, <3>4 DEF TokensExact, InOrder
    <2>4. CASE ~p.unsupported /\ WellFormed(p.array)
        <3>1. data' = p.array
            BY <2>1, <2>4 DEF Response
        <3>2. WellFormed(data')
            BY <2>4, <3>1
        <3>3. \A v \in Range(data') : v \in Uints
            <4>1. \A v \in Range(data') : Uint(v) # Absent
                BY <3>2 DEF WellFormed
            <4> QED BY <4>1, UintTaken DEF Uints
        <3>4. TokensExact'
            BY <2>1, <3>1, <3>2 DEF TokensExact, WellFormed, Uint, Absent
        <3> QED BY <3>3, <3>4
    <2>5. CASE ~p.unsupported /\ ~WellFormed(p.array)
        <3>1. data' = Encode(p.tokens)
            BY <2>1, <2>5 DEF Response
        <3>2. /\ ToBag(Decode(data')) = ToBag(Normalized(p.tokens))
              /\ InOrder(Decode(data'))
              /\ \A v \in Range(data') : v \in Uints
            BY <3>1, PayloadTokens, EncodeExact
        <3> QED BY <2>1, <3>2 DEF TokensExact, InOrder
    <2> QED BY <2>3, <2>4, <2>5
<1> QED BY <1>2, <1>3

LEMMA HighlightKeeps == HighlightInv /\ [HighlightNext]_highlightVars => HighlightInv'
<1> SUFFICES ASSUME HighlightInv, [HighlightNext]_highlightVars PROVE HighlightInv'
    OBVIOUS
<1>1. ASSUME NEW m \in Modes, NEW able \in BOOLEAN, Provide(m, able) PROVE HighlightInv'
    <2>1. data' = <<>> /\ said' = <<>> /\ mode' \in Modes \cup {Idle} /\ cancelled' \in BOOLEAN
        BY <1>1 DEF Provide
    <2> QED BY <2>1, NoNumbers DEF HighlightInv, HighlightTypeOK, TokensExact
<1>2. CASE Cancel
    <2>1. /\ mode' = mode /\ data' = data /\ said' = said /\ cancelled' \in BOOLEAN
          /\ data = <<>> /\ said = <<>>
        BY <1>2 DEF Cancel, HighlightInv
    <2> QED BY <2>1 DEF HighlightInv, HighlightTypeOK, TokensExact
<1>3. CASE FetchFails
    <2>1. /\ mode' = Idle /\ data' = data /\ said' = said /\ cancelled' = cancelled
        BY <1>3 DEF FetchFails
    <2> QED BY <2>1 DEF HighlightInv, HighlightTypeOK, TokensExact
<1>4. ASSUME NEW p \in Payloads, Fetched(p) PROVE HighlightInv'
    BY <1>4, FetchedKeeps
<1>5. CASE UNCHANGED highlightVars
    BY <1>5 DEF highlightVars, HighlightInv, HighlightTypeOK, TokensExact
<1> QED BY <1>1, <1>2, <1>3, <1>4, <1>5 DEF HighlightNext

(* Whatever tokens an answer names and in whatever order, what Monaco reads of the array it
   is given is those with a position, a length and a type, each once and at its own place,
   in the order of the text, and a request cancelled or never sent brings none; and none of
   its numbers is negative or past 32 bits
   [semanticTokens.js: encodeSemanticTokens, normalizeAbsoluteToken]. *)
THEOREM TokensReadBack == HighlightSpec => [](HighlightTypeOK /\ TokensExact)
<1>1. HighlightInv => HighlightTypeOK /\ TokensExact
    BY DEF HighlightInv
<1> QED BY <1>1, HighlightStart, HighlightKeeps, PTL DEF HighlightSpec

-----------------------------------------------------------------------------
(* Sizes of a beginning of a text                                          *)

\* U8 and U16 with the size of each character as a parameter.
Width(u, t, n) == MapThenSumSet(LAMBDA i : u[t[i]], 1..n)

Widths == [Chars -> Nat \ {0}]

LEMMA WidthIsSum ==
    ASSUME NEW u \in Widths, NEW t \in Seq(Chars), NEW n \in 0..Len(t), NEW w, NEW h,
           w = [i \in 1..Len(t) |-> u[t[i]]], Sums(h, w, Len(t))
    PROVE  Width(u, t, n) = h[1..n]
<1> DEFINE g == CHOOSE g : g = [s \in SUBSET (1..n) |->
                    IF s = {} THEN 0
                    ELSE LET x == CHOOSE x \in s : TRUE IN u[t[x]] + g[s \ {x}]]
           f == [s \in SUBSET (1..n) |-> h[s]]
<1>1. Width(u, t, n) = g[1..n]
    BY DEF Width, MapThenSumSet, MapThenFoldSet
<1>2. ASSUME NEW s \in SUBSET (1..n), NEW x \in s
      PROVE  h[s] = u[t[x]] + h[s \ {x}] /\ h[s \ {x}] = f[s \ {x}]
    <2>1. s \in SUBSET (1..Len(t)) /\ x \in 1..Len(t) /\ s \ {x} \in SUBSET (1..n)
        OBVIOUS
    <2> QED BY <2>1 DEF Sums
<1>3. f = [s \in SUBSET (1..n) |->
              IF s = {} THEN 0 ELSE LET x == CHOOSE x \in s : TRUE IN u[t[x]] + f[s \ {x}]]
    <2>1. ASSUME NEW s \in SUBSET (1..n)
          PROVE  h[s] = IF s = {} THEN 0
                        ELSE LET x == CHOOSE x \in s : TRUE IN u[t[x]] + f[s \ {x}]
        <3>1. CASE s = {}
            BY <3>1 DEF Sums
        <3>2. CASE s # {}
            <4>1. (CHOOSE x \in s : TRUE) \in s
                BY <3>2
            <4> HIDE DEF f
            <4> QED BY <1>2, <3>2, <4>1
        <3> QED BY <3>1, <3>2
    <2> QED BY <2>1, Zenon
<1>4. g = [s \in SUBSET (1..n) |->
              IF s = {} THEN 0 ELSE LET x == CHOOSE x \in s : TRUE IN u[t[x]] + g[s \ {x}]]
    BY <1>3, Zenon
<1> HIDE DEF g
<1>5. Iterates(g, w, n)
    <2>1. {} \in SUBSET (1..n)
        OBVIOUS
    <2>2. g[{}] = 0
        BY <1>4, <2>1, Zenon
    <2>3. ASSUME NEW s \in SUBSET (1..n), s # {}
          PROVE  \E x \in s : g[s] = w[x] + g[s \ {x}]
        <3> DEFINE x == CHOOSE x \in s : TRUE
        <3>1. x \in s
            BY <2>3
        <3>2. g[s] = IF s = {} THEN 0 ELSE u[t[x]] + g[s \ {x}]
            BY <1>4, Zenon
        <3> HIDE DEF x
        <3>3. x \in 1..Len(t)
            BY <3>1
        <3>4. w[x] = u[t[x]]
            BY <3>3
        <3> QED BY <2>3, <3>1, <3>2, <3>4
    <2> QED BY <2>2, <2>3 DEF Iterates
<1>6. n \in Nat /\ n <= Len(t)
    OBVIOUS
<1> QED BY <1>1, <1>5, <1>6, SumsOnly

\* The width of the first n characters grows by that of the next.
LEMMA WidthGrows ==
    ASSUME NEW u \in Widths, NEW t \in Seq(Chars)
    PROVE  /\ Width(u, t, 0) = 0
           /\ \A n \in 0..Len(t) : Width(u, t, n) \in Nat
           /\ \A n \in 0..(Len(t) - 1) : Width(u, t, n + 1) = Width(u, t, n) + u[t[n + 1]]
<1> DEFINE w == [i \in 1..Len(t) |-> u[t[i]]]
<1>1. w \in [1..Len(t) -> Nat]
    BY DEF Widths
<1>2. PICK h : Sums(h, w, Len(t))
    <2>1. Len(t) \in Nat
        OBVIOUS
    <2> HIDE DEF w
    <2> QED BY <1>1, <2>1, SumsExist
<1>3. \A n \in 0..Len(t) : Width(u, t, n) = h[1..n]
    <2>1. w = [i \in 1..Len(t) |-> u[t[i]]]
        OBVIOUS
    <2> HIDE DEF w
    <2> QED BY <1>2, <2>1, WidthIsSum
<1>4. Len(t) \in Nat
    OBVIOUS
<1>5. Width(u, t, 0) = 0
    <2>1. 0 \in 0..Len(t) /\ 1..0 = {}
        BY <1>4
    <2> QED BY <1>2, <1>3, <2>1 DEF Sums
<1>6. \A n \in 0..Len(t) : Width(u, t, n) \in Nat
    <2>1. \A n \in 0..Len(t) : 1..n \in SUBSET (1..Len(t))
        OBVIOUS
    <2> QED BY <1>2, <1>3, <2>1 DEF Sums
<1>7. ASSUME NEW n \in 0..(Len(t) - 1)
      PROVE  Width(u, t, n + 1) = Width(u, t, n) + u[t[n + 1]]
    <2>1. /\ n \in 0..Len(t) /\ n + 1 \in 0..Len(t) /\ n + 1 \in 1..(n + 1) /\ n + 1 \in 1..Len(t)
          /\ 1..(n + 1) \in SUBSET (1..Len(t)) /\ (1..(n + 1)) \ {n + 1} = 1..n
        OBVIOUS
    <2>2. h[1..(n + 1)] = w[n + 1] + h[1..n]
        <3> HIDE DEF w
        <3>1. \A s \in SUBSET (1..Len(t)) : \A x \in s : h[s] = w[x] + h[s \ {x}]
            BY <1>2 DEF Sums
        <3>2. h[1..(n + 1)] = w[n + 1] + h[(1..(n + 1)) \ {n + 1}]
            BY <2>1, <3>1
        <3> QED BY <2>1, <3>2
    <2>3. w[n + 1] = u[t[n + 1]] /\ w[n + 1] \in Nat
        BY <1>1, <2>1
    <2>4. Width(u, t, n) \in Nat
        BY <1>6, <2>1
    <2>5. Width(u, t, n + 1) = h[1..(n + 1)] /\ Width(u, t, n) = h[1..n]
        BY <1>3, <2>1
    <2> HIDE DEF w
    <2> QED BY <2>2, <2>3, <2>4, <2>5
<1> QED BY <1>5, <1>6, <1>7

\* It is strictly increasing: a width names one place.
LEMMA WidthIncreases ==
    ASSUME NEW u \in Widths, NEW t \in Seq(Chars), NEW m \in 0..Len(t), NEW n \in 0..Len(t), m < n
    PROVE  Width(u, t, m) < Width(u, t, n)
<1> DEFINE K == {k \in Nat : k < Len(t) =>
                    \A j \in 0..k : Width(u, t, j) < Width(u, t, k + 1)}
<1>1. \A j \in 0..Len(t) : Width(u, t, j) \in Nat
    BY WidthGrows
<1>2. ASSUME NEW k \in Nat, k < Len(t)
      PROVE  /\ Width(u, t, k) < Width(u, t, k + 1)
             /\ \A j \in 0..(k + 1) : Width(u, t, j) \in Nat
    <2>1. k \in 0..(Len(t) - 1) /\ k + 1 \in 1..Len(t) /\ t[k + 1] \in Chars
        BY <1>2
    <2>2. u[t[k + 1]] \in Nat \ {0}
        BY <2>1 DEF Widths
    <2>3. Width(u, t, k + 1) = Width(u, t, k) + u[t[k + 1]]
        BY <2>1, WidthGrows
    <2>4. \A j \in 0..(k + 1) : j \in 0..Len(t)
        BY <2>1
    <2> QED BY <1>1, <2>1, <2>2, <2>3, <2>4
<1>3. 0 \in K
    BY <1>2
<1>4. ASSUME NEW k \in Nat, k \in K PROVE k + 1 \in K
    <2>1. SUFFICES ASSUME k + 1 < Len(t), NEW j \in 0..(k + 1)
                   PROVE  Width(u, t, j) < Width(u, t, k + 2)
        OBVIOUS
    <2>2. k < Len(t) /\ k + 1 \in Nat /\ (k + 1) + 1 = k + 2
        BY <2>1
    <2>3. Width(u, t, k + 1) < Width(u, t, k + 2)
        BY <1>2, <2>1, <2>2
    <2>4. /\ Width(u, t, j) \in Nat /\ Width(u, t, k + 1) \in Nat /\ Width(u, t, k + 2) \in Nat
        <3>1. j \in 0..Len(t) /\ k + 1 \in 0..Len(t) /\ k + 2 \in 0..Len(t)
            BY <2>1
        <3> QED BY <1>1, <3>1
    <2>5. CASE j = k + 1
        BY <2>3, <2>5
    <2>6. CASE j \in 0..k
        <3>1. Width(u, t, j) < Width(u, t, k + 1)
            BY <1>4, <2>2, <2>6
        <3> QED BY <2>3, <2>4, <3>1
    <2>7. j = k + 1 \/ j \in 0..k
        OBVIOUS
    <2> QED BY <2>5, <2>6, <2>7
<1> HIDE DEF K
<1>5. Nat \subseteq K
    BY <1>3, <1>4, SetInduction
<1>6. n - 1 \in Nat /\ n - 1 < Len(t) /\ m \in 0..(n - 1) /\ (n - 1) + 1 = n
    OBVIOUS
<1>7. n - 1 \in K
    BY <1>5, <1>6
<1> QED BY <1>6, <1>7 DEF K

\* It is that of any text with the same beginning.
LEMMA WidthOfBeginning ==
    ASSUME NEW u \in Widths, NEW t \in Seq(Chars), NEW v \in Seq(Chars),
           NEW n \in Nat, n <= Len(t), n <= Len(v), \A i \in 1..n : t[i] = v[i]
    PROVE  Width(u, t, n) = Width(u, v, n)
<1> DEFINE K == {k \in Nat : k <= n => Width(u, t, k) = Width(u, v, k)}
<1>1. 0 \in K
    BY WidthGrows
<1>2. ASSUME NEW k \in Nat, k \in K PROVE k + 1 \in K
    <2>1. SUFFICES ASSUME k + 1 <= n PROVE Width(u, t, k + 1) = Width(u, v, k + 1)
        OBVIOUS
    <2>2. Width(u, t, k) = Width(u, v, k) /\ k \in 0..(Len(t) - 1) /\ k \in 0..(Len(v) - 1)
        BY <1>2, <2>1
    <2>3. t[k + 1] = v[k + 1]
        BY <2>1
    <2> QED BY <2>2, <2>3, WidthGrows
<1> HIDE DEF K
<1>3. Nat \subseteq K
    BY <1>1, <1>2, SetInduction
<1> QED BY <1>3 DEF K

LEMMA Sizes ==
    /\ Utf8 \in Widths /\ Utf16 \in Widths
    /\ \A t, n : U8(t, n) = Width(Utf8, t, n) /\ U16(t, n) = Width(Utf16, t, n)
<1>1. Utf8 \in Widths /\ Utf16 \in Widths
    BY TextAssumption DEF Widths
<1>2. \A t, n : U8(t, n) = Width(Utf8, t, n) /\ U16(t, n) = Width(Utf16, t, n)
    BY DEF U8, U16, Width
<1> QED BY <1>1, <1>2

-----------------------------------------------------------------------------
(* Offsets and positions                                                   *)

LEMMA OffsetsType ==
    ASSUME NEW t \in Seq(Chars)
    PROVE  \A n \in 0..Len(t) : U16(t, n) \in Nat /\ U8(t, n) \in Nat
BY Sizes, WidthGrows

LEMMA OffsetsDiffer ==
    ASSUME NEW t \in Seq(Chars), NEW m \in 0..Len(t), NEW n \in 0..Len(t)
    PROVE  /\ U16(t, m) = U16(t, n) => m = n
           /\ U8(t, m) < U8(t, n) <=> m < n
           /\ U8(t, m) = U8(t, n) => m = n
<1>1. ASSUME NEW u \in Widths
      PROVE  /\ Width(u, t, m) \in Nat /\ Width(u, t, n) \in Nat
             /\ m < n => Width(u, t, m) < Width(u, t, n)
             /\ n < m => Width(u, t, n) < Width(u, t, m)
    BY WidthGrows, WidthIncreases
<1>2. m = n \/ m < n \/ n < m
    OBVIOUS
<1>3. /\ U16(t, m) = U16(t, n) => m = n
      /\ U8(t, m) \in Nat /\ U8(t, n) \in Nat
      /\ m < n => U8(t, m) < U8(t, n)
      /\ n < m => U8(t, n) < U8(t, m)
    BY <1>1, <1>2, Sizes
<1> QED BY <1>2, <1>3

LEMMA TheOne == \A n \in Int : The({n}) = n
<1>1. ASSUME NEW n \in Int PROVE The({n}) = n
    <2>1. Min({n}) = n
        BY DEF Min
    <2> QED BY <2>1 DEF The
<1> QED BY <1>1

\* The offset of a place names the place.
LEMMA AtItsOffset ==
    ASSUME NEW t \in Seq(Chars), NEW n \in 0..Len(t)
    PROVE  AtOffset(t, U16(t, n)) = n
<1>1. {m \in 0..Len(t) : U16(t, m) = U16(t, n)} = {n}
    BY OffsetsDiffer
<1>2. n \in Int
    OBVIOUS
<1> QED BY <1>1, <1>2, TheOne DEF AtOffset

\* And so does its position.
LEMMA AtItsPosition ==
    ASSUME NEW t \in Seq(Chars), NEW n \in 0..Len(t), LineStart(t, Newlines(t, n)) \in 0..Len(t)
    PROVE  AtPosition(t, PositionAt(t, n)) = n
<1> DEFINE line == Newlines(t, n)
           begin == LineStart(t, line)
           column == U16(t, n) - U16(t, begin)
<1>1. PositionAt(t, n) = [line |-> line, character |-> column]
    BY DEF PositionAt
<1>2. U16(t, begin) \in Nat /\ \A m \in 0..Len(t) : U16(t, m) \in Nat
    BY OffsetsType
<1> DEFINE There == {m \in 0..Len(t) : Newlines(t, m) = line /\ U16(t, m) - U16(t, begin) = column}
<1>3. There = {n}
    <2>1. n \in There
        OBVIOUS
    <2>2. ASSUME NEW m \in There PROVE m = n
        <3>1. U16(t, m) = U16(t, n)
            <4> HIDE DEF begin, line
            <4> QED BY <1>2
        <3> QED BY <3>1, OffsetsDiffer
    <2> QED BY <2>1, <2>2
<1> DEFINE p == PositionAt(t, n)
<1>4. AtPosition(t, p) = The(There)
    <2>1. p.line = line /\ p.character = column
        BY <1>1
    <2> HIDE DEF p, line, column
    <2>2. LineStart(t, p.line) = begin
        BY <2>1
    <2>3. {m \in 0..Len(t) : /\ Newlines(t, m) = p.line
                             /\ U16(t, m) - U16(t, LineStart(t, p.line)) = p.character}
            = There
        BY <2>1, <2>2
    <2> QED BY <2>3 DEF AtPosition
<1>5. n \in Int
    OBVIOUS
<1> QED BY <1>3, <1>4, <1>5, TheOne

\* Texts with the same beginning have the same offsets and positions in it.
Agree(t, v, n) == n <= Len(t) /\ n <= Len(v) /\ \A i \in 1..n : t[i] = v[i]

LEMMA LineBegins ==
    ASSUME NEW t \in Seq(Chars), NEW n \in 0..Len(t)
    PROVE  /\ LineStart(t, Newlines(t, n)) \in 0..n
           /\ Newlines(t, LineStart(t, Newlines(t, n))) = Newlines(t, n)
           /\ \A m \in 0..Len(t) : Newlines(t, m) = Newlines(t, n) => LineStart(t, Newlines(t, n)) <= m
<1> DEFINE T == {m \in 0..Len(t) : Newlines(t, m) = Newlines(t, n)}
<1>1. n \in T /\ T \subseteq Nat /\ T # {}
    OBVIOUS
<1>2. \E m \in T : \A k \in T : m <= k
    BY <1>1, LeastNatural
<1>3. LineStart(t, Newlines(t, n)) = Min(T)
    BY <1>1 DEF LineStart, The
<1>4. Min(T) \in T /\ \A k \in T : Min(T) <= k
    <2> HIDE DEF T
    <2> QED BY <1>2 DEF Min
<1>5. Min(T) \in 0..Len(t) /\ Newlines(t, Min(T)) = Newlines(t, n) /\ Min(T) <= n
    BY <1>1, <1>4
<1>6. \A m \in 0..Len(t) : Newlines(t, m) = Newlines(t, n) => Min(T) <= m
    BY <1>4
<1> HIDE DEF T
<1> QED BY <1>3, <1>5, <1>6

LEMMA AgreeOnPlaces ==
    ASSUME NEW t \in Seq(Chars), NEW v \in Seq(Chars), NEW n \in Nat, Agree(t, v, n)
    PROVE  U16(t, n) = U16(v, n) /\ PositionAt(t, n) = PositionAt(v, n)
<1>1. \A m \in 0..n : m \in 0..Len(t) /\ m \in 0..Len(v) /\ Agree(t, v, m)
    BY DEF Agree
<1>2. ASSUME NEW m \in 0..n
      PROVE  U16(t, m) = U16(v, m) /\ Newlines(t, m) = Newlines(v, m)
    <2>1. Agree(t, v, m) /\ m \in Nat
        BY <1>1
    <2>2. {i \in 1..m : t[i] = Newline} = {i \in 1..m : v[i] = Newline}
        BY <2>1 DEF Agree
    <2>3. Width(Utf16, t, m) = Width(Utf16, v, m)
        BY <2>1, Sizes, WidthOfBeginning DEF Agree
    <2> QED BY <2>2, <2>3, Sizes DEF Newlines
<1> DEFINE line == Newlines(t, n)
<1>3. line = Newlines(v, n) /\ n \in 0..n
    BY <1>2
<1> DEFINE b == LineStart(t, line)
           c == LineStart(v, line)
<1>4. b \in 0..n /\ Newlines(t, b) = line /\ \A m \in 0..Len(t) : Newlines(t, m) = line => b <= m
    BY <1>1, <1>3, LineBegins
<1>5. c \in 0..n /\ Newlines(v, c) = line /\ \A m \in 0..Len(v) : Newlines(v, m) = line => c <= m
    BY <1>1, <1>3, LineBegins
<1> HIDE DEF b, c, line
<1>6. b = c
    BY <1>1, <1>2, <1>4, <1>5
<1>7. U16(t, b) = U16(v, c) /\ U16(t, n) = U16(v, n)
    BY <1>2, <1>3, <1>4, <1>6
<1> QED BY <1>3, <1>7 DEF PositionAt, line, b, c

-----------------------------------------------------------------------------
(* One change                                                              *)

LEMMA NotRefused == \A t \in Seq(Chars) : t # Refused
<1>1. ASSUME NEW t \in Seq(Chars), t = Refused PROVE FALSE
    <2>1. Len(t) = 1 /\ t[1] = "refused"
        BY <1>1 DEF Refused
    <2>2. t[1] \in Chars
        BY <2>1
    <2> QED BY <2>1, <2>2, TextAssumption
<1> QED BY <1>1

LEMMA SplicedType ==
    ASSUME NEW t \in Seq(Chars), NEW s \in 0..Len(t), NEW e \in s..Len(t), NEW new \in Seq(Chars)
    PROVE  Spliced(t, s, e, new) \in Seq(Chars)
<1>1. SubSeq(t, 1, s) \in Seq(Chars) /\ SubSeq(t, e + 1, Len(t)) \in Seq(Chars)
    <2>1. ASSUME NEW m \in 1..(Len(t) + 1), NEW n \in 0..Len(t) PROVE SubSeq(t, m, n) \in Seq(Chars)
        <3>1. \A i \in m..n : t[i] \in Chars
            OBVIOUS
        <3> QED BY <3>1, SubSeqProperties
    <2> QED BY <2>1
<1> QED BY <1>1, ConcatProperties DEF Spliced

\* Either program carries out the change the tab names.
LEMMA OneChange ==
    ASSUME NEW t \in Seq(Chars), NEW s \in 0..Len(t), NEW e \in s..Len(t), NEW new \in Seq(Chars)
    PROVE  /\ ApplyChange(t, Change(t, s, e, new)) = Spliced(t, s, e, new)
           /\ OperateChange(t, Change(t, s, e, new)) = Spliced(t, s, e, new)
<1> DEFINE c == Change(t, s, e, new)
<1>1. e \in 0..Len(t) /\ Len(t) \in Nat
    OBVIOUS
<1>2. c.offset = U16(t, s) /\ c.offset + c.length = U16(t, e)
    <2>1. U16(t, s) \in Nat /\ U16(t, e) \in Nat
        BY <1>1, OffsetsType
    <2> QED BY <2>1 DEF Change
<1>3. c.start = PositionAt(t, s) /\ c.end = PositionAt(t, e) /\ c.text = new
    BY DEF Change
<1> HIDE DEF c
<1>4. AtOffset(t, c.offset) = s /\ AtOffset(t, c.offset + c.length) = e
    BY <1>1, <1>2, AtItsOffset
<1>5. AtPosition(t, c.start) = s /\ AtPosition(t, c.end) = e
    <2>1. \A n \in 0..Len(t) : LineStart(t, Newlines(t, n)) \in 0..Len(t)
        BY LineBegins
    <2> QED BY <1>1, <1>3, <2>1, AtItsPosition
<1>6. s # Invalid /\ e # Invalid
    BY <1>1 DEF Invalid
<1> QED BY <1>3, <1>4, <1>5, <1>6, NotRefused DEF ApplyChange, OperateChange, c

\* A change named in the old text says the same in one that differs only after it.
LEMMA EarlierChange ==
    ASSUME NEW t \in Seq(Chars), NEW v \in Seq(Chars), NEW s \in Nat, NEW e \in Nat, s <= e,
           Agree(t, v, e), NEW new
    PROVE  Change(t, s, e, new) = Change(v, s, e, new)
<1>1. Agree(t, v, s)
    BY DEF Agree
<1> QED BY <1>1, AgreeOnPlaces DEF Change

LEMMA SplicedAgrees ==
    ASSUME NEW t \in Seq(Chars), NEW s \in 0..Len(t), NEW e \in s..Len(t), NEW new \in Seq(Chars),
           NEW n \in 0..s
    PROVE  Agree(t, Spliced(t, s, e, new), n)
<1> DEFINE a == SubSeq(t, 1, s)
           b == SubSeq(t, e + 1, Len(t))
<1>1. a \in Seq(Chars) /\ Len(a) = s /\ \A i \in 1..s : a[i] = t[i]
    <2>1. \A i \in 1..s : t[i] \in Chars
        OBVIOUS
    <2> QED BY <2>1, SubSeqProperties
<1>2. b \in Seq(Chars)
    <2>1. \A i \in (e + 1)..Len(t) : t[i] \in Chars
        OBVIOUS
    <2> QED BY <2>1, SubSeqProperties
<1> HIDE DEF a, b
<1>3. \A x, y \in Seq(Chars) :
        /\ x \o y \in Seq(Chars) /\ Len(x \o y) = Len(x) + Len(y)
        /\ \A i \in 1..Len(x) : (x \o y)[i] = x[i]
    BY ConcatProperties
<1>4. /\ a \o new \in Seq(Chars) /\ Len(a \o new) = s + Len(new)
      /\ \A i \in 1..s : (a \o new)[i] = a[i]
    BY <1>3, <1>1
<1>5. /\ Len((a \o new) \o b) = s + Len(new) + Len(b)
      /\ \A i \in 1..s : ((a \o new) \o b)[i] = (a \o new)[i]
    <2>1. \A i \in 1..s : i \in 1..Len(a \o new)
        BY <1>4
    <2> QED BY <1>3, <1>2, <1>4, <2>1
<1>6. Spliced(t, s, e, new) = (a \o new) \o b
    BY DEF Spliced, a, b
<1>7. Len(new) \in Nat /\ Len(b) \in Nat /\ n <= Len(t) /\ n <= s /\ s \in Nat
    BY <1>2
<1>8. \A i \in 1..n : i \in 1..s
    OBVIOUS
<1> QED BY <1>1, <1>4, <1>5, <1>6, <1>7, <1>8 DEF Agree

-----------------------------------------------------------------------------
(* One change after another                                                *)

\* What either program does with one change.
Programs == {"apply", "operate"}

Applied(program, t, c) == IF program = "apply" THEN ApplyChange(t, c) ELSE OperateChange(t, c)

Steps(program, t, cs) ==
    IF program = "apply" THEN FoldLeft(ApplyChange, t, cs) ELSE FoldLeft(OperateChange, t, cs)

\* The recursive function that FoldLeft is defined with, over 1..n.
Folds(f, program, t, cs, n) ==
    f = [s \in SUBSET (1..n) |->
            IF s = {} THEN t ELSE Applied(program, f[s \ {Max(s)}], cs[Max(s)])]

LEMMA MaxIs ==
    ASSUME NEW n \in Nat, NEW s \in SUBSET (1..n), n \in s
    PROVE  Max(s) = n
<1>1. \A y \in s : n >= y /\ y \in Nat
    OBVIOUS
<1>2. Max(s) \in s /\ \A y \in s : Max(s) >= y
    BY <1>1 DEF Max
<1>3. n >= Max(s) /\ Max(s) >= n /\ Max(s) \in Nat
    BY <1>1, <1>2
<1> QED BY <1>3

LEMMA FoldsExist ==
    ASSUME NEW program, NEW t, NEW cs, NEW n \in Nat
    PROVE  \E f : Folds(f, program, t, cs, n)
<1> DEFINE M == {m \in Nat : \E f : Folds(f, program, t, cs, m)}
<1>1. 0 \in M
    <2> DEFINE f == [s \in SUBSET (1..0) |-> t]
    <2>1. \A s \in SUBSET (1..0) : s = {}
        OBVIOUS
    <2>2. f = [s \in SUBSET (1..0) |->
                  IF s = {} THEN t ELSE Applied(program, f[s \ {Max(s)}], cs[Max(s)])]
        BY <2>1
    <2> HIDE DEF f
    <2> QED BY <2>2 DEF Folds
<1>2. ASSUME NEW m \in Nat, m \in M PROVE m + 1 \in M
    <2>1. PICK f : Folds(f, program, t, cs, m)
        BY <1>2
    <2> DEFINE Next1(s) == IF s = {} THEN t
                           ELSE IF m + 1 \in s THEN Applied(program, f[s \ {m + 1}], cs[m + 1])
                           ELSE f[s]
               g == [s \in SUBSET (1..(m + 1)) |-> Next1(s)]
    <2>2. ASSUME NEW s \in SUBSET (1..m) PROVE g[s] = f[s]
        <3>1. s \in SUBSET (1..(m + 1)) /\ m + 1 \notin s
            OBVIOUS
        <3>2. g[s] = IF s = {} THEN t ELSE f[s]
            BY <3>1
        <3>3. s = {} => f[s] = t
            BY <2>1 DEF Folds
        <3> QED BY <3>2, <3>3
    <2>3. ASSUME NEW s \in SUBSET (1..(m + 1)), s # {}
          PROVE  Next1(s) = Applied(program, g[s \ {Max(s)}], cs[Max(s)])
        <3>1. CASE m + 1 \in s
            <4>1. Max(s) = m + 1
                BY <3>1, MaxIs
            <4>2. s \ {m + 1} \in SUBSET (1..m)
                OBVIOUS
            <4>3. g[s \ {m + 1}] = f[s \ {m + 1}]
                BY <2>2, <4>2
            <4> HIDE DEF g
            <4> QED BY <2>3, <3>1, <4>1, <4>3
        <3>2. CASE m + 1 \notin s
            <4>1. s \in SUBSET (1..m)
                BY <3>2
            <4> DEFINE x == Max(s)
            <4> HIDE DEF x
            <4>5. s \ {x} \in SUBSET (1..m)
                BY <4>1
            <4>2. g[s \ {Max(s)}] = f[s \ {Max(s)}]
                BY <2>2, <4>5 DEF x
            <4>3. f[s] = Applied(program, f[s \ {Max(s)}], cs[Max(s)])
                BY <2>1, <2>3, <4>1 DEF Folds
            <4> HIDE DEF g
            <4> QED BY <2>3, <3>2, <4>2, <4>3
        <3> QED BY <3>1, <3>2
    <2>4. g = [s \in SUBSET (1..(m + 1)) |->
                  IF s = {} THEN t ELSE Applied(program, g[s \ {Max(s)}], cs[Max(s)])]
        <3>1. \A s \in SUBSET (1..(m + 1)) :
                Next1(s) = IF s = {} THEN t ELSE Applied(program, g[s \ {Max(s)}], cs[Max(s)])
            BY <2>3
        <3> HIDE DEF Next1
        <3> QED BY <3>1, Zenon
    <2> HIDE DEF g
    <2>5. Folds(g, program, t, cs, m + 1)
        BY <2>4 DEF Folds
    <2> QED BY <2>5
<1>3. Nat \subseteq M
    BY <1>1, <1>2, SetInduction
<1> QED BY <1>3

LEMMA StepsAre ==
    ASSUME NEW C, NEW program \in Programs, NEW t, NEW cs \in Seq(C)
    PROVE  \E g : Folds(g, program, t, cs, Len(cs)) /\ Steps(program, t, cs) = g[1..Len(cs)]
<1>1. PICK f : Folds(f, program, t, cs, Len(cs))
    <2>1. Len(cs) \in Nat
        OBVIOUS
    <2> QED BY <2>1, FoldsExist
<1>2. DOMAIN cs = 1..Len(cs)
    OBVIOUS
<1>3. CASE program = "apply"
    <2> DEFINE Is(g) == g = [s \in SUBSET (1..Len(cs)) |->
                               IF s = {} THEN t ELSE ApplyChange(g[s \ {Max(s)}], cs[Max(s)])]
               g == CHOOSE g : Is(g)
    <2>1. FoldLeft(ApplyChange, t, cs) = g[1..Len(cs)]
        BY <1>2 DEF FoldLeft, MapThenFoldSet
    <2>2. \A h : Folds(h, program, t, cs, Len(cs)) <=> Is(h)
        BY <1>3, Zenon DEF Folds, Applied
    <2> HIDE DEF Is
    <2>3. Is(g)
        BY <1>1, <2>2
    <2> HIDE DEF g
    <2> QED BY <1>3, <2>1, <2>2, <2>3 DEF Steps
<1>4. CASE program = "operate"
    <2> DEFINE Is(g) == g = [s \in SUBSET (1..Len(cs)) |->
                               IF s = {} THEN t ELSE OperateChange(g[s \ {Max(s)}], cs[Max(s)])]
               g == CHOOSE g : Is(g)
    <2>1. FoldLeft(OperateChange, t, cs) = g[1..Len(cs)]
        BY <1>2 DEF FoldLeft, MapThenFoldSet
    <2>2. \A h : Folds(h, program, t, cs, Len(cs)) <=> Is(h)
        BY <1>4, Zenon DEF Folds, Applied
    <2> HIDE DEF Is
    <2>3. Is(g)
        BY <1>1, <2>2
    <2> HIDE DEF g
    <2> QED BY <1>4, <2>1, <2>2, <2>3 DEF Steps
<1> QED BY <1>3, <1>4 DEF Programs

LEMMA NoSteps == ASSUME NEW program \in Programs, NEW t PROVE Steps(program, t, <<>>) = t
<1> DEFINE none == <<>>
<1>1. none \in Seq({}) /\ 1..Len(none) = {}
    OBVIOUS
<1> HIDE DEF none
<1>2. PICK g : Folds(g, program, t, none, Len(none)) /\ Steps(program, t, none) = g[1..Len(none)]
    BY <1>1, StepsAre
<1>3. {} \in SUBSET (1..Len(none))
    OBVIOUS
<1>4. g[{}] = t
    BY <1>2, <1>3, Zenon DEF Folds
<1> QED BY <1>1, <1>2, <1>4 DEF none

LEMMA OneMoreStep ==
    ASSUME NEW C, NEW program \in Programs, NEW t, NEW cs \in Seq(C), NEW c \in C
    PROVE  Steps(program, t, Append(cs, c)) = Applied(program, Steps(program, t, cs), c)
<1> DEFINE n == Len(cs)
           more == Append(cs, c)
<1>1. /\ more \in Seq(C) /\ Len(more) = n + 1 /\ n \in Nat
      /\ more[n + 1] = c /\ \A i \in 1..n : more[i] = cs[i]
    BY AppendProperties
<1>2. PICK f : Folds(f, program, t, cs, n) /\ Steps(program, t, cs) = f[1..n]
    BY StepsAre
<1> HIDE DEF more
<1>3. PICK g : Folds(g, program, t, more, n + 1) /\ Steps(program, t, more) = g[1..(n + 1)]
    <2>1. \E g : Folds(g, program, t, more, Len(more)) /\ Steps(program, t, more) = g[1..Len(more)]
        BY <1>1, StepsAre
    <2> QED BY <1>1, <2>1
<1> HIDE DEF n, more
<1>4. ASSUME NEW k \in Nat, NEW m \in Nat, k + 1 <= m, NEW h, NEW ds, Folds(h, program, t, ds, m)
      PROVE  h[1..(k + 1)] = Applied(program, h[1..k], ds[k + 1])
    <2>1. /\ 1..(k + 1) \in SUBSET (1..m) /\ k + 1 \in 1..(k + 1)
          /\ (1..(k + 1)) \ {k + 1} = 1..k
        <3>1. \A i \in 1..(k + 1) : i \in 1..m
            BY <1>4
        <3> QED BY <3>1
    <2>4. 1..(k + 1) # {}
        BY <2>1
    <2>2. Max(1..(k + 1)) = k + 1
        BY <2>1, MaxIs
    <2>3. h[1..(k + 1)] = Applied(program, h[(1..(k + 1)) \ {Max(1..(k + 1))}], ds[Max(1..(k + 1))])
        BY <1>4, <2>1, <2>4, Zenon DEF Folds
    <2> QED BY <2>1, <2>2, <2>3
<1> DEFINE K == {k \in Nat : k <= n => g[1..k] = f[1..k]}
<1>5. 0 \in K
    <2>1. 1..0 = {} /\ {} \in SUBSET (1..n) /\ {} \in SUBSET (1..(n + 1))
        OBVIOUS
    <2>2. f[{}] = t /\ g[{}] = t
        BY <1>2, <1>3, <2>1, Zenon DEF Folds
    <2> QED BY <2>1, <2>2
<1>6. ASSUME NEW k \in Nat, k \in K PROVE k + 1 \in K
    <2>1. SUFFICES ASSUME k + 1 <= n PROVE g[1..(k + 1)] = f[1..(k + 1)]
        OBVIOUS
    <2>2. f[1..(k + 1)] = Applied(program, f[1..k], cs[k + 1])
        BY <1>1, <1>2, <1>4, <2>1
    <2>3. g[1..(k + 1)] = Applied(program, g[1..k], more[k + 1])
        <3>1. k + 1 <= n + 1 /\ n + 1 \in Nat
            BY <1>1, <2>1
        <3> QED BY <1>3, <1>4, <3>1
    <2>4. more[k + 1] = cs[k + 1] /\ g[1..k] = f[1..k]
        BY <1>1, <1>6, <2>1
    <2> QED BY <2>2, <2>3, <2>4
<1>7. Nat \subseteq K
    <2> HIDE DEF K
    <2> QED BY <1>5, <1>6, SetInduction
<1>8. g[1..n] = f[1..n]
    BY <1>1, <1>7
<1>9. g[1..(n + 1)] = Applied(program, g[1..n], more[n + 1])
    BY <1>1, <1>3, <1>4
<1> QED BY <1>1, <1>2, <1>3, <1>8, <1>9 DEF more

-----------------------------------------------------------------------------
(* Batches                                                                 *)

NamedChanges ==
    {Change(x[1], x[2], x[3], x[4]) : x \in Seq(Chars) \X Nat \X Nat \X Seq(Chars)}

Batches == [seq : Nat, changes : Seq(NamedChanges)]

LEMMA ChangesAppend ==
    ASSUME NEW bs \in Seq(Batches), NEW b \in Batches
    PROVE  /\ Changes(bs) \in Seq(NamedChanges)
           /\ Changes(Append(bs, b)) = Changes(bs) \o b.changes
<1> DEFINE more == Append(bs, b)
           rows == [i \in DOMAIN bs |-> bs[i].changes]
<1>1. /\ more \in Seq(Batches) /\ Len(more) = Len(bs) + 1 /\ Len(bs) \in Nat
      /\ more[Len(bs) + 1] = b /\ \A i \in 1..Len(bs) : more[i] = bs[i]
    BY AppendProperties
<1>2. b.changes \in Seq(NamedChanges) /\ \A i \in 1..Len(bs) : bs[i].changes \in Seq(NamedChanges)
    <2>1. \A x \in Batches : x.changes \in Seq(NamedChanges)
        BY DEF Batches
    <2>2. \A i \in 1..Len(bs) : bs[i] \in Batches
        OBVIOUS
    <2> QED BY <2>1, <2>2
<1>3. rows \in Seq(Seq(NamedChanges)) /\ Len(rows) = Len(bs)
    <2>1. rows \in [1..Len(bs) -> Seq(NamedChanges)]
        BY <1>2
    <2> HIDE DEF rows
    <2> QED BY <1>1, <2>1, FunctionIsSeq
<1> HIDE DEF more
<1>4. [i \in DOMAIN more |-> more[i].changes] = Append(rows, b.changes)
    <2> DEFINE new == [i \in DOMAIN more |-> more[i].changes]
    <2>1. DOMAIN more = 1..(Len(bs) + 1)
        BY <1>1
    <2>2. \A i \in 1..Len(bs) : i \in DOMAIN more /\ new[i] = rows[i]
        BY <1>1, <2>1
    <2>3. new[Len(bs) + 1] = b.changes
        BY <1>1, <2>1
    <2>4. /\ Append(rows, b.changes) \in Seq(Seq(NamedChanges))
          /\ Len(Append(rows, b.changes)) = Len(bs) + 1
          /\ Append(rows, b.changes)[Len(bs) + 1] = b.changes
          /\ \A i \in 1..Len(bs) : Append(rows, b.changes)[i] = rows[i]
        BY <1>2, <1>3, AppendProperties
    <2>5. \A i \in 1..(Len(bs) + 1) : new[i] = Append(rows, b.changes)[i]
        <3> HIDE DEF new, rows
        <3> QED BY <1>1, <2>2, <2>3, <2>4
    <2>6. DOMAIN Append(rows, b.changes) = 1..(Len(bs) + 1)
        BY <2>4
    <2>7. Append(rows, b.changes) = [i \in 1..(Len(bs) + 1) |-> Append(rows, b.changes)[i]]
        BY <2>4, <2>6
    <2>8. new = [i \in 1..(Len(bs) + 1) |-> new[i]]
        BY <2>1
    <2> HIDE DEF new, rows
    <2> QED BY <2>5, <2>7, <2>8 DEF new
<1>5. Changes(bs) = FlattenSeq(rows) /\ Changes(more) = FlattenSeq(Append(rows, b.changes))
    BY <1>4 DEF Changes
<1> HIDE DEF rows
<1> QED BY <1>2, <1>3, <1>5, FlattenAppend, FlattenType DEF more

-----------------------------------------------------------------------------
(* Chunks                                                                  *)

ByteSet == [char : Chars, byte : Nat]

CharBytes(c) == [k \in 1..Utf8[c] |-> [char |-> c, byte |-> k]]

Piece(b) == IF b.byte = Utf8[b.char] THEN <<b.char>> ELSE <<>>

ByteRows(t) == [i \in DOMAIN t |-> CharBytes(t[i])]

Pieces(bytes) == [i \in DOMAIN bytes |-> Piece(bytes[i])]

LEMMA BytesAre == \A t : Bytes(t) = FlattenSeq(ByteRows(t)) /\ Decoded(t) = FlattenSeq(Pieces(t))
BY DEF Bytes, Decoded, ByteRows, Pieces, CharBytes, Piece

LEMMA CharBytesType ==
    ASSUME NEW c \in Chars
    PROVE  Utf8[c] \in Nat \ {0} /\ CharBytes(c) \in Seq(ByteSet) /\ Len(CharBytes(c)) = Utf8[c]
<1>1. Utf8[c] \in Nat \ {0}
    BY TextAssumption
<1>2. CharBytes(c) \in [1..Utf8[c] -> ByteSet]
    BY DEF CharBytes, ByteSet
<1> QED BY <1>1, <1>2, FunctionIsSeq

LEMMA RowsType ==
    ASSUME NEW t \in Seq(Chars)
    PROVE  ByteRows(t) \in Seq(Seq(ByteSet)) /\ Len(ByteRows(t)) = Len(t)
<1>1. ByteRows(t) \in [1..Len(t) -> Seq(ByteSet)]
    BY CharBytesType DEF ByteRows
<1> QED BY <1>1, FunctionIsSeq

LEMMA PiecesType ==
    ASSUME NEW t \in Seq(ByteSet)
    PROVE  Pieces(t) \in Seq(Seq(Chars)) /\ Len(Pieces(t)) = Len(t)
<1>1. ASSUME NEW b \in ByteSet PROVE Piece(b) \in Seq(Chars)
    BY DEF Piece, ByteSet
<1>2. Pieces(t) \in [1..Len(t) -> Seq(Chars)]
    BY <1>1 DEF Pieces
<1> QED BY <1>2, FunctionIsSeq

LEMMA RowsConcat ==
    ASSUME NEW a \in Seq(Chars), NEW b \in Seq(Chars)
    PROVE  ByteRows(a \o b) = ByteRows(a) \o ByteRows(b)
<1> DEFINE f == [c \in Chars |-> CharBytes(c)]
<1>1. a \o b \in Seq(Chars)
    BY ConcatProperties
<1>2. ASSUME NEW t \in Seq(Chars) PROVE Mapped(f, t, ByteRows(t)) /\ ByteRows(t) \in Seq(Seq(ByteSet))
    BY RowsType DEF Mapped, ByteRows
<1> DEFINE p == ByteRows(a)
           q == ByteRows(b)
           r == ByteRows(a \o b)
           T == Seq(ByteSet)
<1>3. /\ p \in Seq(T) /\ q \in Seq(T) /\ r \in Seq(T)
      /\ Mapped(f, a, p) /\ Mapped(f, b, q) /\ Mapped(f, a \o b, r)
    BY <1>1, <1>2
<1> HIDE DEF f, p, q, r, T
<1>4. r = p \o q
    BY <1>3, MappedConcat
<1> QED BY <1>4 DEF p, q, r

LEMMA PiecesConcat ==
    ASSUME NEW a \in Seq(ByteSet), NEW b \in Seq(ByteSet)
    PROVE  Pieces(a \o b) = Pieces(a) \o Pieces(b)
<1> DEFINE f == [c \in ByteSet |-> Piece(c)]
<1>1. a \o b \in Seq(ByteSet)
    BY ConcatProperties
<1>2. ASSUME NEW t \in Seq(ByteSet) PROVE Mapped(f, t, Pieces(t)) /\ Pieces(t) \in Seq(Seq(Chars))
    BY PiecesType DEF Mapped, Pieces
<1> DEFINE p == Pieces(a)
           q == Pieces(b)
           r == Pieces(a \o b)
           T == Seq(Chars)
<1>3. /\ p \in Seq(T) /\ q \in Seq(T) /\ r \in Seq(T)
      /\ Mapped(f, a, p) /\ Mapped(f, b, q) /\ Mapped(f, a \o b, r)
    BY <1>1, <1>2
<1> HIDE DEF f, p, q, r, T
<1>4. r = p \o q
    BY <1>3, MappedConcat
<1> QED BY <1>4 DEF p, q, r

\* The bytes of a text cut in two, and what is decoded of bytes cut in two.
LEMMA BytesConcat ==
    /\ \A t \in Seq(Chars) : Bytes(t) \in Seq(ByteSet)
    /\ \A a, b \in Seq(Chars) : Bytes(a \o b) = Bytes(a) \o Bytes(b)
    /\ \A a, b \in Seq(ByteSet) : Decoded(a \o b) = Decoded(a) \o Decoded(b)
<1>1. ASSUME NEW t \in Seq(Chars) PROVE Bytes(t) \in Seq(ByteSet)
    BY BytesAre, RowsType, FlattenType
<1>2. ASSUME NEW a \in Seq(Chars), NEW b \in Seq(Chars) PROVE Bytes(a \o b) = Bytes(a) \o Bytes(b)
    BY BytesAre, RowsType, RowsConcat, FlattenConcat
<1>3. ASSUME NEW a \in Seq(ByteSet), NEW b \in Seq(ByteSet)
      PROVE  Decoded(a \o b) = Decoded(a) \o Decoded(b)
    BY BytesAre, PiecesType, PiecesConcat, FlattenConcat
<1> QED BY <1>1, <1>2, <1>3

\* The bytes of one character are decoded as it.
LEMMA OneCharacter ==
    ASSUME NEW c \in Chars
    PROVE  Decoded(CharBytes(c)) = <<c>>
<1> DEFINE w == Utf8[c]
           last(k) == IF k = w THEN <<c>> ELSE <<>>
           row(m) == [k \in 1..m |-> last(k)]
           K == {m \in Nat : m < w => FlattenSeq(row(m)) = <<>>}
<1>1. w \in Nat \ {0}
    BY TextAssumption
<1>2. \A k \in Nat : last(k) \in Seq(Chars)
    OBVIOUS
<1>3. ASSUME NEW m \in Nat PROVE row(m) \in Seq(Seq(Chars)) /\ Len(row(m)) = m
    <2>1. row(m) \in [1..m -> Seq(Chars)]
        BY <1>2
    <2> HIDE DEF row
    <2> QED BY <2>1, FunctionIsSeq
<1>4. ASSUME NEW m \in Nat
      PROVE  FlattenSeq(row(m + 1)) = FlattenSeq(row(m)) \o last(m + 1)
    <2> DEFINE p == row(m)
               q == row(m + 1)
               x == last(m + 1)
    <2>7. p \in Seq(Seq(Chars)) /\ Len(p) = m /\ x \in Seq(Chars)
        BY <1>2, <1>3
    <2>2. \A i \in 1..m : q[i] = p[i]
        OBVIOUS
    <2>3. q[m + 1] = x
        OBVIOUS
    <2>4. q \in Seq(Seq(Chars)) /\ Len(q) = m + 1
        BY <1>3
    <2> HIDE DEF p, q, x
    <2>1. /\ Append(p, x) \in Seq(Seq(Chars)) /\ Len(Append(p, x)) = m + 1
          /\ Append(p, x)[m + 1] = x /\ \A i \in 1..m : Append(p, x)[i] = p[i]
        BY <2>7, AppendProperties
    <2>5. \A i \in 1..(m + 1) : q[i] = Append(p, x)[i]
        BY <2>1, <2>2, <2>3
    <2>6. q = Append(p, x)
        BY <2>1, <2>4, <2>5, SameSeq
    <2>8. FlattenSeq(q) = FlattenSeq(p) \o x
        BY <2>6, <2>7, FlattenAppend
    <2> QED BY <2>8 DEF p, q, x
<1>5. 0 \in K
    <2>1. row(0) = <<>>
        OBVIOUS
    <2> HIDE DEF row
    <2> QED BY <2>1, FlattenNone
<1>6. ASSUME NEW m \in Nat, m \in K PROVE m + 1 \in K
    <2>1. SUFFICES ASSUME m + 1 < w PROVE FlattenSeq(row(m + 1)) = <<>>
        OBVIOUS
    <2>2. last(m + 1) = <<>> /\ FlattenSeq(row(m)) = <<>>
        BY <1>1, <1>6, <2>1
    <2> HIDE DEF row, last
    <2> QED BY <1>4, <2>2
<1>7. Nat \subseteq K
    <2> HIDE DEF K
    <2> QED BY <1>5, <1>6, SetInduction
<1>8. FlattenSeq(row(w - 1)) = <<>> /\ w - 1 \in Nat /\ (w - 1) + 1 = w /\ last(w) = <<c>>
    BY <1>1, <1>7
<1>9. Pieces(CharBytes(c)) = row(w)
    <2>1. DOMAIN CharBytes(c) = 1..w /\ \A k \in 1..w : CharBytes(c)[k] = [char |-> c, byte |-> k]
        BY DEF CharBytes
    <2>2. \A k \in 1..w : Piece([char |-> c, byte |-> k]) = last(k)
        BY DEF Piece
    <2> HIDE DEF last, w
    <2> QED BY <2>1, <2>2 DEF Pieces
<1> HIDE DEF row, last, w
<1>10. FlattenSeq(row(w)) = <<>> \o <<c>>
    BY <1>4, <1>8
<1> QED BY <1>9, <1>10, BytesAre

LEMMA RowOfOne == \A c \in Chars : Bytes(<<c>>) = CharBytes(c)
<1>1. ASSUME NEW c \in Chars PROVE Bytes(<<c>>) = CharBytes(c)
    <2>1. ByteRows(<<c>>) = <<CharBytes(c)>>
        BY DEF ByteRows
    <2>2. /\ <<>> \in Seq(Seq(ByteSet)) /\ CharBytes(c) \in Seq(ByteSet)
          /\ <<CharBytes(c)>> = Append(<<>>, CharBytes(c))
        BY CharBytesType
    <2>3. FlattenSeq(Append(<<>>, CharBytes(c))) = FlattenSeq(<<>>) \o CharBytes(c)
        BY <2>2, FlattenAppend
    <2>4. <<>> \o CharBytes(c) = CharBytes(c)
        BY CharBytesType, ConcatEmptySeq
    <2> QED BY <2>1, <2>2, <2>3, <2>4, FlattenNone, BytesAre
<1> QED BY <1>1

\* What is decoded of the bytes of a text is the text, and there are as many as it is wide.
LEMMA BytesReadBack ==
    ASSUME NEW t \in Seq(Chars)
    PROVE  Decoded(Bytes(t)) = t /\ Len(Bytes(t)) = U8(t, Len(t))
<1> DEFINE X == {u \in Seq(Chars) : Decoded(Bytes(u)) = u /\ Len(Bytes(u)) = U8(u, Len(u))}
<1>1. <<>> \in X
    <2>1. ByteRows(<<>>) = <<>> /\ Pieces(<<>>) = <<>> /\ <<>> \in Seq(Chars) /\ Len(<<>>) = 0
        BY DEF ByteRows, Pieces
    <2>2. Bytes(<<>>) = <<>> /\ Decoded(<<>>) = <<>>
        BY <2>1, BytesAre, FlattenNone
    <2>3. U8(<<>>, 0) = 0
        BY <2>1, Sizes, WidthGrows
    <2> QED BY <2>1, <2>2, <2>3
<1>2. ASSUME NEW u \in Seq(Chars), NEW c \in Chars, u \in X PROVE Append(u, c) \in X
    <2> DEFINE v == Append(u, c)
               n == Len(u)
    <2>1. /\ v \in Seq(Chars) /\ v = u \o <<c>> /\ Len(v) = n + 1 /\ v[n + 1] = c /\ n \in Nat
          /\ \A i \in 1..n : u[i] = v[i]
        BY AppendProperties
    <2>2. <<c>> \in Seq(Chars) /\ Bytes(<<c>>) = CharBytes(c) /\ Bytes(u) \in Seq(ByteSet)
        BY RowOfOne, BytesConcat
    <2>3. /\ CharBytes(c) \in Seq(ByteSet) /\ Len(CharBytes(c)) = Utf8[c]
          /\ Decoded(CharBytes(c)) = <<c>>
        BY CharBytesType, OneCharacter
    <2> HIDE DEF v
    <2>4. Bytes(v) = Bytes(u) \o CharBytes(c)
        BY <2>1, <2>2, BytesConcat
    <2>5. Decoded(Bytes(v)) = v
        <3>1. Decoded(Bytes(v)) = Decoded(Bytes(u)) \o <<c>>
            BY <2>2, <2>3, <2>4, BytesConcat
        <3>2. Decoded(Bytes(u)) = u
            BY <1>2
        <3> QED BY <2>1, <3>1, <3>2
    <2>6. Len(Bytes(v)) = Len(Bytes(u)) + Utf8[c]
        BY <2>2, <2>3, <2>4, ConcatProperties
    <2>10. n <= Len(u) /\ n <= Len(v)
        BY <2>1
    <2>7. Width(Utf8, u, n) = Width(Utf8, v, n)
        BY <2>1, <2>10, Sizes, WidthOfBeginning
    <2>8. Width(Utf8, v, n + 1) = Width(Utf8, v, n) + Utf8[c]
        <3>1. n \in 0..(Len(v) - 1)
            BY <2>1
        <3> QED BY <2>1, <3>1, Sizes, WidthGrows
    <2>9. Len(Bytes(u)) = U8(u, n)
        BY <1>2
    <2> QED BY <2>1, <2>5, <2>6, <2>7, <2>8, <2>9, Sizes DEF v
<1>3. Seq(Chars) \subseteq X
    <2> HIDE DEF X
    <2> QED BY <1>1, <1>2, AppendInduction
<1> QED BY <1>3

LEMMA MiddleOfThree ==
    ASSUME NEW S, NEW x \in Seq(S), NEW y \in Seq(S), NEW z \in Seq(S)
    PROVE  SubSeq((x \o y) \o z, Len(x) + 1, Len(x \o y)) = y
<1> DEFINE m == Len(x)
           n == Len(x \o y)
           all == (x \o y) \o z
<1>1. /\ x \o y \in Seq(S) /\ n = m + Len(y) /\ m \in Nat /\ Len(y) \in Nat /\ n \in Nat
      /\ \A i \in 1..n : (x \o y)[i] = IF i <= m THEN x[i] ELSE y[i - m]
    BY ConcatProperties
<1>2. all \in Seq(S) /\ Len(all) = n + Len(z) /\ Len(z) \in Nat
      /\ \A i \in 1..n : all[i] = (x \o y)[i]
    <2> DEFINE xy == x \o y
    <2>1. xy \in Seq(S) /\ Len(xy) = n
        BY <1>1
    <2> HIDE DEF xy, n
    <2>3. \A a, b \in Seq(S) :
            /\ a \o b \in Seq(S) /\ Len(a \o b) = Len(a) + Len(b) /\ Len(b) \in Nat
            /\ \A i \in 1..Len(a) : (a \o b)[i] = a[i]
        BY ConcatProperties
    <2>2. /\ xy \o z \in Seq(S) /\ Len(xy \o z) = n + Len(z) /\ Len(z) \in Nat
          /\ \A i \in 1..n : (xy \o z)[i] = xy[i]
        BY <2>1, <2>3
    <2> QED BY <1>1, <2>2 DEF xy
<1> DEFINE middle == SubSeq(all, m + 1, n)
<1> HIDE DEF all, n
<1>3. /\ middle \in Seq(S) /\ Len(middle) = Len(y)
      /\ \A i \in 1..Len(y) : middle[i] = all[m + i]
    <2>1. \A i \in (m + 1)..n : all[i] \in S
        BY <1>1, <1>2
    <2> QED BY <1>1, <2>1, SubSeqProperties
<1>4. ASSUME NEW i \in 1..Len(y) PROVE middle[i] = y[i]
    <2>1. m + i \in 1..n /\ ~(m + i <= m) /\ (m + i) - m = i
        BY <1>1
    <2> QED BY <1>1, <1>2, <1>3, <2>1
<1> HIDE DEF middle
<1>5. middle = y
    BY <1>3, <1>4, SameSeq
<1> QED BY <1>5 DEF middle, all, n

\* Cut in two at n.
LEMMA CutInTwo ==
    ASSUME NEW S, NEW t \in Seq(S), NEW n \in 0..Len(t)
    PROVE  /\ SubSeq(t, 1, n) \in Seq(S) /\ Len(SubSeq(t, 1, n)) = n
           /\ \A i \in 1..n : SubSeq(t, 1, n)[i] = t[i]
           /\ SubSeq(t, n + 1, Len(t)) \in Seq(S)
           /\ t = SubSeq(t, 1, n) \o SubSeq(t, n + 1, Len(t))
<1> DEFINE a == SubSeq(t, 1, n)
           b == SubSeq(t, n + 1, Len(t))
<1>1. a \in Seq(S) /\ Len(a) = n /\ \A i \in 1..n : a[i] = t[i]
    <2>1. \A i \in 1..n : t[i] \in S
        OBVIOUS
    <2> QED BY <2>1, SubSeqProperties
<1>2. b \in Seq(S) /\ Len(b) = Len(t) - n /\ \A i \in 1..(Len(t) - n) : b[i] = t[n + i]
    <2>1. \A i \in (n + 1)..Len(t) : t[i] \in S
        OBVIOUS
    <2> QED BY <2>1, SubSeqProperties
<1> HIDE DEF a, b
<1>3. /\ a \o b \in Seq(S) /\ Len(a \o b) = Len(t)
      /\ \A i \in 1..Len(t) : (a \o b)[i] = IF i <= n THEN a[i] ELSE b[i - n]
    BY <1>1, <1>2, ConcatProperties
<1>4. ASSUME NEW i \in 1..Len(t) PROVE t[i] = (a \o b)[i]
    <2>1. CASE i <= n
        BY <1>1, <1>3, <2>1
    <2>2. CASE ~(i <= n)
        <3>1. i - n \in 1..(Len(t) - n) /\ n + (i - n) = i
            BY <2>2
        <3> QED BY <1>2, <1>3, <2>2, <3>1
    <2> QED BY <2>1, <2>2
<1>5. t = a \o b
    BY <1>3, <1>4, SameSeq
<1> QED BY <1>1, <1>2, <1>5 DEF a, b

\* The bytes from one boundary to another decode to the characters between the two.
LEMMA BetweenBoundaries ==
    ASSUME NEW t \in Seq(Chars), NEW m \in 0..Len(t), NEW n \in 0..m
    PROVE  LET d == Decoded(SubSeq(Bytes(t), U8(t, n) + 1, U8(t, m)))
           IN  d \in Seq(Chars) /\ SubSeq(t, 1, n) \o d = SubSeq(t, 1, m)
<1> DEFINE a == SubSeq(t, 1, n)
           c == SubSeq(t, 1, m)
           d == SubSeq(c, n + 1, m)
           rest == SubSeq(t, m + 1, Len(t))
<1>1. /\ c \in Seq(Chars) /\ Len(c) = m /\ \A i \in 1..m : c[i] = t[i]
      /\ rest \in Seq(Chars) /\ t = c \o rest
    BY CutInTwo
<1>2. n \in 0..Len(t)
    OBVIOUS
<1>3. a \in Seq(Chars) /\ Len(a) = n /\ \A i \in 1..n : a[i] = t[i]
    BY <1>2, CutInTwo
<1> HIDE DEF c, rest
<1>4. d \in Seq(Chars) /\ c = SubSeq(c, 1, n) \o d /\ Len(SubSeq(c, 1, n)) = n
      /\ SubSeq(c, 1, n) \in Seq(Chars) /\ \A i \in 1..n : SubSeq(c, 1, n)[i] = c[i]
    <2>1. n \in 0..Len(c)
        BY <1>1
    <2> QED BY <1>1, <2>1, CutInTwo
<1>5. SubSeq(c, 1, n) = a
    <2>1. \A i \in 1..n : SubSeq(c, 1, n)[i] = a[i]
        BY <1>1, <1>3, <1>4
    <2> HIDE DEF a
    <2> QED BY <1>3, <1>4, <2>1, SameSeq
<1> HIDE DEF a, d
<1>6. Len(Bytes(a)) = U8(t, n) /\ Len(Bytes(c)) = U8(t, m)
    <2>1. Width(Utf8, a, n) = Width(Utf8, t, n)
        BY <1>2, <1>3, Sizes, WidthOfBeginning
    <2>4. m \in Nat /\ m <= Len(t) /\ m <= Len(c)
        BY <1>1
    <2>2. Width(Utf8, c, m) = Width(Utf8, t, m)
        BY <1>1, <2>4, Sizes, WidthOfBeginning
    <2>3. Len(Bytes(a)) = U8(a, n) /\ Len(Bytes(c)) = U8(c, m)
        BY <1>1, <1>3, BytesReadBack
    <2> QED BY <2>1, <2>2, <2>3, Sizes
<1>7. Bytes(t) = Bytes(c) \o Bytes(rest) /\ Bytes(c) = Bytes(a) \o Bytes(d)
    BY <1>1, <1>3, <1>4, <1>5, BytesConcat
<1>8. /\ Bytes(a) \in Seq(ByteSet) /\ Bytes(d) \in Seq(ByteSet) /\ Bytes(rest) \in Seq(ByteSet)
      /\ Bytes(c) \in Seq(ByteSet)
    BY <1>1, <1>3, <1>4, BytesConcat
<1>9. SubSeq(Bytes(t), U8(t, n) + 1, U8(t, m)) = Bytes(d)
    BY <1>6, <1>7, <1>8, MiddleOfThree
<1>10. Decoded(Bytes(d)) = d
    BY <1>4, BytesReadBack
<1> QED BY <1>4, <1>5, <1>9, <1>10 DEF a, c

\* The next chunk ends at a later boundary.
LEMMA CutAtBoundary ==
    ASSUME NEW t \in Seq(Chars), NEW n \in 0..Len(t), n < Len(t), NEW size \in Nat
    PROVE  \E m \in (n + 1)..Len(t) : Cut(t, U8(t, n), size) = U8(t, m)
<1> DEFINE offset == U8(t, n)
           after == {b \in Boundaries(t) : b > offset}
           fits == {b \in after : b <= offset + size}
<1>1. offset \in Nat /\ Boundaries(t) \subseteq Nat
    BY OffsetsType DEF Boundaries
<1>2. Len(t) \in 0..Len(t) /\ U8(t, Len(t)) \in after
    <2>1. Len(t) \in 0..Len(t)
        OBVIOUS
    <2>2. U8(t, Len(t)) > U8(t, n)
        BY <2>1, OffsetsDiffer, OffsetsType
    <2> QED BY <2>1, <2>2 DEF Boundaries
<1>3. \A b \in after : \E m \in (n + 1)..Len(t) : b = U8(t, m)
    <2>1. ASSUME NEW b \in after PROVE \E m \in (n + 1)..Len(t) : b = U8(t, m)
        <3>1. PICK m \in 0..Len(t) : b = U8(t, m)
            BY DEF Boundaries
        <3>2. n < m
            BY <3>1, OffsetsDiffer, OffsetsType
        <3>3. m \in (n + 1)..Len(t)
            BY <3>2
        <3> QED BY <3>1, <3>3
    <2> QED BY <2>1
<1>4. Cut(t, offset, size) = IF fits = {} THEN Min(after) ELSE Max(fits)
    BY DEF Cut
<1>5. Min(after) \in after
    <2>1. after \subseteq Nat /\ after # {}
        BY <1>1, <1>2
    <2> HIDE DEF after
    <2>2. \E b \in after : \A c \in after : b <= c
        BY <2>1, LeastNatural
    <2> QED BY <2>2 DEF Min
<1>6. CASE fits # {}
    <2> DEFINE room == {x \in Nat : x <= offset + size /\ offset + size - x \in fits}
    <2>1. fits \subseteq Nat /\ \A b \in fits : b <= offset + size
        BY <1>1
    <2> HIDE DEF fits
    <2>2. \A b \in fits : offset + size - b \in room
        <3>1. ASSUME NEW b \in fits PROVE offset + size - b \in room
            <4>1. b \in Nat /\ b <= offset + size /\ offset + size \in Nat
                BY <1>1, <2>1
            <4> HIDE DEF offset
            <4>2. offset + size - (offset + size - b) = b
                BY <1>1, <4>1
            <4> QED BY <1>1, <4>1, <4>2
        <3> QED BY <3>1
    <2>3. PICK x \in room : \A y \in room : x <= y
        <3>1. room \subseteq Nat /\ room # {}
            BY <1>6, <2>2
        <3> HIDE DEF room
        <3> QED BY <3>1, LeastNatural
    <2> DEFINE top == offset + size - x
    <2>4. top \in fits
        BY <2>3
    <2>5. \A b \in fits : top >= b
        <3>1. ASSUME NEW b \in fits PROVE top >= b
            <4>1. x <= offset + size - b /\ x \in Nat /\ b \in Nat
                BY <2>1, <2>2, <2>3
            <4> HIDE DEF offset
            <4> QED BY <1>1, <4>1
        <3> QED BY <3>1
    <2> HIDE DEF top
    <2>6. Max(fits) \in fits
        BY <2>4, <2>5 DEF Max
    <2>7. Cut(t, offset, size) \in fits
        BY <1>4, <1>6, <2>6
    <2>8. fits \subseteq after
        BY DEF fits
    <2> QED BY <1>3, <2>7, <2>8
<1>7. CASE fits = {}
    BY <1>3, <1>4, <1>5, <1>7
<1> QED BY <1>6, <1>7

-----------------------------------------------------------------------------
(* The invariant                                                           *)

TextInv ==
    /\ TextTypeOK /\ batches \in Seq(Batches) /\ TextExact
    /\ sent # Complete => marked = Marked(remoteFile)

\* A text that begins another is cut off it.
LEMMA Begins ==
    ASSUME NEW t \in Seq(Chars), NEW f \in Seq(Chars)
    PROVE  /\ IsPrefix(t, f) => Len(t) \in 0..Len(f) /\ t = SubSeq(f, 1, Len(t))
           /\ \A n \in 0..Len(f) : t = SubSeq(f, 1, n) => IsPrefix(t, f) /\ Len(t) = n
<1>1. SubSeq(t, 1, Len(t)) = t
    BY SubSeqFull
<1>2. Len(t) \in Nat /\ Len(f) \in Nat
    OBVIOUS
<1>3. ASSUME NEW n \in 0..Len(f), t = SubSeq(f, 1, n) PROVE IsPrefix(t, f) /\ Len(t) = n
    <2>1. Len(SubSeq(f, 1, n)) = n
        BY CutInTwo
    <2>2. Len(t) = n /\ n <= Len(f)
        BY <1>3, <2>1
    <2> QED BY <1>1, <1>3, <2>2 DEF IsPrefix
<1>4. IsPrefix(t, f) => Len(t) \in 0..Len(f) /\ t = SubSeq(f, 1, Len(t))
    BY <1>1, <1>2 DEF IsPrefix
<1> QED BY <1>3, <1>4

LEMMA SizeOfBeginning ==
    ASSUME NEW f \in Seq(Chars), NEW n \in 0..Len(f)
    PROVE  U8(SubSeq(f, 1, n), n) = U8(f, n)
<1> DEFINE t == SubSeq(f, 1, n)
<1>1. t \in Seq(Chars) /\ Len(t) = n /\ \A i \in 1..n : t[i] = f[i]
    BY CutInTwo
<1>2. n \in Nat /\ n <= Len(t) /\ n <= Len(f)
    BY <1>1
<1> HIDE DEF t
<1>3. Width(Utf8, t, n) = Width(Utf8, f, n)
    BY <1>1, <1>2, Sizes, WidthOfBeginning
<1> QED BY <1>3, Sizes DEF t

\* A text without the mark it began with is a text, and the mark before it makes it whole.
LEMMA MarkTaken ==
    ASSUME NEW t \in Seq(Chars)
    PROVE  /\ WithoutMark(t) \in Seq(Chars)
           /\ Marked(t) => Mark \in Chars /\ <<Mark>> \o WithoutMark(t) = t
           /\ ~Marked(t) => WithoutMark(t) = t
<1>1. CASE ~Marked(t)
    BY <1>1 DEF WithoutMark
<1>2. CASE Marked(t)
    <2> DEFINE rest == Tail(t)
    <2>1. /\ t # <<>> /\ t[1] = Mark /\ Len(t) \in Nat \ {0} /\ 1 \in 1..Len(t)
        BY <1>2, EmptySeq DEF Marked
    <2>2. Mark \in Chars
        BY <2>1
    <2>3. rest \in Seq(Chars) /\ Len(rest) = Len(t) - 1 /\ \A i \in 1..Len(rest) : rest[i] = t[i + 1]
        BY <2>1
    <2> HIDE DEF rest
    <2>4. <<Mark>> \in Seq(Chars) /\ Len(<<Mark>>) = 1 /\ <<Mark>>[1] = Mark
        BY <2>2
    <2> DEFINE one == <<Mark>>
               whole == one \o rest
    <2>8. one \in Seq(Chars) /\ Len(one) = 1 /\ one[1] = Mark
        BY <2>4
    <2> HIDE DEF one
    <2>9. /\ whole \in Seq(Chars) /\ Len(whole) = Len(one) + Len(rest)
          /\ \A i \in 1..(Len(one) + Len(rest)) :
                 whole[i] = IF i <= Len(one) THEN one[i] ELSE rest[i - Len(one)]
        <3>1. \A a, b \in Seq(Chars) :
                /\ a \o b \in Seq(Chars) /\ Len(a \o b) = Len(a) + Len(b)
                /\ \A i \in 1..(Len(a) + Len(b)) :
                       (a \o b)[i] = IF i <= Len(a) THEN a[i] ELSE b[i - Len(a)]
            BY ConcatProperties
        <3> QED BY <2>3, <2>8, <3>1, Zenon
    <2>5. /\ whole \in Seq(Chars) /\ Len(whole) = Len(t)
          /\ \A i \in 1..Len(whole) : whole[i] = IF i <= 1 THEN one[i] ELSE rest[i - 1]
        <3> HIDE DEF whole
        <3> QED BY <2>1, <2>3, <2>8, <2>9
    <2> HIDE DEF whole
    <2>6. \A i \in 1..Len(t) : whole[i] = t[i]
        BY <2>1, <2>3, <2>5, <2>8
    <2>7. whole = t
        BY <2>5, <2>6, SameSeq
    <2> QED BY <1>2, <2>2, <2>3, <2>7 DEF WithoutMark, rest, whole, one
<1> QED BY <1>1, <1>2

\* What has arrived is the beginning of the file, as many bytes as were sent.
LEMMA ArrivedSoFar ==
    ASSUME TextInv, sent # Complete
    PROVE  /\ Arrived \in Seq(Chars) /\ Len(Arrived) \in 0..Len(remoteFile)
           /\ Arrived = SubSeq(remoteFile, 1, Len(Arrived))
           /\ sent = U8(remoteFile, Len(Arrived))
           /\ marked = Marked(remoteFile) /\ (marked => Mark \in Chars)
<1>1. remoteFile \in Seq(Chars) /\ text \in Seq(Chars) /\ marked = Marked(remoteFile)
    BY DEF TextInv, TextTypeOK
<1>2. marked => Mark \in Chars
    BY <1>1, MarkTaken
<1>3. Arrived \in Seq(Chars)
    <2>1. marked => <<Mark>> \in Seq(Chars)
        BY <1>2
    <2> QED BY <1>1, <2>1, ConcatProperties DEF Arrived
<1>4. IsPrefix(Arrived, remoteFile) /\ U8(Arrived, Len(Arrived)) = sent
    BY DEF TextInv, TextExact
<1>5. Len(Arrived) \in 0..Len(remoteFile) /\ Arrived = SubSeq(remoteFile, 1, Len(Arrived))
    BY <1>1, <1>3, <1>4, Begins
<1>6. sent = U8(remoteFile, Len(Arrived))
    BY <1>1, <1>4, <1>5, SizeOfBeginning
<1> QED BY <1>1, <1>2, <1>3, <1>5, <1>6

\* The first chunk, of which a mark is left out.
LEMMA FirstArrives ==
    ASSUME NEW f \in Seq(Chars), NEW m \in 1..Len(f)
    PROVE  LET new == WithoutMark(SubSeq(f, 1, m))
           IN  /\ new \in Seq(Chars)
               /\ (IF Marked(f) THEN <<Mark>> \o new ELSE new) = SubSeq(f, 1, m)
<1> DEFINE d == SubSeq(f, 1, m)
<1>1. m \in 0..Len(f) /\ 1 \in 1..m
    OBVIOUS
<1>2. d \in Seq(Chars) /\ Len(d) = m /\ \A i \in 1..m : d[i] = f[i]
    BY <1>1, CutInTwo
<1> HIDE DEF d
<1>3. Marked(d) <=> Marked(f)
    BY <1>1, <1>2, EmptySeq DEF Marked
<1> QED BY <1>2, <1>3, MarkTaken DEF d

\* One of the others.
LEMMA LaterArrives ==
    ASSUME NEW t \in Seq(Chars), NEW d \in Seq(Chars), NEW b \in BOOLEAN, b => Mark \in Chars
    PROVE  /\ t \o d \in Seq(Chars)
           /\ (IF b THEN <<Mark>> \o (t \o d) ELSE t \o d) = (IF b THEN <<Mark>> \o t ELSE t) \o d
<1>1. t \o d \in Seq(Chars)
    BY ConcatProperties
<1>2. CASE b
    <2>1. <<Mark>> \in Seq(Chars)
        BY <1>2
    <2>2. (<<Mark>> \o t) \o d = <<Mark>> \o (t \o d)
        BY <2>1, ConcatAssociative
    <2> QED BY <1>1, <1>2, <2>2
<1>3. CASE ~b
    BY <1>1, <1>3
<1> QED BY <1>2, <1>3

\* Of the first n characters of the file and the chunk after them, the first m.
LEMMA ChunkKeeps == ASSUME TextInv, Chunk PROVE TextInv'
<1> DEFINE n == Len(Arrived)
           size == IF sent = 0 THEN InitialBytes ELSE ChunkBytes
<1>1. remoteFile \in Seq(Chars) /\ text \in Seq(Chars) /\ base \in Seq(Chars) /\ marked \in BOOLEAN
    BY DEF TextInv, TextTypeOK
<1>2. sent \in Nat /\ sent < U8(remoteFile, Len(remoteFile)) /\ sent # Complete
    <2>1. U8(remoteFile, Len(remoteFile)) \in Nat
        <3>1. Len(remoteFile) \in 0..Len(remoteFile)
            BY <1>1
        <3> QED BY <1>1, <3>1, OffsetsType
    <2> QED BY <2>1 DEF Chunk, Complete
<1>3. /\ Arrived = SubSeq(remoteFile, 1, n) /\ n \in 0..Len(remoteFile)
      /\ sent = U8(remoteFile, n) /\ marked = Marked(remoteFile) /\ (marked => Mark \in Chars)
    BY <1>2, ArrivedSoFar
<1>6. n < Len(remoteFile)
    <2>1. n # Len(remoteFile)
        BY <1>2, <1>3
    <2> QED BY <1>1, <1>3, <2>1
<1>7. size \in Nat
    BY TextAssumption
<1> HIDE DEF size, n
<1>8. PICK m \in (n + 1)..Len(remoteFile) : Cut(remoteFile, sent, size) = U8(remoteFile, m)
    BY <1>1, <1>3, <1>6, <1>7, CutAtBoundary
<1>9. m \in 0..Len(remoteFile) /\ n \in 0..m /\ m \in 1..Len(remoteFile)
    BY <1>1, <1>3
<1> DEFINE d == Decoded(SubSeq(Bytes(remoteFile), U8(remoteFile, n) + 1, U8(remoteFile, m)))
<1>10. /\ sent' = U8(remoteFile, m)
       /\ text' = text \o IF sent = 0 THEN WithoutMark(d) ELSE d
       /\ remoteFile' = remoteFile /\ base' = base /\ batches' = batches /\ marked' = marked
    BY <1>3, <1>8 DEF Chunk, size
<1>11. d \in Seq(Chars) /\ Arrived \o d = SubSeq(remoteFile, 1, m)
    BY <1>1, <1>3, <1>9, BetweenBoundaries
<1> HIDE DEF d
<1>12. sent = 0 => text = <<>> /\ d = SubSeq(remoteFile, 1, m)
    <2>1. SUFFICES ASSUME sent = 0 PROVE text = <<>> /\ d = SubSeq(remoteFile, 1, m)
        OBVIOUS
    <2>2. U8(remoteFile, 0) = 0 /\ 0 \in 0..Len(remoteFile)
        BY <1>1, Sizes, WidthGrows
    <2>3. n = 0
        BY <1>1, <1>3, <2>1, <2>2, OffsetsDiffer
    <2>4. Arrived = <<>>
        BY <1>3, <2>3, SubSeqEmpty
    <2>5. text = <<>>
        BY <2>1, <2>4 DEF Arrived
    <2> QED BY <1>11, <2>4, <2>5, ConcatEmptySeq
<1>13. sent # 0 => (IF Marked(remoteFile) THEN <<Mark>> \o text ELSE text) \o d = SubSeq(remoteFile, 1, m)
    BY <1>3, <1>11 DEF Arrived
<1>14. /\ text' \in Seq(Chars)
       /\ (IF Marked(remoteFile) THEN <<Mark>> \o text' ELSE text') = SubSeq(remoteFile, 1, m)
    <2>1. CASE sent = 0
        <3>1. text' = WithoutMark(SubSeq(remoteFile, 1, m))
            <4>1. WithoutMark(d) \in Seq(Chars)
                BY <1>11, MarkTaken
            <4> QED BY <1>10, <1>12, <2>1, <4>1, ConcatEmptySeq
        <3> QED BY <1>1, <1>9, <3>1, FirstArrives
    <2>2. CASE sent # 0
        <3>1. text' = text \o d
            BY <1>10, <2>2
        <3> DEFINE b == Marked(remoteFile)
        <3>2. b \in BOOLEAN /\ (b => Mark \in Chars)
            BY <1>1, <1>3
        <3>3. (IF b THEN <<Mark>> \o text ELSE text) \o d = SubSeq(remoteFile, 1, m)
            BY <1>13, <2>2
        <3> HIDE DEF b
        <3>4. /\ text \o d \in Seq(Chars)
              /\ (IF b THEN <<Mark>> \o (text \o d) ELSE text \o d) = SubSeq(remoteFile, 1, m)
            BY <1>1, <1>11, <3>2, <3>3, LaterArrives
        <3> QED BY <3>1, <3>4 DEF b
    <2> QED BY <2>1, <2>2
<1>15. sent' \in Boundaries(remoteFile) /\ sent' # Complete /\ sent' # 0
    <2>1. U8(remoteFile, m) \in Nat /\ U8(remoteFile, n) \in Nat
        BY <1>1, <1>3, <1>9, OffsetsType
    <2>2. U8(remoteFile, n) < U8(remoteFile, m)
        BY <1>1, <1>3, <1>9, OffsetsDiffer
    <2> QED BY <1>9, <1>10, <2>1, <2>2 DEF Boundaries, Complete
<1>16. Arrived' = SubSeq(remoteFile, 1, m)
    BY <1>3, <1>10, <1>14, <1>15 DEF Arrived
<1>17. Arrived' \in Seq(Chars) /\ IsPrefix(Arrived', remoteFile) /\ Len(Arrived') = m
    <2> DEFINE a == SubSeq(remoteFile, 1, m)
    <2>1. a \in Seq(Chars)
        BY <1>1, <1>9, CutInTwo
    <2>2. IsPrefix(a, remoteFile) /\ Len(a) = m
        BY <1>1, <1>9, <2>1, Begins
    <2> QED BY <1>16, <2>1, <2>2
<1>18. U8(Arrived', m) = sent'
    BY <1>1, <1>9, <1>10, <1>16, SizeOfBeginning
<1>19. TextTypeOK'
    BY <1>1, <1>10, <1>14, <1>15 DEF TextTypeOK
<1>20. TextExact'
    <2>1. (TextExact)' <=> (IF sent' # Complete
                            THEN U8(Arrived', Len(Arrived')) = sent' /\ IsPrefix(Arrived', remoteFile')
                            ELSE (base' = remoteFile' \/ marked')
                                 /\ ApplyBatches(base', batches') = text'
                                 /\ Operate(base', batches') = text')
        BY DEF TextExact
    <2> QED BY <1>10, <1>15, <1>17, <1>18, <2>1
<1>21. batches' \in Seq(Batches)
    BY <1>10 DEF TextInv
<1>22. marked' = Marked(remoteFile')
    BY <1>3, <1>10
<1> QED BY <1>19, <1>20, <1>21, <1>22 DEF TextInv

\* What either program makes of the batches.
LEMMA BothPrograms ==
    ASSUME NEW t, NEW bs
    PROVE  /\ ApplyBatches(t, bs) = IF Ordered(bs) THEN Steps("apply", t, Changes(bs)) ELSE Refused
           /\ Operate(t, bs) = IF Ordered(bs) THEN Steps("operate", t, Changes(bs)) ELSE Refused
BY DEF ApplyBatches, Operate, Steps

\* Nothing was edited since the file and the tab agree.
LEMMA NothingEdited ==
    ASSUME NEW t PROVE ApplyBatches(t, <<>>) = t /\ Operate(t, <<>>) = t
<1>1. Changes(<<>>) = <<>> /\ Ordered(<<>>)
    <2>1. [i \in DOMAIN <<>> |-> (<<>>)[i].changes] = <<>>
        OBVIOUS
    <2> QED BY <2>1, FlattenNone DEF Changes, Ordered
<1>2. Steps("apply", t, <<>>) = t /\ Steps("operate", t, <<>>) = t
    BY NoSteps DEF Programs
<1> QED BY <1>1, <1>2, BothPrograms

LEMMA LoadedKeeps == ASSUME TextInv, FinishLoading PROVE TextInv'
<1>1. remoteFile \in Seq(Chars) /\ text \in Seq(Chars) /\ marked \in BOOLEAN
    BY DEF TextInv, TextTypeOK
<1>2. sent = U8(remoteFile, Len(remoteFile)) /\ Len(remoteFile) \in 0..Len(remoteFile)
    BY <1>1 DEF FinishLoading
<1>3. sent # Complete
    <2>1. U8(remoteFile, Len(remoteFile)) \in Nat
        BY <1>1, <1>2, OffsetsType
    <2> QED BY <1>2, <2>1 DEF Complete
<1>4. /\ Len(Arrived) \in 0..Len(remoteFile) /\ Arrived = SubSeq(remoteFile, 1, Len(Arrived))
      /\ sent = U8(remoteFile, Len(Arrived))
    BY <1>3, ArrivedSoFar
<1>5. Len(Arrived) = Len(remoteFile)
    BY <1>1, <1>2, <1>4, OffsetsDiffer
<1>6. Arrived = remoteFile
    BY <1>1, <1>4, <1>5, SubSeqFull
<1>7. text = remoteFile \/ marked
    BY <1>6 DEF Arrived
<1>8. /\ remoteFile' = remoteFile /\ text' = text /\ base' = text /\ batches' = <<>>
      /\ sent' = Complete /\ marked' = marked
    BY DEF FinishLoading
<1>9. batches' \in Seq(Batches)
    BY <1>8
<1>10. TextTypeOK'
    BY <1>1, <1>8 DEF TextTypeOK
<1>11. TextExact'
    BY <1>7, <1>8, NothingEdited DEF TextExact
<1> QED BY <1>8, <1>9, <1>10, <1>11 DEF TextInv

LEMMA OpenKeeps == ASSUME TextInv, NEW f \in Files, OpenText(f) PROVE TextInv'
<1>1. f \in Seq(Chars) /\ <<>> \in Seq(Chars)
    BY TextAssumption
<1>2. /\ remoteFile' = f /\ sent' = 0 /\ text' = <<>> /\ base' = base /\ batches' = batches
      /\ 0 # Complete /\ marked' = Marked(f) /\ Marked(f) \in BOOLEAN
    BY DEF OpenText, Complete, Marked
<1>3. U8(<<>>, 0) = 0 /\ U8(f, 0) = 0 /\ 0 \in 0..Len(f) /\ Len(<<>>) = 0
    <2>1. \A t \in Seq(Chars) : U8(t, 0) = 0
        BY Sizes, WidthGrows
    <2>2. U8(<<>>, 0) = 0 /\ U8(f, 0) = 0
        BY <1>1, <2>1, Zenon
    <2>3. 0 \in 0..Len(f) /\ Len(<<>>) = 0
        BY <1>1
    <2> QED BY <2>2, <2>3
<1>4. 0 \in Boundaries(f)
    BY <1>3 DEF Boundaries
<1>5. IsPrefix(<<>>, f)
    <2>1. SubSeq(f, 1, 0) = <<>>
        BY SubSeqEmpty
    <2> QED BY <1>1, <1>3, <2>1, Begins
<1>6. TextTypeOK'
    BY <1>1, <1>2, <1>4 DEF TextInv, TextTypeOK
<1>7. TextExact'
    BY <1>2, <1>3, <1>5 DEF TextExact, Arrived
<1> QED BY <1>2, <1>6, <1>7 DEF TextInv

\* What a program makes of changes, whatever they name, is a text or refused.
LEMMA PlaceOrNone ==
    ASSUME NEW t \in Seq(Chars), NEW offset
    PROVE  AtOffset(t, offset) \in {Invalid} \cup 0..Len(t)
<1> DEFINE ns == {n \in 0..Len(t) : U16(t, n) = offset}
<1>1. CASE ns = {}
    BY <1>1 DEF AtOffset, The
<1>2. CASE ns # {}
    <2>1. ns \subseteq Nat
        OBVIOUS
    <2> HIDE DEF ns
    <2>2. PICK n \in ns : \A m \in ns : n <= m
        BY <1>2, <2>1, LeastNatural
    <2>3. Min(ns) \in ns
        BY <2>2 DEF Min
    <2>4. The(ns) = Min(ns)
        BY <1>2 DEF The
    <2> QED BY <2>3, <2>4 DEF AtOffset, ns
<1> QED BY <1>1, <1>2

LEMMA AppliedType ==
    ASSUME NEW program \in Programs, NEW t \in Seq(Chars) \cup {Refused}, NEW c \in NamedChanges
    PROVE  Applied(program, t, c) \in Seq(Chars) \cup {Refused}
<1> DEFINE s == AtOffset(t, c.offset)
           e == AtOffset(t, c.offset + c.length)
<1>1. c.text \in Seq(Chars)
    BY DEF NamedChanges, Change
<1>2. ASSUME t # Refused, s # Invalid, e # Invalid
      PROVE  Spliced(t, s, e, c.text) \in Seq(Chars)
    <2>1. t \in Seq(Chars)
        BY <1>2
    <2>2. s \in 0..Len(t) /\ e \in 0..Len(t)
        BY <1>2, <2>1, PlaceOrNone
    <2> HIDE DEF s, e
    <2>3. SubSeq(t, 1, s) \in Seq(Chars) /\ SubSeq(t, e + 1, Len(t)) \in Seq(Chars)
        BY <2>1, <2>2, CutInTwo
    <2> QED BY <1>1, <2>3, ConcatProperties DEF Spliced
<1>3. ApplyChange(t, c) = Refused \/ ApplyChange(t, c) \in Seq(Chars)
    BY <1>2 DEF ApplyChange
<1>4. OperateChange(t, c) = Refused \/ OperateChange(t, c) \in Seq(Chars)
    BY <1>2 DEF OperateChange
<1> QED BY <1>3, <1>4 DEF Applied

LEMMA StepsType ==
    ASSUME NEW program \in Programs, NEW t \in Seq(Chars), NEW cs \in Seq(NamedChanges)
    PROVE  Steps(program, t, cs) \in Seq(Chars) \cup {Refused}
<1> DEFINE X == {ds \in Seq(NamedChanges) : Steps(program, t, ds) \in Seq(Chars) \cup {Refused}}
<1>1. <<>> \in X
    BY NoSteps
<1>2. ASSUME NEW ds \in Seq(NamedChanges), NEW c \in NamedChanges, ds \in X
      PROVE  Append(ds, c) \in X
    <2>1. Append(ds, c) \in Seq(NamedChanges)
        BY AppendProperties
    <2>2. Steps(program, t, Append(ds, c)) = Applied(program, Steps(program, t, ds), c)
        BY OneMoreStep
    <2>3. Steps(program, t, ds) \in Seq(Chars) \cup {Refused}
        BY <1>2
    <2> QED BY <2>1, <2>2, <2>3, AppliedType
<1>3. Seq(NamedChanges) \subseteq X
    <2> HIDE DEF X
    <2> QED BY <1>1, <1>2, AppendInduction
<1> QED BY <1>3

LEMMA ChangesType == ASSUME NEW bs \in Seq(Batches) PROVE Changes(bs) \in Seq(NamedChanges)
<1> DEFINE rows == [i \in DOMAIN bs |-> bs[i].changes]
<1>1. \A x \in Batches : x.changes \in Seq(NamedChanges)
    BY DEF Batches
<1>2. rows \in [1..Len(bs) -> Seq(NamedChanges)]
    BY <1>1
<1> HIDE DEF rows
<1>3. rows \in Seq(Seq(NamedChanges))
    BY <1>2, FunctionIsSeq
<1>4. FlattenSeq(rows) \in Seq(NamedChanges)
    BY <1>3, FlattenType
<1> QED BY <1>4 DEF Changes, rows

\* A save the gateway carries out leaves it with the text the tab has, of a file without
\* a mark.
LEMMA SaveKeeps ==
    ASSUME TextInv, NEW result, Save(result),
           result = ApplyBatches(remoteFile, batches) \/ result = Operate(remoteFile, batches)
    PROVE  TextInv'
<1>1. /\ sent = Complete /\ remoteFile' = result /\ base' = text /\ batches' = <<>>
      /\ sent' = sent /\ text' = text /\ marked' = marked /\ result # Refused
    BY DEF Save
<1>2. /\ text \in Seq(Chars) /\ remoteFile \in Seq(Chars) /\ batches \in Seq(Batches)
      /\ <<>> \in Seq(Batches) /\ marked \in BOOLEAN
    BY DEF TextInv, TextTypeOK
<1>3. result = text \/ marked
    BY <1>1 DEF TextInv, TextExact
<1>4. result \in Seq(Chars)
    <2>1. Changes(batches) \in Seq(NamedChanges)
        BY <1>2, ChangesType
    <2>2. \A program \in Programs :
              Steps(program, remoteFile, Changes(batches)) \in Seq(Chars) \cup {Refused}
        BY <1>2, <2>1, StepsType
    <2> QED BY <1>1, <2>2, BothPrograms DEF Programs
<1>5. TextTypeOK'
    BY <1>1, <1>2, <1>4 DEF TextTypeOK
<1>6. TextExact'
    BY <1>1, <1>3, NothingEdited DEF TextExact
<1> QED BY <1>1, <1>2, <1>5, <1>6 DEF TextInv

LEMMA NameChanges ==
    ASSUME NEW t \in Seq(Chars), NEW s \in Nat, NEW e \in Nat, NEW new \in Seq(Chars)
    PROVE  Change(t, s, e, new) \in NamedChanges
<1>1. <<t, s, e, new>> \in Seq(Chars) \X Nat \X Nat \X Seq(Chars)
    OBVIOUS
<1> QED BY <1>1 DEF NamedChanges

\* A backup restored is one batch that puts the text in the place of all of the file's.
LEMMA RestoreKeeps == ASSUME TextInv, Restore PROVE TextInv'
<1> DEFINE c == Change(base, 0, Len(base), text)
           b == [seq |-> 1, changes |-> <<c>>]
<1>1. /\ base \in Seq(Chars) /\ text \in Seq(Chars) /\ sent = Complete
      /\ batches' = <<b>> /\ remoteFile' = remoteFile /\ sent' = sent /\ text' = text /\ base' = base
      /\ marked' = marked /\ (base = remoteFile \/ marked)
    BY DEF TextInv, TextTypeOK, TextExact, Restore
<1>2. 0 \in 0..Len(base) /\ Len(base) \in 0..Len(base) /\ Len(base) \in Nat
    BY <1>1
<1>3. c \in NamedChanges
    BY <1>1, <1>2, NameChanges
<1>4. /\ ApplyChange(base, c) = Spliced(base, 0, Len(base), text)
      /\ OperateChange(base, c) = Spliced(base, 0, Len(base), text)
    BY <1>1, <1>2, OneChange
<1>5. Spliced(base, 0, Len(base), text) = text
    <2>1. SubSeq(base, 1, 0) = <<>> /\ SubSeq(base, Len(base) + 1, Len(base)) = <<>>
        BY <1>2, SubSeqEmpty
    <2>2. <<>> \o text = text /\ text \o <<>> = text
        BY <1>1, ConcatEmptySeq
    <2> QED BY <2>1, <2>2 DEF Spliced
<1> HIDE DEF c
<1>6. b \in Batches /\ <<>> \in Seq(Batches) /\ <<b>> = Append(<<>>, b) /\ b.changes = Append(<<>>, c)
    BY <1>3 DEF Batches
<1>7. Changes(<<b>>) = Append(<<>>, c)
    <2>1. Changes(<<>>) = <<>>
        <3>1. [i \in DOMAIN <<>> |-> (<<>>)[i].changes] = <<>>
            OBVIOUS
        <3> QED BY <3>1, FlattenNone DEF Changes
    <2>2. Changes(<<b>>) = Changes(<<>>) \o b.changes
        BY <1>6, ChangesAppend
    <2>3. Append(<<>>, c) \in Seq(NamedChanges)
        BY <1>3
    <2>4. <<>> \o Append(<<>>, c) = Append(<<>>, c)
        BY <2>3, ConcatEmptySeq
    <2> QED BY <1>6, <2>1, <2>2, <2>4
<1>8. \A program \in Programs : Steps(program, base, Append(<<>>, c)) = Applied(program, base, c)
    <2> DEFINE none == <<>>
    <2>1. none \in Seq(NamedChanges)
        OBVIOUS
    <2>2. \A program \in Programs : Steps(program, base, none) = base
        BY NoSteps
    <2> HIDE DEF none
    <2>3. \A program \in Programs :
            Steps(program, base, Append(none, c))
                = Applied(program, Steps(program, base, none), c)
        BY <1>3, <2>1, OneMoreStep
    <2> QED BY <2>2, <2>3 DEF none
<1>9. Ordered(<<b>>)
    BY DEF Ordered
<1> HIDE DEF b
<1>10. ApplyBatches(base, <<b>>) = text /\ Operate(base, <<b>>) = text
    BY <1>4, <1>5, <1>7, <1>8, <1>9, BothPrograms DEF Applied, Programs
<1>11. <<b>> \in Seq(Batches)
    BY <1>6
<1>12. TextTypeOK'
    BY <1>1 DEF TextInv, TextTypeOK
<1>13. TextExact'
    BY <1>1, <1>10 DEF TextExact
<1> QED BY <1>1, <1>11, <1>12, <1>13 DEF TextInv

\* A batch is pushed whose changes bring the text to what the tab has now.
LEMMA PushKeeps ==
    ASSUME TextInv, Editing, NEW cs \in Seq(NamedChanges), Push(cs), text' \in Seq(Chars),
           \A program \in Programs : Steps(program, base, Changes(batches) \o cs) = text'
    PROVE  TextInv'
<1> DEFINE b == [seq |-> NextSeq, changes |-> cs]
<1>1. /\ remoteFile \in Seq(Chars) /\ text \in Seq(Chars) /\ base \in Seq(Chars) /\ batches \in Seq(Batches)
      /\ (base = remoteFile \/ marked) /\ sent = Complete /\ marked' = marked /\ marked \in BOOLEAN
      /\ batches' = Append(batches, b) /\ remoteFile' = remoteFile /\ sent' = sent /\ base' = base
    BY DEF TextInv, TextTypeOK, TextExact, Editing, Push
<1>2. \A i \in 1..Len(batches) : batches[i].seq \in Nat
    <2>1. \A x \in Batches : x.seq \in Nat
        BY DEF Batches
    <2> QED BY <1>1, <2>1
<1>3. /\ NextSeq \in Nat /\ NextSeq > 0
      /\ batches # <<>> => NextSeq > batches[Len(batches)].seq
    <2>1. CASE batches = <<>>
        BY <2>1 DEF NextSeq
    <2>2. CASE batches # <<>>
        <3>1. Len(batches) \in 1..Len(batches)
            BY <1>1, <2>2, EmptySeq
        <3> QED BY <1>2, <2>2, <3>1 DEF NextSeq
    <2> QED BY <2>1, <2>2
<1>4. b \in Batches /\ b.changes = cs /\ b.seq = NextSeq
    BY <1>3 DEF Batches
<1> HIDE DEF b
<1>5. Append(batches, b) \in Seq(Batches) /\ Changes(Append(batches, b)) = Changes(batches) \o cs
    BY <1>1, <1>4, ChangesAppend, AppendProperties
<1>6. Ordered(batches)
    BY <1>1, NotRefused DEF TextInv, TextExact, ApplyBatches
<1>7. Ordered(Append(batches, b))
    <2> DEFINE n == Len(batches)
               more == Append(batches, b)
    <2>1. /\ DOMAIN more = 1..(n + 1) /\ n \in Nat /\ more[n + 1] = b
          /\ \A i \in 1..n : more[i] = batches[i]
        BY <1>1, <1>4, AppendProperties
    <2>2. ASSUME NEW i \in DOMAIN more PROVE more[i].seq > IF i = 1 THEN 0 ELSE more[i - 1].seq
        <3>1. CASE i = n + 1
            <4>1. CASE n = 0
                BY <1>3, <1>4, <2>1, <3>1, <4>1
            <4>2. CASE n # 0
                <5>1. batches # <<>> /\ n \in 1..n /\ i # 1 /\ i - 1 = n
                    BY <1>1, <2>1, <3>1, <4>2
                <5> HIDE DEF more
                <5> QED BY <1>3, <1>4, <2>1, <3>1, <5>1
            <4> QED BY <4>1, <4>2
        <3>2. CASE i # n + 1
            <4>1. i \in DOMAIN batches /\ i \in 1..n /\ (i # 1 => i - 1 \in 1..n)
                BY <1>1, <2>1, <3>2
            <4>2. batches[i].seq > IF i = 1 THEN 0 ELSE batches[i - 1].seq
                BY <1>6, <4>1 DEF Ordered
            <4> HIDE DEF more, n
            <4> QED BY <2>1, <4>1, <4>2
        <3> QED BY <3>1, <3>2
    <2> HIDE DEF more
    <2> QED BY <2>2 DEF Ordered, more
<1>8. ApplyBatches(base, batches') = text' /\ Operate(base, batches') = text'
    BY <1>1, <1>5, <1>7, BothPrograms DEF Programs
<1>9. TextTypeOK'
    BY <1>1 DEF TextTypeOK
<1>10. TextExact'
    BY <1>1, <1>8 DEF TextExact
<1> QED BY <1>1, <1>5, <1>9, <1>10 DEF TextInv

\* The batches so far have brought the text to what the tab had.
LEMMA SoFar ==
    ASSUME TextInv, Editing
    PROVE  /\ Changes(batches) \in Seq(NamedChanges) /\ text \in Seq(Chars)
           /\ \A program \in Programs : Steps(program, base, Changes(batches)) = text
<1>1. text \in Seq(Chars) /\ batches \in Seq(Batches) /\ sent = Complete
    BY DEF TextInv, TextTypeOK, Editing
<1>2. ApplyBatches(base, batches) = text /\ Operate(base, batches) = text
    BY <1>1 DEF TextInv, TextExact
<1>3. Ordered(batches)
    BY <1>1, <1>2, NotRefused DEF ApplyBatches
<1>4. Changes(batches) \in Seq(NamedChanges)
    BY <1>1, ChangesType
<1> QED BY <1>1, <1>2, <1>3, <1>4, BothPrograms DEF Programs

LEMMA PlacesAre ==
    ASSUME TextInv, NEW p \in Places
    PROVE  p[1] \in 0..Len(text) /\ p[2] \in p[1]..Len(text) /\ Len(text) \in Nat
<1>1. text \in Seq(Chars)
    BY DEF TextInv, TextTypeOK
<1> QED BY <1>1 DEF Places

LEMMA EditOnceKeeps ==
    ASSUME TextInv, NEW s \in 0..Len(text), NEW e \in s..Len(text), NEW new \in Inserted,
           EditOnce(s, e, new)
    PROVE  TextInv'
<1> DEFINE c == Change(text, s, e, new)
<1>1. Editing /\ text' = Spliced(text, s, e, new) /\ Push(<<c>>)
    BY DEF EditOnce
<1>2. /\ Changes(batches) \in Seq(NamedChanges) /\ text \in Seq(Chars) /\ new \in Seq(Chars)
      /\ \A program \in Programs : Steps(program, base, Changes(batches)) = text
    BY <1>1, SoFar, TextAssumption
<1>3. c \in NamedChanges
    BY <1>2, NameChanges
<1>4. \A program \in Programs : Applied(program, text, c) = text'
    BY <1>1, <1>2, OneChange DEF Applied
<1>5. text' \in Seq(Chars)
    BY <1>1, <1>2, SplicedType
<1> HIDE DEF c
<1>6. <<c>> \in Seq(NamedChanges) /\ Changes(batches) \o <<c>> = Append(Changes(batches), c)
    BY <1>2, <1>3
<1>7. ASSUME NEW program \in Programs
      PROVE  Steps(program, base, Changes(batches) \o <<c>>) = text'
    <2> DEFINE cs == Changes(batches)
    <2>1. cs \in Seq(NamedChanges) /\ Steps(program, base, cs) = text
        BY <1>2
    <2> HIDE DEF cs
    <2>2. Steps(program, base, Append(cs, c)) = Applied(program, text, c)
        BY <1>3, <2>1, OneMoreStep
    <2> QED BY <1>4, <1>6, <2>2 DEF cs
<1> QED BY <1>1, <1>5, <1>6, <1>7, PushKeeps

\* The later place first: what it puts in does not move the earlier one.
LEMMA EditTwoKeeps ==
    ASSUME TextInv, NEW s \in 0..Len(text), NEW e \in s..Len(text),
           NEW s2 \in 0..Len(text), NEW e2 \in s2..Len(text), NEW new \in Inserted,
           EditTwo(s, e, s2, e2, new)
    PROVE  TextInv'
<1> DEFINE c == Change(text, s2, e2, new)
           d == Change(text, s, e, new)
           between == Spliced(text, s2, e2, new)
<1>1. Editing /\ e < s2 /\ text' = Spliced(between, s, e, new) /\ Push(<<c, d>>)
    BY DEF EditTwo
<1>2. /\ Changes(batches) \in Seq(NamedChanges) /\ text \in Seq(Chars) /\ new \in Seq(Chars)
      /\ \A program \in Programs : Steps(program, base, Changes(batches)) = text
    BY <1>1, SoFar, TextAssumption
<1>3. c \in NamedChanges /\ d \in NamedChanges
    BY <1>2, NameChanges
<1>4. \A program \in Programs : Applied(program, text, c) = between
    BY <1>2, OneChange DEF Applied
<1>5. between \in Seq(Chars)
    BY <1>2, SplicedType
<1>6. Agree(text, between, e)
    <2>1. e \in 0..s2
        BY <1>1
    <2> QED BY <1>2, <2>1, SplicedAgrees
<1>7. d = Change(between, s, e, new)
    <2>1. s \in Nat /\ e \in Nat /\ s <= e
        BY <1>2
    <2> QED BY <1>2, <1>5, <1>6, <2>1, EarlierChange
<1> HIDE DEF between, c, d
<1>8. s \in 0..Len(between) /\ e \in s..Len(between)
    <2>1. e <= Len(between) /\ Len(between) \in Nat
        BY <1>5, <1>6 DEF Agree
    <2> QED BY <1>2, <2>1
<1>9. \A program \in Programs : Applied(program, between, d) = text'
    BY <1>1, <1>2, <1>5, <1>7, <1>8, OneChange DEF Applied
<1>10. text' \in Seq(Chars)
    BY <1>1, <1>2, <1>5, <1>8, SplicedType
<1>11. /\ <<c, d>> \in Seq(NamedChanges)
       /\ Changes(batches) \o <<c, d>> = Append(Append(Changes(batches), c), d)
       /\ Append(Changes(batches), c) \in Seq(NamedChanges)
    BY <1>2, <1>3
<1>12. ASSUME NEW program \in Programs
       PROVE  Steps(program, base, Changes(batches) \o <<c, d>>) = text'
    <2> DEFINE cs == Changes(batches)
               more == Append(cs, c)
    <2>1. cs \in Seq(NamedChanges) /\ Steps(program, base, cs) = text
        BY <1>2
    <2>2. more \in Seq(NamedChanges)
        BY <1>11
    <2> HIDE DEF cs
    <2>3. Steps(program, base, more) = between
        BY <1>3, <1>4, <2>1, OneMoreStep
    <2> HIDE DEF more
    <2>4. Steps(program, base, Append(more, d)) = Applied(program, between, d)
        BY <1>3, <2>2, <2>3, OneMoreStep
    <2> QED BY <1>9, <1>11, <2>4 DEF more, cs
<1> QED BY <1>1, <1>10, <1>11, <1>12, PushKeeps

LEMMA TextStart == TextInit => TextInv
<1> SUFFICES ASSUME TextInit PROVE TextInv
    OBVIOUS
<1>1. /\ remoteFile = <<>> /\ sent = Complete /\ text = <<>> /\ base = <<>> /\ batches = <<>>
      /\ marked = FALSE
    BY DEF TextInit
<1>2. batches \in Seq(Batches) /\ text \in Seq(Chars)
    BY <1>1
<1> QED BY <1>1, <1>2, NothingEdited DEF TextInv, TextTypeOK, TextExact

LEMMA TextKeeps == TextInv /\ [TextNext]_textVars => TextInv'
<1> SUFFICES ASSUME TextInv, [TextNext]_textVars PROVE TextInv'
    OBVIOUS
<1>1. CASE UNCHANGED textVars
    <2>1. /\ remoteFile' = remoteFile /\ sent' = sent /\ text' = text /\ base' = base
          /\ batches' = batches /\ marked' = marked
        BY <1>1 DEF textVars
    <2> QED BY <2>1 DEF TextInv, TextTypeOK, TextExact, Arrived
<1>2. ASSUME NEW f \in Files, OpenText(f) PROVE TextInv'
    BY <1>2, OpenKeeps
<1>3. CASE Chunk
    BY <1>3, ChunkKeeps
<1>4. CASE FinishLoading
    BY <1>4, LoadedKeeps
<1>5. CASE Restore
    BY <1>5, RestoreKeeps
<1>6. ASSUME NEW p \in Places, NEW new \in Inserted, EditOnce(p[1], p[2], new) PROVE TextInv'
    BY <1>6, PlacesAre, EditOnceKeeps
<1>7. ASSUME NEW p \in Places, NEW q \in Places, NEW new \in Inserted,
             EditTwo(p[1], p[2], q[1], q[2], new)
      PROVE  TextInv'
    BY <1>7, PlacesAre, EditTwoKeeps
<1>8. ASSUME Save(ApplyBatches(remoteFile, batches)) \/ Save(Operate(remoteFile, batches))
      PROVE  TextInv'
    BY <1>8, SaveKeeps
<1> QED BY <1>1, <1>2, <1>3, <1>4, <1>5, <1>6, <1>7, <1>8 DEF TextNext

(* The text a tab shows is the one decoded from the chunks so far, a mark at its beginning
   left out, and what either of the gateway's programs makes of the base text and the
   batches pushed since; and that base text is the file's unless the file began with a
   mark: for every alphabet with the widths of its characters and any of them as the mark,
   every text, size of chunk and number of edits, in one place or two, restored or not.
   [commands.rs: stream_buffer_content; text_edits.rs; bufferRuntime.js;
   useRemoteWorkspace.js: createChunkDecoder] *)
THEOREM TextStaysExact == TextSpec => [](TextTypeOK /\ TextExact)
<1>1. TextInv => TextTypeOK /\ TextExact
    BY DEF TextInv
<1> QED BY <1>1, TextStart, TextKeeps, PTL DEF TextSpec
=============================================================================
