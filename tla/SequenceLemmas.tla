---------------------------- MODULE SequenceLemmas ----------------------------
(***************************************************************************)
(* Facts about the operators on sequences and sums that the models of text *)
(* and tokens are built from.  The induction theorems of the library take  *)
(* a predicate as a parameter; here induction is over a set of naturals,   *)
(* which no parameter of a fact stands for.                                *)
(***************************************************************************)
EXTENDS Integers, Sequences, SequencesExt, FiniteSetsExt, SequenceTheorems, FiniteSetTheorems,
        WellFoundedInduction, TLAPS

-----------------------------------------------------------------------------
(* Induction                                                               *)

Below == {p \in Nat \X Nat : p[1] < p[2]}

LEMMA LeastNatural ==
    ASSUME NEW T, T \subseteq Nat, T # {}
    PROVE  \E n \in T : \A m \in T : n <= m
<1>1. Below = OpToRel(<, Nat)
    BY Zenon DEF OpToRel, Below
<1>2. IsWellFoundedOn(Below, Nat)
    BY <1>1, NatLessThanWellFounded, Zenon
<1>3. PICK n \in T : \A m \in T : <<m, n>> \notin Below
    BY <1>2, WFMin
<1>4. ASSUME NEW m \in T PROVE n <= m
    <2>1. m \in Nat /\ n \in Nat
        OBVIOUS
    <2>2. ~(m < n)
        BY <1>3, <2>1 DEF Below
    <2> QED BY <2>1, <2>2
<1> QED BY <1>4

\* A set that has zero and with every number the next has every number.
LEMMA SetInduction ==
    ASSUME NEW T, 0 \in T, \A n \in Nat : n \in T => n + 1 \in T
    PROVE  Nat \subseteq T
<1>1. SUFFICES ASSUME Nat \ T # {} PROVE FALSE
    OBVIOUS
<1>2. PICK n \in Nat \ T : \A m \in Nat \ T : n <= m
    BY <1>1, LeastNatural
<1>3. n # 0 /\ n - 1 \in Nat /\ n - 1 \in T
    BY <1>2
<1> QED BY <1>3

\* A set that has the empty sequence and with every sequence the longer ones has all.
LEMMA AppendInduction ==
    ASSUME NEW S, NEW X, <<>> \in X,
           \A s \in Seq(S), e \in S : s \in X => Append(s, e) \in X
    PROVE  Seq(S) \subseteq X
<1> DEFINE N == {n \in Nat : \A s \in Seq(S) : Len(s) = n => s \in X}
<1>1. 0 \in N
    <2>1. \A s \in Seq(S) : Len(s) = 0 => s = <<>>
        BY EmptySeq
    <2> QED BY <2>1
<1>2. ASSUME NEW n \in Nat, n \in N PROVE n + 1 \in N
    <2>1. ASSUME NEW s \in Seq(S), Len(s) = n + 1 PROVE s \in X
        <3>1. PICK t \in Seq(S), e \in S : s = Append(t, e)
            BY <2>1, SequenceEmptyOrAppend, EmptySeq
        <3>2. Len(t) = n
            BY <2>1, <3>1, AppendProperties, LenProperties
        <3> QED BY <1>2, <3>1, <3>2
    <2> QED BY <2>1
<1>3. Nat \subseteq N
    BY <1>1, <1>2, SetInduction
<1>4. \A s \in Seq(S) : Len(s) \in Nat
    BY LenProperties
<1> QED BY <1>3, <1>4

\* A function on 1..n is a sequence.
LEMMA FunctionIsSeq ==
    ASSUME NEW S, NEW n \in Nat, NEW f \in [1..n -> S]
    PROVE  f \in Seq(S) /\ Len(f) = n
OBVIOUS

\* Two sequences are the same if they are as long and the same everywhere.
LEMMA SameSeq ==
    ASSUME NEW S, NEW s \in Seq(S), NEW t \in Seq(S), Len(s) = Len(t),
           \A i \in 1..Len(s) : s[i] = t[i]
    PROVE  s = t
<1>1. s = [i \in 1..Len(s) |-> s[i]] /\ t = [i \in 1..Len(t) |-> t[i]]
    OBVIOUS
<1> QED BY <1>1

\* t is s with f applied to every element.
Mapped(f, s, t) == Len(t) = Len(s) /\ \A i \in 1..Len(s) : t[i] = f[s[i]]

LEMMA MappedConcat ==
    ASSUME NEW S, NEW T, NEW a \in Seq(S), NEW b \in Seq(S), NEW f,
           NEW p \in Seq(T), NEW q \in Seq(T), NEW r \in Seq(T),
           Mapped(f, a, p), Mapped(f, b, q), Mapped(f, a \o b, r)
    PROVE  r = p \o q
<1>1. /\ a \o b \in Seq(S) /\ Len(a \o b) = Len(a) + Len(b)
      /\ \A i \in 1..(Len(a) + Len(b)) : (a \o b)[i] = IF i <= Len(a) THEN a[i] ELSE b[i - Len(a)]
    BY ConcatProperties
<1>2. /\ p \o q \in Seq(T) /\ Len(p \o q) = Len(p) + Len(q)
      /\ \A i \in 1..(Len(p) + Len(q)) : (p \o q)[i] = IF i <= Len(p) THEN p[i] ELSE q[i - Len(p)]
    BY ConcatProperties
<1>3. Len(p) = Len(a) /\ Len(q) = Len(b) /\ Len(r) = Len(a) + Len(b) /\ Len(a) \in Nat /\ Len(b) \in Nat
    BY <1>1 DEF Mapped
<1>4. ASSUME NEW i \in 1..(Len(a) + Len(b)) PROVE r[i] = (p \o q)[i]
    <2>1. r[i] = f[(a \o b)[i]]
        BY <1>1 DEF Mapped
    <2>2. CASE i <= Len(a)
        <3>1. p[i] = f[a[i]]
            BY <2>2 DEF Mapped
        <3> QED BY <1>1, <1>2, <1>3, <2>1, <2>2, <3>1
    <2>3. CASE ~(i <= Len(a))
        <3>1. i - Len(a) \in 1..Len(b)
            BY <1>3, <2>3
        <3>2. q[i - Len(a)] = f[b[i - Len(a)]]
            BY <3>1 DEF Mapped
        <3> QED BY <1>1, <1>2, <1>3, <2>1, <2>3, <3>2
    <2> QED BY <2>2, <2>3
<1>5. Len(r) = Len(p \o q) /\ \A i \in 1..Len(r) : r[i] = (p \o q)[i]
    BY <1>2, <1>3, <1>4
<1> QED BY <1>2, <1>5, SameSeq

\* A set of some of 1..n has a maximum, the library's.
LEMMA MaxOfSome ==
    ASSUME NEW n \in Nat, NEW s \in SUBSET (1..n), s # {}
    PROVE  Max(s) \in s /\ \A y \in s : y <= Max(s)
<1> DEFINE room == {n - y : y \in s}
<1>1. room \subseteq Nat /\ room # {}
    <2>1. \A y \in s : y \in 1..n /\ n - y \in Nat
        OBVIOUS
    <2> QED BY <2>1
<1>2. PICK x \in room : \A y \in room : x <= y
    <2> HIDE DEF room
    <2> QED BY <1>1, LeastNatural
<1>3. PICK top \in s : x = n - top
    OBVIOUS
<1>4. \A y \in s : top >= y
    <2>1. ASSUME NEW y \in s PROVE top >= y
        <3>1. n - y \in room /\ y \in Nat /\ top \in Nat
            OBVIOUS
        <3> HIDE DEF room
        <3> QED BY <1>2, <1>3, <3>1
    <2> QED BY <2>1
<1>5. Max(s) \in s /\ \A y \in s : Max(s) >= y
    BY <1>3, <1>4 DEF Max
<1>6. \A y \in s : y \in 1..n
    OBVIOUS
<1>7. \A y \in s : y \in Nat
    BY <1>6
<1> HIDE DEF room
<1> QED BY <1>5, <1>7

-----------------------------------------------------------------------------
(* FlattenSeq                                                              *)

\* The recursive function FlattenSeq is defined with.
Flattens(f, s, n) ==
    /\ f = [i \in 1..n |-> f[i]]
    /\ \A i \in 1..n : f[i] = IF i = 1 THEN s[i] ELSE f[i - 1] \o s[i]

LEMMA FlattenNone == FlattenSeq(<<>>) = <<>>
BY DEF FlattenSeq

\* FlattenSeq is the last value of the function.
LEMMA FlattenIs ==
    ASSUME NEW s, NEW f, Len(s) \in Nat \ {0}, Flattens(f, s, Len(s))
    PROVE  FlattenSeq(s) = f[Len(s)]
<1> DEFINE g == CHOOSE g : g = [i \in 1..Len(s) |-> IF i = 1 THEN s[i] ELSE g[i - 1] \o s[i]]
           S == {i \in Nat : i \in 1..Len(s) => f[i] = g[i]}
<1>1. FlattenSeq(s) = g[Len(s)]
    BY DEF FlattenSeq
<1>2. f = [i \in 1..Len(s) |-> IF i = 1 THEN s[i] ELSE f[i - 1] \o s[i]]
    BY DEF Flattens
<1>3. g = [i \in 1..Len(s) |-> IF i = 1 THEN s[i] ELSE g[i - 1] \o s[i]]
    BY <1>2, Zenon
<1> HIDE DEF g
<1>4. \A i \in 1..Len(s) : g[i] = IF i = 1 THEN s[i] ELSE g[i - 1] \o s[i]
    BY <1>3, Zenon
<1>5. \A i \in 1..Len(s) : f[i] = IF i = 1 THEN s[i] ELSE f[i - 1] \o s[i]
    BY DEF Flattens
<1>6. 0 \in S
    OBVIOUS
<1>7. ASSUME NEW i \in Nat, i \in S PROVE i + 1 \in S
    <2>1. SUFFICES ASSUME i + 1 \in 1..Len(s) PROVE f[i + 1] = g[i + 1]
        OBVIOUS
    <2>2. f[i + 1] = IF i + 1 = 1 THEN s[i + 1] ELSE f[i + 1 - 1] \o s[i + 1]
        BY <1>5, <2>1
    <2>3. g[i + 1] = IF i + 1 = 1 THEN s[i + 1] ELSE g[i + 1 - 1] \o s[i + 1]
        BY <1>4, <2>1
    <2>4. CASE i = 0
        BY <2>2, <2>3, <2>4
    <2>5. CASE i # 0
        <3>1. f[i] = g[i] /\ i + 1 - 1 = i /\ i + 1 # 1
            BY <1>7, <2>1, <2>5
        <3> QED BY <3>1, <2>2, <2>3
    <2> QED BY <2>4, <2>5
<1>8. Nat \subseteq S
    BY <1>6, <1>7, SetInduction
<1> QED BY <1>1, <1>8

\* One more sequence at the end of the function.
LEMMA FlattensMore ==
    ASSUME NEW T, NEW s \in Seq(Seq(T)), NEW x \in Seq(T), NEW f, s # <<>>,
           Flattens(f, s, Len(s))
    PROVE  LET g == [i \in 1..(Len(s) + 1) |-> IF i = Len(s) + 1 THEN f[Len(s)] \o x ELSE f[i]]
           IN  Flattens(g, Append(s, x), Len(s) + 1)
<1> DEFINE n == Len(s)
           sx == Append(s, x)
           g == [i \in 1..(n + 1) |-> IF i = n + 1 THEN f[n] \o x ELSE f[i]]
<1>1. n \in Nat \ {0}
    BY EmptySeq
<1>2. sx[n + 1] = x /\ \A i \in 1..n : sx[i] = s[i]
    BY AppendProperties
<1>3. g[n + 1] = f[n] \o x /\ \A i \in 1..n : g[i] = f[i]
    BY <1>1
<1>4. \A i \in 1..n : f[i] = IF i = 1 THEN s[i] ELSE f[i - 1] \o s[i]
    BY DEF Flattens
<1>5. g = [i \in 1..(n + 1) |-> g[i]]
    OBVIOUS
<1> HIDE DEF n, g, sx
<1>6. ASSUME NEW i \in 1..(n + 1)
      PROVE  g[i] = IF i = 1 THEN sx[i] ELSE g[i - 1] \o sx[i]
    <2>1. CASE i = n + 1
        <3>1. n \in 1..n /\ i # 1 /\ i - 1 = n
            BY <1>1, <2>1
        <3> QED BY <3>1, <1>2, <1>3, <2>1
    <2>2. CASE i # n + 1
        <3>1. i \in 1..n /\ (i # 1 => i - 1 \in 1..n)
            BY <1>1, <2>2
        <3> QED BY <3>1, <1>2, <1>3, <1>4
    <2> QED BY <2>1, <2>2
<1>7. Flattens(g, sx, n + 1)
    BY <1>5, <1>6 DEF Flattens
<1> QED BY <1>7 DEF g, n, sx

LEMMA FlattenExists ==
    ASSUME NEW T, NEW s \in Seq(Seq(T)), s # <<>>
    PROVE  \E f : Flattens(f, s, Len(s)) /\ f[Len(s)] \in Seq(T)
<1> DEFINE X == {t \in Seq(Seq(T)) :
                    t # <<>> => \E f : Flattens(f, t, Len(t)) /\ f[Len(t)] \in Seq(T)}
<1>1. <<>> \in X
    BY EmptySeq
<1>2. ASSUME NEW t \in Seq(Seq(T)), NEW x \in Seq(T), t \in X PROVE Append(t, x) \in X
    <2>1. /\ Append(t, x) \in Seq(Seq(T)) /\ Len(Append(t, x)) = Len(t) + 1
          /\ Append(t, x)[Len(t) + 1] = x
        BY AppendProperties
    <2>2. CASE t = <<>>
        <3> DEFINE f == [i \in 1..1 |-> x]
        <3>1. Len(Append(t, x)) = 1 /\ Append(t, x)[1] = x
            BY <2>1, <2>2, EmptySeq
        <3>2. f[1] = x /\ f = [i \in 1..1 |-> f[i]]
            OBVIOUS
        <3> HIDE DEF f
        <3>3. Flattens(f, Append(t, x), 1)
            BY <3>1, <3>2 DEF Flattens
        <3> QED BY <2>1, <3>1, <3>2, <3>3
    <2>3. CASE t # <<>>
        <3>1. PICK f : Flattens(f, t, Len(t)) /\ f[Len(t)] \in Seq(T)
            BY <1>2, <2>3
        <3> DEFINE g == [i \in 1..(Len(t) + 1) |->
                            IF i = Len(t) + 1 THEN f[Len(t)] \o x ELSE f[i]]
        <3>2. Flattens(g, Append(t, x), Len(t) + 1)
            BY <2>3, <3>1, FlattensMore
        <3>3. g[Len(t) + 1] = f[Len(t)] \o x
            BY LenProperties
        <3>4. g[Len(t) + 1] \in Seq(T)
            BY <3>1, <3>3, ConcatProperties
        <3> HIDE DEF g
        <3> QED BY <2>1, <3>2, <3>4
    <2> QED BY <2>2, <2>3
<1> HIDE DEF X
<1>3. Seq(Seq(T)) \subseteq X
    BY <1>1, <1>2, AppendInduction
<1> QED BY <1>3 DEF X

LEMMA FlattenType ==
    ASSUME NEW T, NEW s \in Seq(Seq(T))
    PROVE  FlattenSeq(s) \in Seq(T)
<1>1. CASE s = <<>>
    BY <1>1, FlattenNone, EmptySeq
<1>2. CASE s # <<>>
    <2>1. PICK f : Flattens(f, s, Len(s)) /\ f[Len(s)] \in Seq(T)
        BY <1>2, FlattenExists
    <2>2. Len(s) \in Nat \ {0}
        BY <1>2, EmptySeq
    <2> QED BY <2>1, <2>2, FlattenIs
<1> QED BY <1>1, <1>2

LEMMA FlattenAppend ==
    ASSUME NEW T, NEW s \in Seq(Seq(T)), NEW x \in Seq(T)
    PROVE  FlattenSeq(Append(s, x)) = FlattenSeq(s) \o x
<1>1. /\ Append(s, x) \in Seq(Seq(T)) /\ Len(Append(s, x)) = Len(s) + 1
      /\ Append(s, x)[Len(s) + 1] = x /\ Len(s) \in Nat
    BY AppendProperties, LenProperties
<1>2. CASE s = <<>>
    <2> DEFINE f == [i \in 1..1 |-> x]
    <2>1. Len(Append(s, x)) = 1 /\ Append(s, x)[1] = x
        BY <1>1, <1>2, EmptySeq
    <2>2. f[1] = x /\ f = [i \in 1..1 |-> f[i]]
        OBVIOUS
    <2> HIDE DEF f
    <2>3. Flattens(f, Append(s, x), 1)
        BY <2>1, <2>2 DEF Flattens
    <2>4. FlattenSeq(Append(s, x)) = x
        <3> DEFINE t == Append(s, x)
        <3>1. Len(t) \in Nat \ {0} /\ Flattens(f, t, Len(t)) /\ f[Len(t)] = x
            BY <2>1, <2>2, <2>3
        <3> HIDE DEF t
        <3>2. FlattenSeq(t) = x
            BY <3>1, FlattenIs
        <3> QED BY <3>2 DEF t
    <2> QED BY <1>2, <2>4, FlattenNone, ConcatEmptySeq
<1>3. CASE s # <<>>
    <2>1. PICK f : Flattens(f, s, Len(s)) /\ f[Len(s)] \in Seq(T)
        BY <1>3, FlattenExists
    <2> DEFINE g == [i \in 1..(Len(s) + 1) |->
                        IF i = Len(s) + 1 THEN f[Len(s)] \o x ELSE f[i]]
    <2>2. Flattens(g, Append(s, x), Len(s) + 1)
        BY <1>3, <2>1, FlattensMore
    <2>3. g[Len(s) + 1] = f[Len(s)] \o x
        BY <1>1
    <2> HIDE DEF g
    <2>4. FlattenSeq(Append(s, x)) = g[Len(s) + 1]
        <3> DEFINE t == Append(s, x)
        <3>1. Len(t) \in Nat \ {0} /\ Flattens(g, t, Len(t)) /\ Len(t) = Len(s) + 1
            BY <1>1, <2>2
        <3> HIDE DEF t
        <3>2. FlattenSeq(t) = g[Len(t)]
            BY <3>1, FlattenIs
        <3> QED BY <3>1, <3>2 DEF t
    <2>5. FlattenSeq(s) = f[Len(s)]
        BY <1>1, <1>3, <2>1, FlattenIs, EmptySeq
    <2> QED BY <2>3, <2>4, <2>5
<1> QED BY <1>2, <1>3

LEMMA FlattenConcat ==
    ASSUME NEW T, NEW s \in Seq(Seq(T)), NEW t \in Seq(Seq(T))
    PROVE  FlattenSeq(s \o t) = FlattenSeq(s) \o FlattenSeq(t)
<1> DEFINE X == {u \in Seq(Seq(T)) : FlattenSeq(s \o u) = FlattenSeq(s) \o FlattenSeq(u)}
<1>1. <<>> \in X
    <2>1. s \o <<>> = s /\ FlattenSeq(s) \o <<>> = FlattenSeq(s)
        BY ConcatEmptySeq, FlattenType
    <2> QED BY <2>1, FlattenNone, EmptySeq
<1>2. ASSUME NEW u \in Seq(Seq(T)), NEW x \in Seq(T), u \in X PROVE Append(u, x) \in X
    <2>1. s \o u \in Seq(Seq(T)) /\ Append(u, x) \in Seq(Seq(T))
        BY ConcatProperties, AppendProperties
    <2>2. s \o Append(u, x) = Append(s \o u, x)
        <3>1. <<x>> \in Seq(Seq(T))
            OBVIOUS
        <3>2. Append(u, x) = u \o <<x>> /\ Append(s \o u, x) = (s \o u) \o <<x>>
            BY <2>1, AppendIsConcat
        <3> QED BY <3>1, <3>2, ConcatAssociative
    <2>3. FlattenSeq(s \o Append(u, x)) = FlattenSeq(s \o u) \o x
        BY <2>1, <2>2, FlattenAppend
    <2>4. FlattenSeq(Append(u, x)) = FlattenSeq(u) \o x
        BY FlattenAppend
    <2>5. FlattenSeq(s) \in Seq(T) /\ FlattenSeq(u) \in Seq(T)
        BY FlattenType
    <2>6. (FlattenSeq(s) \o FlattenSeq(u)) \o x = FlattenSeq(s) \o (FlattenSeq(u) \o x)
        BY <2>5, ConcatAssociative
    <2> QED BY <1>2, <2>1, <2>3, <2>4, <2>6
<1>3. Seq(Seq(T)) \subseteq X
    BY <1>1, <1>2, AppendInduction
<1> QED BY <1>3

LEMMA ConcatHolds ==
    ASSUME NEW T, NEW s \in Seq(T), NEW t \in Seq(T)
    PROVE  ToSet(s \o t) = ToSet(s) \cup ToSet(t)
<1>1. /\ s \o t \in Seq(T) /\ Len(s \o t) = Len(s) + Len(t)
      /\ \A i \in 1..(Len(s) + Len(t)) : (s \o t)[i] = IF i <= Len(s) THEN s[i] ELSE t[i - Len(s)]
    BY ConcatProperties
<1>2. DOMAIN s = 1..Len(s) /\ DOMAIN t = 1..Len(t) /\ Len(s) \in Nat /\ Len(t) \in Nat
    BY LenProperties
<1>3. DOMAIN (s \o t) = 1..(Len(s) + Len(t))
    BY <1>1, LenProperties
<1> DEFINE u == s \o t
<1> HIDE DEF u
<1>4. ASSUME NEW x \in ToSet(u) PROVE x \in ToSet(s) \cup ToSet(t)
    <2>1. PICK i \in 1..(Len(s) + Len(t)) : x = u[i]
        BY <1>3 DEF ToSet, u
    <2>2. CASE i <= Len(s)
        BY <1>1, <1>2, <2>1, <2>2 DEF ToSet, u
    <2>3. CASE i > Len(s)
        <3>1. i - Len(s) \in 1..Len(t) /\ u[i] = t[i - Len(s)]
            BY <1>1, <1>2, <2>3 DEF u
        <3> QED BY <1>2, <2>1, <3>1 DEF ToSet
    <2> QED BY <1>2, <2>2, <2>3
<1>5. ASSUME NEW x \in ToSet(s) PROVE x \in ToSet(u)
    <2>1. PICK i \in 1..Len(s) : x = s[i]
        BY <1>2 DEF ToSet
    <2>2. i \in 1..(Len(s) + Len(t)) /\ u[i] = s[i]
        BY <1>1, <1>2 DEF u
    <2> QED BY <1>3, <2>1, <2>2 DEF ToSet, u
<1>6. ASSUME NEW x \in ToSet(t) PROVE x \in ToSet(u)
    <2>1. PICK i \in 1..Len(t) : x = t[i]
        BY <1>2 DEF ToSet
    <2>2. i + Len(s) \in 1..(Len(s) + Len(t)) /\ u[i + Len(s)] = t[i]
        BY <1>1, <1>2 DEF u
    <2> QED BY <1>3, <2>1, <2>2 DEF ToSet, u
<1> QED BY <1>4, <1>5, <1>6 DEF u

\* What is put together holds what the pieces hold.
LEMMA FlattenHolds ==
    ASSUME NEW T, NEW s \in Seq(Seq(T))
    PROVE  ToSet(FlattenSeq(s)) = UNION {ToSet(x) : x \in ToSet(s)}
<1> DEFINE X == {t \in Seq(Seq(T)) :
                    ToSet(FlattenSeq(t)) = UNION {ToSet(x) : x \in ToSet(t)}}
<1>1. <<>> \in X
    <2>1. ToSet(<<>>) = {}
        BY DEF ToSet
    <2>2. <<>> \in Seq(Seq(T))
        BY EmptySeq
    <2> QED BY <2>1, <2>2, FlattenNone
<1>2. ASSUME NEW t \in Seq(Seq(T)), NEW e \in Seq(T), t \in X PROVE Append(t, e) \in X
    <2>1. /\ Append(t, e) \in Seq(Seq(T))
          /\ FlattenSeq(Append(t, e)) = FlattenSeq(t) \o e
        BY FlattenAppend, AppendProperties
    <2>2. ToSet(FlattenSeq(t) \o e) = ToSet(FlattenSeq(t)) \cup ToSet(e)
        BY FlattenType, ConcatHolds
    <2>3. ToSet(Append(t, e)) = ToSet(t) \cup {e}
        <3> DEFINE V == Seq(T)
        <3>1. t \in Seq(V) /\ e \in V
            OBVIOUS
        <3> HIDE DEF V
        <3>2. /\ Len(t) \in Nat /\ DOMAIN t = 1..Len(t) /\ DOMAIN Append(t, e) = 1..(Len(t) + 1)
              /\ Append(t, e)[Len(t) + 1] = e /\ \A i \in 1..Len(t) : Append(t, e)[i] = t[i]
            BY <3>1, AppendProperties, LenProperties
        <3> DEFINE n == Len(t)
                   te == Append(t, e)
        <3> HIDE DEF n, te
        <3>3. 1..(n + 1) = (1..n) \cup {n + 1}
            BY <3>2 DEF n
        <3> QED BY <3>2, <3>3 DEF ToSet, n, te
    <2>4. UNION {ToSet(x) : x \in ToSet(t) \cup {e}}
            = (UNION {ToSet(x) : x \in ToSet(t)}) \cup ToSet(e)
        OBVIOUS
    <2> QED BY <1>2, <2>1, <2>2, <2>3, <2>4
<1>3. Seq(Seq(T)) \subseteq X
    <2> HIDE DEF X
    <2> QED BY <1>1, <1>2, AppendInduction
<1> QED BY <1>3

\* Rows of five elements: each is found from its row.
LEMMA FlattenFives ==
    ASSUME NEW V, NEW s \in Seq([1..5 -> V])
    PROVE  /\ FlattenSeq(s) \in Seq(V) /\ Len(FlattenSeq(s)) = 5 * Len(s)
           /\ \A i \in 1..Len(s), k \in 1..5 : FlattenSeq(s)[5 * (i - 1) + k] = s[i][k]
<1> DEFINE Rows == [1..5 -> V]
           Is(t) == /\ Len(FlattenSeq(t)) = 5 * Len(t)
                    /\ \A i \in 1..Len(t), k \in 1..5 : FlattenSeq(t)[5 * (i - 1) + k] = t[i][k]
           X == {t \in Seq(Rows) : Is(t)}
<1>1. \A t \in Seq(Rows) : t \in Seq(Seq(V)) /\ FlattenSeq(t) \in Seq(V)
    <2>1. Rows \subseteq Seq(V)
        BY FunctionIsSeq
    <2> QED BY <2>1, SeqMonotonic, FlattenType
<1>2. <<>> \in X
    <2>1. <<>> \in Seq(Rows) /\ Len(<<>>) = 0 /\ 5 * 0 = 0
        OBVIOUS
    <2> QED BY <2>1, FlattenNone
<1>3. ASSUME NEW t \in Seq(Rows), NEW x \in Rows, t \in X PROVE Append(t, x) \in X
    <2> DEFINE tx == Append(t, x)
               F == FlattenSeq(t)
               n == Len(t)
    <2>1. x \in Seq(V) /\ Len(x) = 5
        BY FunctionIsSeq
    <2>2. FlattenSeq(tx) = F \o x
        BY <1>1, <2>1, FlattenAppend
    <2>3. /\ tx \in Seq(Rows) /\ Len(tx) = n + 1 /\ tx[n + 1] = x
          /\ \A i \in 1..n : tx[i] = t[i]
          /\ n \in Nat
        BY AppendProperties, LenProperties
    <2>4. F \in Seq(V) /\ Len(F) = 5 * n
        BY <1>1, <1>3
    <2>5. /\ Len(F \o x) = Len(F) + 5
          /\ \A i \in 1..(Len(F) + 5) :
                (F \o x)[i] = IF i <= Len(F) THEN F[i] ELSE x[i - Len(F)]
        <3>1. /\ Len(F \o x) = Len(F) + Len(x)
              /\ \A i \in 1..(Len(F) + Len(x)) :
                    (F \o x)[i] = IF i <= Len(F) THEN F[i] ELSE x[i - Len(F)]
            BY <2>1, <2>4, ConcatProperties
        <3> QED BY <2>1, <3>1
    <2>6. \A i \in 1..n, k \in 1..5 : F[5 * (i - 1) + k] = t[i][k]
        BY <1>3
    <2> HIDE DEF tx, F, n
    <2>7. Len(FlattenSeq(tx)) = 5 * Len(tx)
        <3>1. Len(FlattenSeq(tx)) = 5 * n + 5
            BY <2>2, <2>4, <2>5
        <3> QED BY <2>3, <3>1
    <2>8. ASSUME NEW i \in 1..Len(tx), NEW k \in 1..5
          PROVE  FlattenSeq(tx)[5 * (i - 1) + k] = tx[i][k]
        <3> DEFINE m == 5 * (i - 1)
        <3>1. CASE i = n + 1
            <4>1. m = Len(F)
                BY <2>3, <2>4, <3>1
            <4>2. Len(F) \in Nat
                BY <2>3, <2>4
            <4> HIDE DEF m
            <4>3. (F \o x)[m + k] = x[m + k - Len(F)] /\ m + k - Len(F) = k
                BY <2>5, <4>1, <4>2
            <4> QED BY <2>2, <2>3, <3>1, <4>3 DEF m
        <3>2. CASE i # n + 1
            <4>1. i \in 1..n
                BY <2>3, <3>2
            <4>2. i - 1 \in Nat /\ i - 1 <= n - 1
                BY <2>3, <4>1
            <4>3. m \in Nat /\ m <= 5 * (n - 1)
                BY <2>3, <4>2
            <4>4. 5 * (n - 1) + 5 = 5 * n
                BY <2>3
            <4> HIDE DEF m
            <4>5. m + k \in 1..(Len(F) + 5) /\ m + k <= Len(F)
                BY <2>3, <2>4, <4>3, <4>4
            <4>6. (F \o x)[m + k] = F[m + k]
                BY <2>5, <4>5
            <4> QED BY <2>2, <2>3, <2>6, <4>1, <4>6 DEF m
        <3> QED BY <3>1, <3>2
    <2>9. Is(tx)
        BY <2>7, <2>8
    <2> HIDE DEF Is
    <2> QED BY <2>3, <2>9 DEF tx
<1> HIDE DEF Is
<1>4. Seq(Rows) \subseteq X
    BY <1>2, <1>3, AppendInduction
<1>5. Is(s)
    BY <1>4
<1> QED BY <1>1, <1>5 DEF Is

-----------------------------------------------------------------------------
(* Sums over a beginning of a sequence                                     *)

\* A sum over each subset of 1..n of the numbers w.
Sums(h, w, n) ==
    /\ h \in [SUBSET (1..n) -> Nat] /\ h[{}] = 0
    /\ \A s \in SUBSET (1..n) : \A x \in s : h[s] = w[x] + h[s \ {x}]

LEMMA SumsExist ==
    ASSUME NEW n \in Nat, NEW w \in [1..n -> Nat]
    PROVE  \E h : Sums(h, w, n)
<1> DEFINE M == {m \in Nat : m <= n => \E h : Sums(h, w, m)}
<1>1. 0 \in M
    <2> DEFINE h == [s \in SUBSET (1..0) |-> 0]
    <2>1. \A s \in SUBSET (1..0) : s = {}
        OBVIOUS
    <2>2. h \in [SUBSET (1..0) -> Nat] /\ h[{}] = 0
        OBVIOUS
    <2>3. Sums(h, w, 0)
        BY <2>1, <2>2 DEF Sums
    <2> QED BY <2>3
<1>2. ASSUME NEW m \in Nat, m \in M PROVE m + 1 \in M
    <2>1. SUFFICES ASSUME m + 1 <= n PROVE \E h : Sums(h, w, m + 1)
        OBVIOUS
    <2>2. PICK h : Sums(h, w, m)
        BY <1>2, <2>1
    <2> DEFINE g == [s \in SUBSET (1..(m + 1)) |->
                        h[s \ {m + 1}] + IF m + 1 \in s THEN w[m + 1] ELSE 0]
    <2>3. w[m + 1] \in Nat /\ \A x \in 1..(m + 1) : w[x] \in Nat
        BY <2>1
    <2>4. ASSUME NEW s \in SUBSET (1..(m + 1))
          PROVE  s \ {m + 1} \in SUBSET (1..m) /\ h[s \ {m + 1}] \in Nat
        <3>1. s \ {m + 1} \in SUBSET (1..m)
            OBVIOUS
        <3> QED BY <3>1, <2>2 DEF Sums
    <2>5. g \in [SUBSET (1..(m + 1)) -> Nat]
        <3>1. ASSUME NEW s \in SUBSET (1..(m + 1))
              PROVE  h[s \ {m + 1}] + (IF m + 1 \in s THEN w[m + 1] ELSE 0) \in Nat
            <4>1. h[s \ {m + 1}] \in Nat
                BY <2>4
            <4>2. (IF m + 1 \in s THEN w[m + 1] ELSE 0) \in Nat
                BY <2>3
            <4> QED BY <4>1, <4>2
        <3> QED BY <3>1
    <2>6. g[{}] = 0
        <3>1. {} \ {m + 1} = {}
            OBVIOUS
        <3> QED BY <3>1, <2>2 DEF Sums
    <2>7. ASSUME NEW s \in SUBSET (1..(m + 1)), NEW x \in s
          PROVE  g[s] = w[x] + g[s \ {x}]
        <3>1. s \ {x} \in SUBSET (1..(m + 1)) /\ x \in 1..(m + 1)
            OBVIOUS
        <3>2. CASE x = m + 1
            <4>1. (s \ {x}) \ {m + 1} = s \ {m + 1} /\ m + 1 \notin s \ {x} /\ m + 1 \in s
                BY <3>2
            <4>2. g[s] = h[s \ {m + 1}] + w[m + 1] /\ g[s \ {x}] = h[s \ {m + 1}] + 0
                BY <3>1, <4>1
            <4>3. h[s \ {m + 1}] \in Nat /\ w[m + 1] \in Nat
                BY <2>3, <2>4
            <4> HIDE DEF g
            <4> QED BY <4>2, <4>3, <3>2
        <3>3. CASE x # m + 1
            <4>1. (s \ {x}) \ {m + 1} = (s \ {m + 1}) \ {x} /\ x \in s \ {m + 1}
                BY <3>3
            <4>2. h[s \ {m + 1}] = w[x] + h[(s \ {m + 1}) \ {x}]
                BY <2>2, <2>4, <4>1 DEF Sums
            <4>3. m + 1 \in s \ {x} <=> m + 1 \in s
                BY <3>3
            <4> DEFINE last == IF m + 1 \in s THEN w[m + 1] ELSE 0
            <4>4. g[s] = h[s \ {m + 1}] + last /\ g[s \ {x}] = h[(s \ {m + 1}) \ {x}] + last
                BY <3>1, <4>1, <4>3
            <4>5. last \in Nat /\ w[x] \in Nat /\ h[(s \ {m + 1}) \ {x}] \in Nat
                BY <2>3, <2>4, <3>1, <4>1
            <4> QED BY <4>2, <4>4, <4>5
        <3> QED BY <3>2, <3>3
    <2> HIDE DEF g
    <2>8. Sums(g, w, m + 1)
        BY <2>5, <2>6, <2>7 DEF Sums
    <2> QED BY <2>8
<1>3. Nat \subseteq M
    BY <1>1, <1>2, SetInduction
<1> QED BY <1>3

\* The recursive function that MapThenSumSet is defined with, over 1..n.
Iterates(g, w, n) ==
    /\ g[{}] = 0
    /\ \A s \in SUBSET (1..n) : s # {} =>
        \E x \in s : g[s] = w[x] + g[s \ {x}]

\* A set of numbers up to n is finite.
LEMMA FiniteNumbers ==
    ASSUME NEW n \in Nat, NEW r \in SUBSET (1..n)
    PROVE  IsFiniteSet(r) /\ Cardinality(r) \in Nat
<1>1. IsFiniteSet(1..n)
    BY FS_Interval
<1>2. IsFiniteSet(r)
    BY <1>1, FS_Subset
<1> QED BY <1>2, FS_CardinalityType

\* A set of one element more than k is not empty, and has k when one is taken out.
LEMMA OneFewer ==
    ASSUME NEW r, IsFiniteSet(r), NEW k \in Nat, Cardinality(r) = k + 1
    PROVE  r # {} /\ \A x \in r : Cardinality(r \ {x}) = k
<1>1. r # {}
    BY FS_EmptySet
<1>2. ASSUME NEW x \in r PROVE Cardinality(r \ {x}) = k
    BY FS_RemoveElement
<1> QED BY <1>1, <1>2

\* Such a function gives the sums, whatever the order it takes the numbers in.
LEMMA SumsOnly ==
    ASSUME NEW n \in Nat, NEW m \in Nat, m <= n, NEW w, NEW h, Sums(h, w, n),
           NEW g, Iterates(g, w, m)
    PROVE  g[1..m] = h[1..m]
<1> DEFINE K == {k \in Nat : \A s \in SUBSET (1..m) : Cardinality(s) = k => g[s] = h[s]}
<1>1. \A s \in SUBSET (1..m) : IsFiniteSet(s) /\ Cardinality(s) \in Nat
    BY FiniteNumbers
<1>2. 0 \in K
    <2>1. \A s \in SUBSET (1..m) : Cardinality(s) = 0 => s = {}
        BY <1>1, FS_EmptySet
    <2> QED BY <2>1 DEF Sums, Iterates
<1>3. ASSUME NEW k \in Nat, k \in K PROVE k + 1 \in K
    <2>1. ASSUME NEW s \in SUBSET (1..m), Cardinality(s) = k + 1 PROVE g[s] = h[s]
        <3>1. s # {}
            BY <2>1, FS_EmptySet
        <3>2. PICK x \in s : g[s] = w[x] + g[s \ {x}]
            BY <3>1 DEF Iterates
        <3>3. s \ {x} \in SUBSET (1..m) /\ Cardinality(s \ {x}) = k
            <4>1. IsFiniteSet(s)
                BY <1>1, <2>1
            <4>2. Cardinality(s \ {x}) = k
                BY <2>1, <4>1, OneFewer
            <4>3. s \ {x} \in SUBSET (1..m)
                BY <2>1
            <4> QED BY <4>2, <4>3
        <3>4. g[s \ {x}] = h[s \ {x}]
            BY <1>3, <3>3
        <3>5. s \in SUBSET (1..n)
            BY <2>1
        <3> QED BY <3>2, <3>4, <3>5 DEF Sums
    <2> QED BY <2>1
<1>4. Nat \subseteq K
    BY <1>2, <1>3, SetInduction
<1> QED BY <1>1, <1>4

LEMMA SumsMonotonic ==
    ASSUME NEW n \in Nat, NEW w \in [1..n -> Nat], NEW h, Sums(h, w, n), NEW s \in SUBSET (1..n)
    PROVE  h[s] \in Nat /\ h[s] <= h[1..n]
<1> DEFINE without(r) == (1..n) \ r
           K == {k \in Nat : \A r \in SUBSET (1..n) : Cardinality(r) = k => h[without(r)] <= h[1..n]}
<1>1. \A r \in SUBSET (1..n) : h[r] \in Nat
    BY DEF Sums
<1>2. \A r \in SUBSET (1..n) : IsFiniteSet(r) /\ Cardinality(r) \in Nat
    BY FiniteNumbers
<1>3. \A r \in SUBSET (1..n) : without(r) \in SUBSET (1..n)
    OBVIOUS
<1>4. 0 \in K
    <2>1. ASSUME NEW r \in SUBSET (1..n), Cardinality(r) = 0 PROVE h[without(r)] <= h[1..n]
        <3>1. r = {}
            BY <1>2, <2>1, FS_EmptySet
        <3>2. without(r) = 1..n
            BY <3>1
        <3> HIDE DEF without
        <3> QED BY <1>1, <1>3, <3>2
    <2> HIDE DEF without
    <2> QED BY <2>1
<1>5. ASSUME NEW k \in Nat, k \in K PROVE k + 1 \in K
    <2>1. ASSUME NEW r \in SUBSET (1..n), Cardinality(r) = k + 1 PROVE h[without(r)] <= h[1..n]
        <3> HIDE DEF K, without
        <3>1. r # {}
            BY <2>1, FS_EmptySet
        <3>2. PICK x \in r : TRUE
            BY <3>1
        <3> DEFINE u == r \ {x}
        <3>3. u \in SUBSET (1..n) /\ Cardinality(u) = k
            BY <1>2, <2>1, <3>2, FS_RemoveElement
        <3>4. x \in without(u) /\ without(u) \ {x} = without(r)
            BY <3>2 DEF without
        <3> HIDE DEF u
        <3>5. h[without(u)] <= h[1..n]
            BY <1>5, <3>3 DEF K
        <3>6. h[without(u)] = w[x] + h[without(r)] /\ w[x] \in Nat
            <4>1. without(u) \in SUBSET (1..n)
                BY <1>3, <3>3
            <4>2. h[without(u)] = w[x] + h[without(u) \ {x}]
                BY <3>4, <4>1 DEF Sums
            <4>3. x \in 1..n
                BY <3>4, <4>1
            <4> QED BY <3>4, <4>2, <4>3
        <3>7. h[without(u)] \in Nat /\ h[without(r)] \in Nat /\ h[1..n] \in Nat
            BY <1>1, <1>3, <3>3
        <3> QED BY <3>5, <3>6, <3>7
    <2> HIDE DEF without
    <2> QED BY <2>1
<1>6. Nat \subseteq K
    <2> HIDE DEF K
    <2> QED BY <1>4, <1>5, SetInduction
<1>7. Cardinality(without(s)) \in K /\ without(without(s)) = s
    BY <1>2, <1>3, <1>6
<1>8. \A r \in SUBSET (1..n) : Cardinality(r) \in K => h[without(r)] <= h[1..n]
    OBVIOUS
<1> HIDE DEF K, without
<1> QED BY <1>1, <1>3, <1>7, <1>8

\* MapThenSumSet gives the sums.
LEMMA SumIs ==
    ASSUME NEW n \in Nat, NEW w \in [1..n -> Nat], NEW h, Sums(h, w, n), NEW s \in SUBSET (1..n)
    PROVE  MapThenSumSet(LAMBDA i : w[i], s) = h[s]
<1> DEFINE g == CHOOSE g : g = [r \in SUBSET s |->
                    IF r = {} THEN 0
                    ELSE LET x == CHOOSE x \in r : TRUE IN w[x] + g[r \ {x}]]
           f == [r \in SUBSET s |-> h[r]]
<1>1. MapThenSumSet(LAMBDA i : w[i], s) = g[s]
    BY DEF MapThenSumSet, MapThenFoldSet
<1>2. ASSUME NEW r \in SUBSET s, NEW x \in r
      PROVE  h[r] = w[x] + h[r \ {x}] /\ h[r \ {x}] = f[r \ {x}]
    <2>1. r \in SUBSET (1..n) /\ r \ {x} \in SUBSET s
        OBVIOUS
    <2> QED BY <2>1 DEF Sums
<1>3. f = [r \in SUBSET s |->
              IF r = {} THEN 0 ELSE LET x == CHOOSE x \in r : TRUE IN w[x] + f[r \ {x}]]
    <2>1. ASSUME NEW r \in SUBSET s
          PROVE  h[r] = IF r = {} THEN 0
                        ELSE LET x == CHOOSE x \in r : TRUE IN w[x] + f[r \ {x}]
        <3>1. CASE r = {}
            BY <3>1 DEF Sums
        <3>2. CASE r # {}
            <4>1. (CHOOSE x \in r : TRUE) \in r
                BY <3>2
            <4> HIDE DEF f
            <4> QED BY <1>2, <3>2, <4>1
        <3> QED BY <3>1, <3>2
    <2> QED BY <2>1, Zenon
<1>4. g = [r \in SUBSET s |->
              IF r = {} THEN 0 ELSE LET x == CHOOSE x \in r : TRUE IN w[x] + g[r \ {x}]]
    BY <1>3, Zenon
<1> HIDE DEF g, f
<1> DEFINE K == {k \in Nat : \A r \in SUBSET s : Cardinality(r) = k => g[r] = h[r]}
<1>5. \A r \in SUBSET s : IsFiniteSet(r) /\ Cardinality(r) \in Nat
    <2>1. \A r \in SUBSET s : r \in SUBSET (1..n)
        OBVIOUS
    <2> QED BY <2>1, FiniteNumbers
<1>6. 0 \in K
    <2>1. ASSUME NEW r \in SUBSET s, Cardinality(r) = 0 PROVE g[r] = h[r]
        <3>1. r = {}
            BY <1>5, <2>1, FS_EmptySet
        <3>2. g[r] = 0
            BY <1>4, <3>1, Zenon
        <3> QED BY <3>1, <3>2 DEF Sums
    <2> QED BY <2>1
<1>7. ASSUME NEW k \in Nat, k \in K PROVE k + 1 \in K
    <2>1. ASSUME NEW r \in SUBSET s, Cardinality(r) = k + 1 PROVE g[r] = h[r]
        <3> HIDE DEF K
        <3>0. IsFiniteSet(r)
            BY <1>5
        <3>1. r # {} /\ \A y \in r : Cardinality(r \ {y}) = k
            BY <2>1, <3>0, OneFewer, Zenon
        <3> DEFINE x == CHOOSE x \in r : TRUE
        <3>2. x \in r
            BY <3>1
        <3>3. g[r] = IF r = {} THEN 0 ELSE w[x] + g[r \ {x}]
            BY <1>4, Zenon
        <3> HIDE DEF x
        <3>4. r \ {x} \in SUBSET s /\ Cardinality(r \ {x}) = k
            BY <3>1, <3>2
        <3>5. g[r \ {x}] = h[r \ {x}]
            BY <1>7, <3>4 DEF K
        <3> QED BY <1>2, <3>1, <3>2, <3>3, <3>5
    <2> QED BY <2>1
<1>8. Nat \subseteq K
    <2> HIDE DEF K
    <2> QED BY <1>6, <1>7, SetInduction
<1> QED BY <1>1, <1>5, <1>8

-----------------------------------------------------------------------------
(* Sorting                                                                 *)

\* R orders 1..n strictly and totally.
Orders(R, n) ==
    /\ \A i \in 1..n : <<i, i>> \notin R
    /\ \A i, j, k \in 1..n : <<i, j>> \in R /\ <<j, k>> \in R => <<i, k>> \in R
    /\ \A i, j \in 1..n : i = j \/ <<i, j>> \in R \/ <<j, i>> \in R

Preceding(R, n, i) == {j \in 1..n : <<j, i>> \in R}

\* The places after as many as precede: each of 1..n is that of one.
LEMMA RanksArePlaces ==
    ASSUME NEW n \in Nat, NEW R, Orders(R, n),
           NEW r, r = [i \in 1..n |-> Cardinality(Preceding(R, n, i)) + 1]
    PROVE  /\ r \in Bijection(1..n, 1..n)
           /\ \A i, j \in 1..n : r[i] < r[j] => <<i, j>> \in R
<1>1. IsFiniteSet(1..n) /\ Cardinality(1..n) = n
    BY FS_Interval
<1>2. ASSUME NEW i \in 1..n
      PROVE  /\ IsFiniteSet(Preceding(R, n, i))
             /\ Cardinality(Preceding(R, n, i)) \in 0..(n - 1)
    <2>1. Preceding(R, n, i) \in SUBSET (1..n)
        BY DEF Preceding
    <2>2. i \in 1..n /\ i \notin Preceding(R, n, i)
        BY DEF Preceding, Orders
    <2>3. IsFiniteSet(Preceding(R, n, i)) /\ Cardinality(Preceding(R, n, i)) \in Nat
        BY <1>1, <2>1, FS_Subset, FS_CardinalityType
    <2>4. Cardinality(Preceding(R, n, i)) <= n /\ Cardinality(Preceding(R, n, i)) # n
        BY <1>1, <2>1, <2>2, FS_Subset
    <2> QED BY <2>3, <2>4
<1>3. r \in [1..n -> 1..n]
    <2>1. ASSUME NEW i \in 1..n PROVE Cardinality(Preceding(R, n, i)) + 1 \in 1..n
        <3>1. Cardinality(Preceding(R, n, i)) \in 0..(n - 1)
            BY <1>2
        <3> HIDE DEF Preceding
        <3> QED BY <3>1
    <2> QED BY <2>1
<1>4. ASSUME NEW i \in 1..n, NEW j \in 1..n, <<i, j>> \in R PROVE r[i] < r[j]
    <2>1. i \in Preceding(R, n, j) /\ i \notin Preceding(R, n, i)
        BY <1>4 DEF Preceding, Orders
    <2>2. Preceding(R, n, i) \in SUBSET Preceding(R, n, j)
        BY <1>4 DEF Preceding, Orders
    <2>3. /\ Cardinality(Preceding(R, n, i)) <= Cardinality(Preceding(R, n, j))
          /\ Cardinality(Preceding(R, n, i)) # Cardinality(Preceding(R, n, j))
        BY <1>2, <2>1, <2>2, FS_Subset
    <2>4. Cardinality(Preceding(R, n, i)) \in Nat /\ Cardinality(Preceding(R, n, j)) \in Nat
        BY <1>2
    <2> QED BY <2>3, <2>4
<1>5. \A i, j \in 1..n : r[i] = r[j] => i = j
    <2>1. ASSUME NEW i \in 1..n, NEW j \in 1..n, r[i] = r[j] PROVE i = j
        <3>1. r[i] \in Int /\ r[j] \in Int
            BY <1>3
        <3>2. i = j \/ <<i, j>> \in R \/ <<j, i>> \in R
            BY DEF Orders
        <3>3. ~(r[i] < r[j]) /\ ~(r[j] < r[i])
            BY <2>1, <3>1
        <3> QED BY <1>4, <3>2, <3>3
    <2> QED BY <2>1
<1>6. r \in Injection(1..n, 1..n)
    BY <1>3, <1>5 DEF Injection, IsInjective
<1>7. r \in Surjection(1..n, 1..n)
    BY <1>1, <1>6, FS_Injection
<1>8. \A i, j \in 1..n : r[i] < r[j] => <<i, j>> \in R
    <2>1. ASSUME NEW i \in 1..n, NEW j \in 1..n, r[i] < r[j] PROVE <<i, j>> \in R
        <3>1. r[i] \in Int /\ r[j] \in Int
            BY <1>3
        <3>2. i = j \/ <<i, j>> \in R \/ <<j, i>> \in R
            BY DEF Orders
        <3>3. i # j /\ ~(r[j] < r[i])
            BY <2>1, <3>1
        <3> QED BY <1>4, <3>2, <3>3
    <2> QED BY <2>1
<1> QED BY <1>6, <1>7, <1>8 DEF Bijection

\* How often x is among the first n.
Times(s, n, x) == Cardinality({k \in 1..n : s[k] = x})

\* A sequence has each element as often as one with its elements in other places.
LEMMA SameElements ==
    ASSUME NEW n \in Nat, NEW p \in Bijection(1..n, 1..n), NEW s, NEW t, NEW x,
           \A k \in 1..n : t[k] = s[p[k]]
    PROVE  Times(t, n, x) = Times(s, n, x)
<1> DEFINE K == {k \in 1..n : t[k] = x}
           I == {i \in 1..n : s[i] = x}
           q == [k \in K |-> p[k]]
<1>1. /\ p \in [1..n -> 1..n]
      /\ \A j, k \in 1..n : p[j] = p[k] => j = k
      /\ \A i \in 1..n : \E k \in 1..n : p[k] = i
    BY DEF Bijection, Injection, Surjection, IsInjective
<1>2. q \in [K -> I]
    BY <1>1
<1>3. \A j, k \in K : q[j] = q[k] => j = k
    BY <1>1
<1>4. ASSUME NEW i \in I PROVE \E k \in K : q[k] = i
    <2>1. PICK k \in 1..n : p[k] = i
        BY <1>1
    <2>2. k \in K
        BY <2>1
    <2> QED BY <2>1, <2>2
<1>5. q \in Bijection(K, I)
    BY <1>2, <1>3, <1>4 DEF Bijection, Injection, Surjection, IsInjective
<1>6. IsFiniteSet(K)
    <2>1. K \in SUBSET (1..n)
        OBVIOUS
    <2> HIDE DEF K
    <2> QED BY <2>1, FiniteNumbers
<1>7. ExistsBijection(K, I)
    BY <1>5 DEF ExistsBijection
<1> QED BY <1>6, <1>7, FS_Bijection DEF Times
=============================================================================
