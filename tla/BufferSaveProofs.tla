--------------------------- MODULE BufferSaveProofs ---------------------------
(***************************************************************************)
(* Proofs about BufferSave, for any tabs, requests and edits: types and    *)
(* the working copy under every fault the module has, and what saving over *)
(* the proxy alone promises, down to the checked store it implements.      *)
(***************************************************************************)
EXTENDS BufferSave, SequenceTheorems, FiniteSetTheorems, TLAPS

Contents == Seq(Edits)
Versions == [scheme : {"zed", "ssh"}, n : Nat, text : Contents]

Requests ==
    [pc : Steps \cup Answers, tab : Tabs, kind : Kinds, ver : Versions, batches : Contents,
     full : Contents, text : Contents, awaited : BOOLEAN]

TabTypes ==
    /\ base \in [Tabs -> Contents] /\ cur \in [Tabs -> Contents]
    /\ pend \in [Tabs -> Contents] /\ known \in [Tabs -> Contents]
    /\ ver \in [Tabs -> Versions] /\ conflict \in [Tabs -> BOOLEAN]

\* The one that holds the client is the one that is between its first step and its last.
JobTypes ==
    /\ job \in [Jobs -> Requests \cup {Free}]
    /\ lock \in Jobs \cup {NoJob}
    /\ \A j \in Jobs : job[j].pc \in {"update", "store"} <=> lock = j

StoreTypes ==
    /\ buf \in [n : Nat \ {0}, text : Contents, dirty : BOOLEAN]
    /\ cached \in [n : Nat, text : Contents]
    /\ file \in Contents
    /\ landed \subseteq Edits /\ author \subseteq Tabs /\ raced \subseteq Tabs
    /\ stale \in BOOLEAN

SpentTypes ==
    /\ spent \in [edits : Nat, outside : Nat, faults : Nat, lost : Nat, reloads : Nat]
    /\ spent.edits <= MaxEdits /\ spent.outside <= MaxOutside /\ spent.faults <= MaxFaults
    /\ spent.lost <= MaxLost /\ spent.reloads <= MaxReloads

Types == TabTypes /\ JobTypes /\ StoreTypes /\ SpentTypes

-----------------------------------------------------------------------------
(* Sequences                                                               *)

LEMMA Together ==
    ASSUME NEW S, NEW s \in Seq(S), NEW t \in Seq(S), NEW e \in S
    PROVE  /\ s \o t \in Seq(S) /\ Append(s, e) \in Seq(S) /\ <<>> \in Seq(S)
           /\ s \o <<>> = s /\ (s \o t) \o <<e>> = s \o Append(t, e)
           /\ Append(s \o t, e) = s \o Append(t, e)
<1>1. s \o t \in Seq(S) /\ Append(s, e) \in Seq(S) /\ <<>> \in Seq(S) /\ <<e>> \in Seq(S)
    OBVIOUS
<1>2. s \o <<>> = s
    BY ConcatEmptySeq
<1>3. (s \o t) \o <<e>> = s \o Append(t, e)
    <2>1. Append(t, e) = t \o <<e>>
        BY AppendIsConcat
    <2>2. (s \o t) \o <<e>> = s \o (t \o <<e>>)
        BY <1>1, ConcatAssociative
    <2> QED BY <2>1, <2>2
<1>4. Append(s \o t, e) = s \o Append(t, e)
    BY <1>1, <1>3, AppendIsConcat
<1> QED BY <1>1, <1>2, <1>3, <1>4

LEMMA OccursIn ==
    ASSUME NEW S, NEW s \in Seq(S)
    PROVE  Occurs(s) \subseteq S
BY DEF Occurs

\* The rank of an index among those kept is a bijection to 1..n: every place of the
\* result has an index.
LEMMA BeyondType ==
    ASSUME NEW S, NEW s \in Seq(S), NEW T
    PROVE  Beyond(s, T) \in Seq(S)
<1> DEFINE kept == {i \in DOMAIN s : s[i] \notin T}
           upto(i) == {h \in kept : h <= i}
           rank == [i \in kept |-> Cardinality(upto(i))]
           n == Cardinality(kept)
<1>1. kept \subseteq 1..Len(s) /\ Len(s) \in Nat /\ \A i \in kept : i \in Nat /\ s[i] \in S
    OBVIOUS
<1>2. IsFiniteSet(kept) /\ n \in Nat
    <2>1. IsFiniteSet(1..Len(s))
        BY <1>1, FS_Interval
    <2>2. IsFiniteSet(kept)
        BY <1>1, <2>1, FS_Subset
    <2> QED BY <2>2, FS_CardinalityType
<1>3. \A i \in kept : IsFiniteSet(upto(i)) /\ rank[i] \in 1..n
    <2>1. SUFFICES ASSUME NEW i \in kept
                   PROVE  IsFiniteSet(upto(i)) /\ rank[i] \in 1..n
        OBVIOUS
    <2>2. upto(i) \subseteq kept /\ i \in upto(i)
        BY <1>1
    <2>3. IsFiniteSet(upto(i)) /\ Cardinality(upto(i)) <= n
        BY <1>2, <2>2, FS_Subset
    <2>4. Cardinality(upto(i)) \in Nat /\ Cardinality(upto(i)) # 0
        BY <2>2, <2>3, FS_CardinalityType, FS_EmptySet
    <2> QED BY <1>2, <2>3, <2>4
<1>4. \A i, j \in kept : i < j => rank[i] # rank[j]
    <2>1. SUFFICES ASSUME NEW i \in kept, NEW j \in kept, i < j, rank[i] = rank[j]
                   PROVE  FALSE
        OBVIOUS
    <2>2. upto(i) \subseteq upto(j) /\ j \in upto(j) /\ j \notin upto(i)
        BY <1>1, <2>1
    <2>3. upto(i) = upto(j)
        BY <1>3, <2>1, <2>2, FS_Subset
    <2> QED BY <2>2, <2>3
<1>5. rank \in Injection(kept, 1..n)
    <2>1. rank \in [kept -> 1..n]
        BY <1>3
    <2>2. ASSUME NEW i \in kept, NEW j \in kept, rank[i] = rank[j]
          PROVE  i = j
        <3>1. i \in Nat /\ j \in Nat
            BY <1>1
        <3> HIDE DEF kept, rank
        <3>2. ~ (i < j) /\ ~ (j < i)
            BY <1>4, <2>2
        <3> QED BY <3>1, <3>2
    <2> QED BY <2>1, <2>2 DEF Injection, IsInjective
<1>6. IsFiniteSet(1..n) /\ Cardinality(1..n) = n
    BY <1>2, FS_Interval
<1>7. rank \in Surjection(kept, 1..n)
    BY <1>5, <1>6, FS_Injection
<1>8. \A k \in 1..n : \E i \in kept : Cardinality(upto(i)) = k
    BY <1>7 DEF Surjection
<1>9. \A k \in 1..n : s[CHOOSE i \in kept : Cardinality(upto(i)) = k] \in S
    BY <1>1, <1>8
<1>10. Beyond(s, T) = [k \in 1..n |-> s[CHOOSE i \in kept : Cardinality(upto(i)) = k]]
    BY DEF Beyond
<1> HIDE DEF kept, upto, rank, n
<1>11. Beyond(s, T) \in [1..n -> S]
    BY <1>9, <1>10
<1> QED BY <1>2, <1>11, SeqDef

-----------------------------------------------------------------------------
(* Types                                                                   *)

\* A request that is at some step is one, and keeps its fields as it is answered.
LEMMA Underway ==
    ASSUME JobTypes, NEW j \in Jobs
    PROVE  /\ job[j] # Free <=> job[j].pc \in Steps \cup Answers
           /\ job[j] # Free => job[j] \in Requests
           /\ job[j].pc \in Steps \cup Answers => job[j] \in Requests
<1>1. job[j] \in Requests \/ job[j] = Free
    BY DEF JobTypes
<1>2. Free.pc \notin Steps \cup Answers
    BY DEF Free, Steps, Answers
<1>3. ASSUME job[j] \in Requests PROVE job[j].pc \in Steps \cup Answers
    BY <1>3 DEF Requests
<1> QED BY <1>1, <1>2, <1>3

LEMMA AnswerTypes ==
    ASSUME JobTypes, NEW j \in Jobs, job[j] \in Requests, NEW pc \in Steps \cup Answers,
           Answer(j, pc)
    PROVE  /\ job' \in [Jobs -> Requests \cup {Free}] /\ job'[j].pc = pc
           /\ job'[j] = [job[j] EXCEPT !.pc = pc]
           /\ \A k \in Jobs \ {j} : job'[k] = job[k]
<1>1. job' = [job EXCEPT ![j] = [job[j] EXCEPT !.pc = pc]]
    BY DEF Answer
<1>2. [job[j] EXCEPT !.pc = pc] \in Requests
    BY DEF Requests
<1>3. [job[j] EXCEPT !.pc = pc].pc = pc
    BY DEF Requests
<1> QED BY <1>1, <1>2, <1>3 DEF JobTypes

LEMMA CopyTypes == ASSUME StoreTypes PROVE Copy \in [n : Nat, text : Contents]
<1>1. [n |-> buf.n, text |-> buf.text] \in [n : Nat, text : Contents]
    BY DEF StoreTypes
<1> QED BY <1>1 DEF Copy, StoreTypes

LEMMA RequestTypes ==
    ASSUME TabTypes, NEW t \in Tabs, NEW kind \in Kinds
    PROVE  Request(t, kind) \in Requests
BY DEF TabTypes, Request, Requests, Steps, Contents

LEMMA OutcomeTypes ==
    ASSUME NEW j \in Jobs, job[j] \in Requests
    PROVE  Outcome(j) \in Contents
<1>1. job[j].full \in Seq(Edits) /\ job[j].text \in Seq(Edits) /\ job[j].batches \in Seq(Edits)
    BY DEF Requests, Contents
<1>2. job[j].text \o job[j].batches \in Seq(Edits)
    BY <1>1, ConcatProperties
<1> QED BY <1>1, <1>2 DEF Outcome, Contents

\* One more of an event that is bounded.
LEMMA SpendTypes ==
    ASSUME SpentTypes, NEW b \in {"edits", "outside", "faults", "lost", "reloads"}, Spend(b)
    PROVE  /\ SpentTypes'
           /\ spent'[b] = spent[b] + 1 /\ spent'[b] <= Bound[b]
<1>1. /\ Bound.edits = MaxEdits /\ Bound.outside = MaxOutside /\ Bound.faults = MaxFaults
      /\ Bound.lost = MaxLost /\ Bound.reloads = MaxReloads
    BY DEF Bound
<1> QED BY <1>1, SaveAssumption DEF SpentTypes, Spend

LEMMA InitTypes == ASSUME Init PROVE Types
<1>1. /\ <<>> \in Contents /\ ZedVersion(1) \in Versions /\ SshVersion(<<>>) \in Versions
      /\ NoCopy \in [n : Nat, text : Contents]
    BY DEF Contents, ZedVersion, SshVersion, NoCopy, Versions
<1>2. TabTypes
    BY <1>1 DEF Init, TabTypes
<1>3. JobTypes
    <2>1. \A j \in Jobs : job[j] = Free /\ job[j].pc = "free" /\ lock # j
        BY SaveAssumption DEF Init, Free
    <2> QED BY <2>1 DEF Init, JobTypes
<1>4. StoreTypes
    <2>1. cached \in [n : Nat, text : Contents]
        BY <1>1 DEF Init
    <2>2. buf \in [n : Nat \ {0}, text : Contents, dirty : BOOLEAN] /\ file \in Contents
        BY <1>1 DEF Init
    <2> QED BY <2>1, <2>2 DEF Init, StoreTypes
<1>5. SpentTypes
    BY SaveAssumption DEF Init, SpentTypes, Bound
<1> QED BY <1>2, <1>3, <1>4, <1>5 DEF Types

LEMMA TypeTypes == ASSUME Types, NEW t \in Tabs, Type(t) PROVE Types'
<1>1. SpentTypes' /\ spent'.edits \in 1..MaxEdits
    BY SpendTypes DEF Types, Type, SpentTypes, Bound
<1>2. spent'.edits \in Edits
    BY <1>1, SaveAssumption DEF Edits
<1>3. TabTypes'
    BY <1>2 DEF Types, TabTypes, Type, Contents
<1>4. JobTypes' /\ StoreTypes'
    BY DEF Types, JobTypes, StoreTypes, Type
<1> QED BY <1>1, <1>3, <1>4 DEF Types

LEMMA StartSaveTypes ==
    ASSUME Types, NEW t \in Tabs, NEW j \in Jobs, StartSave(t, j)
    PROVE  Types'
<1>1. Request(t, "save") \in Requests /\ Request(t, "save").pc = "sent"
    BY RequestTypes DEF Types, Kinds, Request
<1>2. job[j].pc = "free"
    BY DEF StartSave, Free
<1>3. JobTypes'
    BY <1>1, <1>2 DEF Types, JobTypes, StartSave
<1>4. TabTypes' /\ StoreTypes' /\ SpentTypes'
    BY DEF Types, TabTypes, StoreTypes, SpentTypes, StartSave, tabVars
<1> QED BY <1>3, <1>4 DEF Types

LEMMA GiveUpTypes ==
    ASSUME Types, NEW j \in Jobs, NEW k \in Jobs, GiveUp(j, k)
    PROVE  Types'
<1>1. job[j] \in Requests /\ j # k
    BY Underway DEF Types, GiveUp
<1>2. /\ Request(job[j].tab, "put") \in Requests /\ Request(job[j].tab, "put").pc = "sent"
    BY <1>1, RequestTypes DEF Types, Kinds, Request, Requests
<1>3. [job[j] EXCEPT !.awaited = FALSE] \in Requests
      /\ [job[j] EXCEPT !.awaited = FALSE].pc = job[j].pc
    BY <1>1 DEF Requests
<1>4. job[k].pc = "free"
    BY DEF GiveUp, Free
<1>5. job' = [[job EXCEPT ![j] = [job[j] EXCEPT !.awaited = FALSE]]
                   EXCEPT ![k] = Request(job[j].tab, "put")]
    BY DEF GiveUp
<1>6. JobTypes'
    BY <1>1, <1>2, <1>3, <1>4, <1>5 DEF Types, JobTypes, GiveUp
<1>7. TabTypes' /\ StoreTypes' /\ SpentTypes'
    BY SpendTypes DEF Types, TabTypes, StoreTypes, GiveUp, tabVars
<1> QED BY <1>6, <1>7 DEF Types

LEMMA DeliverTypes == ASSUME Types, NEW j \in Jobs, Deliver(j) PROVE Types'
<1>1. job[j] \in Requests /\ job[j].pc \in Answers
    BY Underway DEF Types, Deliver
<1>2. job[j].pc \notin {"update", "store"} /\ Free.pc \notin {"update", "store"}
    BY <1>1 DEF Answers, Free
<1>3. JobTypes'
    BY <1>1, <1>2 DEF Types, JobTypes, Deliver
<1>4. TabTypes' /\ raced' \subseteq Tabs
    <2>1. /\ job[j].tab \in Tabs /\ job[j].full \in Contents /\ job[j].ver \in Versions
          /\ <<>> \in Contents /\ known' = known
        BY <1>1 DEF Requests, Contents, Deliver
    <2>2. CASE HandleSaved(j)
        BY <2>1, <2>2 DEF Types, TabTypes, StoreTypes, HandleSaved, MarkSaved
    <2>3. CASE HandleConflict(j)
        BY <2>1, <2>3 DEF Types, TabTypes, StoreTypes, HandleConflict
    <2>4. CASE UNCHANGED <<tabVars, raced>>
        BY <2>1, <2>4 DEF Types, TabTypes, StoreTypes, tabVars
    <2> QED BY <2>2, <2>3, <2>4 DEF Deliver
<1>5. StoreTypes' /\ SpentTypes'
    BY <1>4 DEF Types, StoreTypes, SpentTypes, Deliver
<1> QED BY <1>3, <1>4, <1>5 DEF Types

LEMMA ReopenTypes ==
    ASSUME Types, NEW t \in Tabs, NEW version \in Versions, NEW content \in Contents,
           Reopen(t, version, content)
    PROVE  TabTypes' /\ raced' \subseteq Tabs
BY DEF Types, TabTypes, StoreTypes, Reopen, Contents

LEMMA OpenTypes ==
    ASSUME Types, NEW t \in Tabs, OpenByProxy(t) \/ OpenByTransport(t)
    PROVE  Types'
<1>1. Copy.n \in Nat /\ Copy.text \in Contents /\ file \in Contents
    BY CopyTypes DEF Types, StoreTypes
<1>2. ZedVersion(Copy.n) \in Versions /\ SshVersion(file) \in Versions
    BY <1>1 DEF ZedVersion, SshVersion, Versions, Contents
<1>3. TabTypes' /\ raced' \subseteq Tabs
    BY <1>1, <1>2, ReopenTypes DEF OpenByProxy, OpenByTransport
<1>4. cached' \in [n : Nat, text : Contents]
    BY CopyTypes DEF Types, StoreTypes, OpenByProxy, OpenByTransport
<1>5. JobTypes' /\ StoreTypes' /\ SpentTypes'
    BY <1>3, <1>4 DEF Types, JobTypes, StoreTypes, SpentTypes, OpenByProxy, OpenByTransport
<1> QED BY <1>3, <1>5 DEF Types

\* A request that is answered or goes on without the client leaves or keeps it as it was.
LEMMA CheckByProxyTypes == ASSUME Types, NEW j \in Jobs, CheckByProxy(j) PROVE Types'
<1>1. job[j] \in Requests /\ job[j].pc = "sent" /\ lock = NoJob /\ NoJob \notin Jobs
    BY Underway, SaveAssumption DEF Types, CheckByProxy, Steps
<1>2. \A k \in Jobs : job[k].pc \notin {"update", "store"}
    BY <1>1 DEF Types, JobTypes
<1>3. Copy.text \in Contents /\ cached' \in [n : Nat, text : Contents]
    BY CopyTypes DEF Types, CheckByProxy
<1>4. CASE lock' = lock /\ \E pc \in {"conflict", "error"} : Answer(j, pc)
    <2>1. PICK pc \in {"conflict", "error"} : Answer(j, pc)
        BY <1>4
    <2>2. pc \in Steps \cup Answers /\ pc \notin {"update", "store"}
        BY DEF Steps, Answers
    <2>3. JobTypes'
        BY <1>1, <1>2, <1>4, <2>1, <2>2, AnswerTypes DEF Types, JobTypes
    <2> QED BY <1>3, <2>3 DEF Types, TabTypes, StoreTypes, SpentTypes, CheckByProxy, tabVars
<1>5. CASE /\ lock' = j
           /\ job' = [job EXCEPT ![j].text = Copy.text,
                                 ![j].pc = IF job[j].batches = <<>> THEN "store" ELSE "update"]
    <2> DEFINE pc == IF job[j].batches = <<>> THEN "store" ELSE "update"
               new == [job[j] EXCEPT !.text = Copy.text, !.pc = pc]
    <2>1. job' = [job EXCEPT ![j] = new]
        BY <1>5
    <2>2. new \in Requests /\ new.pc \in {"update", "store"}
        BY <1>1, <1>3 DEF Requests, Steps
    <2> HIDE DEF new
    <2>3. JobTypes'
        BY <1>1, <1>2, <1>5, <2>1, <2>2 DEF Types, JobTypes
    <2> QED BY <1>3, <2>3 DEF Types, TabTypes, StoreTypes, SpentTypes, CheckByProxy, tabVars
<1> QED BY <1>4, <1>5 DEF CheckByProxy

LEMMA OpenForPutTypes == ASSUME Types, NEW j \in Jobs, OpenForPut(j) PROVE Types'
<1>1. job[j] \in Requests /\ lock = NoJob /\ NoJob \notin Jobs
    BY Underway, SaveAssumption DEF Types, OpenForPut, Steps
<1>2. \A k \in Jobs : job[k].pc \notin {"update", "store"}
    BY <1>1 DEF Types, JobTypes
<1>3. Copy.text \in Contents /\ cached' \in [n : Nat, text : Contents]
    BY CopyTypes DEF Types, OpenForPut
<1> DEFINE new == [job[j] EXCEPT !.text = Copy.text, !.pc = "update"]
<1>4. job' = [job EXCEPT ![j] = new]
    BY DEF OpenForPut
<1>5. new \in Requests /\ new.pc = "update"
    BY <1>1, <1>3 DEF Requests, Steps
<1> HIDE DEF new
<1>6. JobTypes'
    BY <1>1, <1>2, <1>4, <1>5 DEF Types, JobTypes, OpenForPut
<1> QED BY <1>3, <1>6 DEF Types, TabTypes, StoreTypes, SpentTypes, OpenForPut, tabVars

LEMMA UpdateTypes == ASSUME Types, NEW j \in Jobs, Update(j) PROVE Types'
<1>1. job[j] \in Requests /\ job[j].pc = "update" /\ lock = j
    BY Underway DEF Types, Update, Steps
<1>2. buf.text \in Seq(Edits) /\ job[j].full \in Seq(Edits) /\ job[j].batches \in Seq(Edits)
      /\ job[j].tab \in Tabs
    BY <1>1 DEF Types, StoreTypes, Requests, Contents
<1>3. Updated(j) \in Contents
    <2>1. Beyond(buf.text, Occurs(job[j].text)) \in Seq(Edits)
        BY <1>2, BeyondType
    <2>2. /\ job[j].full \o Beyond(buf.text, Occurs(job[j].text)) \in Seq(Edits)
          /\ buf.text \o job[j].batches \in Seq(Edits)
        BY <1>2, <2>1, ConcatProperties
    <2> QED BY <2>2 DEF Updated, Contents
<1>4. StoreTypes'
    <2>1. Len(job[j].batches) \in Nat /\ buf.n \in Nat \ {0}
        BY <1>2 DEF Types, StoreTypes
    <2>2. buf'.n \in Nat \ {0}
        BY <2>1 DEF Update
    <2> QED BY <1>2, <1>3, <2>1, <2>2 DEF Types, StoreTypes, Update
<1>5. JobTypes'
    BY <1>1, AnswerTypes DEF Types, JobTypes, Update, Steps
<1> QED BY <1>4, <1>5 DEF Types, TabTypes, SpentTypes, Update, tabVars

\* What Told leaves when the client, if it was held, is let go.
LEMMA ToldTypes ==
    ASSUME Types, NEW j \in Jobs, job[j] \in Requests, Release(j),
           NEW version \in Versions, NEW content \in Contents, Told(j, version, content)
    PROVE  JobTypes' /\ known' \in [Tabs -> Contents] /\ landed' \subseteq Edits
<1> DEFINE new == [job[j] EXCEPT !.pc = "saved", !.ver = version]
<1>1. job' = [job EXCEPT ![j] = new]
    BY DEF Told
<1>2. new \in Requests /\ new.pc = "saved"
    BY DEF Requests, Answers
<1> HIDE DEF new
<1>3. JobTypes'
    BY <1>1, <1>2, SaveAssumption DEF Types, JobTypes, Release
<1>4. job[j].tab \in Tabs /\ Occurs(content) \subseteq Edits
    BY OccursIn DEF Requests, Contents
<1> QED BY <1>3, <1>4 DEF Told, Types, TabTypes, StoreTypes

LEMMA StoreStepTypes == ASSUME Types, NEW j \in Jobs, Store(j) PROVE Types'
<1>1. job[j] \in Requests
    BY Underway DEF Types, Store, Steps
<1>2. Outcome(j) \in Contents /\ buf.n \in Nat /\ buf.text \in Contents
    BY <1>1, OutcomeTypes DEF Types, StoreTypes
<1>3. FallbackVersion \in Versions /\ ZedVersion(buf.n) \in Versions
    BY <1>2 DEF FallbackVersion, ZedVersion, Versions, Contents
<1>4. JobTypes' /\ known' \in [Tabs -> Contents] /\ landed' \subseteq Edits
    BY <1>1, <1>2, <1>3, ToldTypes DEF Store
<1>5. StoreTypes'
    BY <1>2, <1>4 DEF Types, StoreTypes, Store, CacheOpenedBuffer
<1> QED BY <1>4, <1>5 DEF Types, TabTypes, SpentTypes, Store, tabVars

LEMMA CheckByTransportTypes == ASSUME Types, NEW j \in Jobs, CheckByTransport(j) PROVE Types'
<1>1. job[j] \in Requests /\ job[j].pc = "sent" /\ lock # j
    BY Underway, SaveAssumption DEF Types, JobTypes, CheckByTransport, Steps
<1>2. CASE \E pc \in {"conflict", "error"} : Answer(j, pc)
    <2>1. PICK pc \in {"conflict", "error"} : Answer(j, pc)
        BY <1>2
    <2>2. pc \in Steps \cup Answers /\ pc \notin {"update", "store"}
        BY DEF Steps, Answers
    <2>3. /\ job' \in [Jobs -> Requests \cup {Free}] /\ job'[j].pc = pc
          /\ \A k \in Jobs \ {j} : job'[k] = job[k]
        BY <1>1, <2>1, <2>2, AnswerTypes DEF Types
    <2>4. JobTypes'
        BY <1>1, <2>2, <2>3 DEF Types, JobTypes, CheckByTransport
    <2> QED BY <2>4 DEF Types, TabTypes, StoreTypes, SpentTypes, CheckByTransport, tabVars
<1>3. CASE job' = [job EXCEPT ![j].text = file, ![j].pc = "write"]
    <2> DEFINE new == [job[j] EXCEPT !.text = file, !.pc = "write"]
    <2>1. job' = [job EXCEPT ![j] = new]
        BY <1>3
    <2>2. new \in Requests /\ new.pc = "write"
        BY <1>1 DEF Types, StoreTypes, Requests, Steps
    <2> HIDE DEF new
    <2>3. JobTypes'
        BY <1>1, <2>1, <2>2 DEF Types, JobTypes, CheckByTransport
    <2> QED BY <2>3 DEF Types, TabTypes, StoreTypes, SpentTypes, CheckByTransport, tabVars
<1> QED BY <1>2, <1>3 DEF CheckByTransport

LEMMA WriteTypes ==
    ASSUME Types, NEW j \in Jobs, Write(j) \/ PutByTransport(j)
    PROVE  Types'
<1>1. job[j] \in Requests
    BY Underway DEF Types, Write, PutByTransport, Steps
<1>2. /\ Outcome(j) \in Contents /\ job[j].full \in Contents /\ job[j].tab \in Tabs
    BY <1>1, OutcomeTypes DEF Requests
<1>3. FallbackVersion \in Versions /\ WrittenVersion(j) \in Versions
    BY <1>2 DEF FallbackVersion, WrittenVersion, SshVersion, Versions, Contents
<1>4. Release(j)
    <2>1. CASE Write(j)
        <3>1. lock # j
            BY <2>1 DEF Types, JobTypes, Write
        <3> QED BY <2>1, <3>1 DEF Write, Release
    <2> QED BY <2>1 DEF PutByTransport
<1>5. JobTypes' /\ known' \in [Tabs -> Contents] /\ landed' \subseteq Edits
    BY <1>1, <1>2, <1>3, <1>4, ToldTypes DEF Write, PutByTransport
<1>6. file' \in Contents /\ author' \subseteq Tabs
    BY <1>2 DEF Write, PutByTransport
<1>7. UNCHANGED <<tabVars, cached, buf, spent, raced, stale>>
    BY DEF Write, PutByTransport
<1> QED BY <1>5, <1>6, <1>7 DEF Types, TabTypes, StoreTypes, SpentTypes, tabVars

LEMMA AfterFailureTypes == \A j \in Jobs : AfterFailure(j) \in {"ssh", "error"}
BY DEF AfterFailure

LEMMA FailTypes == ASSUME Types, NEW j \in Jobs, Fail(j) PROVE Types'
<1>1. job[j] \in Requests
    BY Underway DEF Types, Fail
<1>2. SpentTypes'
    BY SpendTypes DEF Types, Fail
<1>3. AfterFailure(j) \in {"ssh", "error"} /\ AfterFailure(j) \in Steps \cup Answers
    BY AfterFailureTypes DEF Steps, Answers
<1>4. /\ job' \in [Jobs -> Requests \cup {Free}] /\ job'[j].pc = AfterFailure(j)
      /\ \A k \in Jobs \ {j} : job'[k] = job[k]
    BY <1>1, <1>3, AnswerTypes DEF Types, Fail
<1>5. JobTypes'
    BY <1>3, <1>4, SaveAssumption DEF Types, JobTypes, Fail, Release
<1>6. Outcome(j) \in Contents /\ <<>> \in Contents /\ job[j].tab \in Tabs
    BY <1>1, OutcomeTypes DEF Requests, Contents
<1>7. StoreTypes'
    <2>1. landed' = landed /\ raced' = raced /\ cached' = cached /\ stale' = stale
        BY DEF Fail
    <2>2. CASE UNCHANGED <<buf, file, author>>
        BY <2>1, <2>2 DEF Types, StoreTypes
    <2>3. CASE file' = buf.text /\ buf' = [buf EXCEPT !.dirty = FALSE] /\ UNCHANGED author
        BY <2>1, <2>3 DEF Types, StoreTypes
    <2>4. CASE file' \in {<<>>, Outcome(j)} /\ author' = {job[j].tab} /\ UNCHANGED buf
        BY <1>6, <2>1, <2>4 DEF Types, StoreTypes
    <2> QED BY <2>2, <2>3, <2>4 DEF Fail
<1> QED BY <1>2, <1>5, <1>7 DEF Types, TabTypes, Fail, tabVars

LEMMA ReconnectTypes == ASSUME Types, Reconnect PROVE Types'
<1>1. SpentTypes'
    BY SpendTypes DEF Types, Reconnect
<1>2. \A j \in Jobs : j = lock =>
        /\ [job[j] EXCEPT !.pc = AfterFailure(j)] \in Requests
        /\ [job[j] EXCEPT !.pc = AfterFailure(j)].pc \in {"ssh", "error"}
    <2>1. SUFFICES ASSUME NEW j \in Jobs, j = lock
                   PROVE  /\ [job[j] EXCEPT !.pc = AfterFailure(j)] \in Requests
                          /\ [job[j] EXCEPT !.pc = AfterFailure(j)].pc \in {"ssh", "error"}
        OBVIOUS
    <2>2. job[j] \in Requests
        BY <2>1, Underway DEF Types, JobTypes, Steps
    <2>3. AfterFailure(j) \in {"ssh", "error"}
        BY AfterFailureTypes
    <2> QED BY <2>2, <2>3 DEF Requests, Steps, Answers
<1>3. JobTypes'
    <2>1. job' = [j \in Jobs |-> IF j = lock THEN [job[j] EXCEPT !.pc = AfterFailure(j)]
                                 ELSE job[j]]
        BY DEF Reconnect
    <2>2. job' \in [Jobs -> Requests \cup {Free}]
        BY <1>2, <2>1 DEF Types, JobTypes
    <2>3. \A j \in Jobs : job'[j].pc \notin {"update", "store"}
        BY <1>2, <2>1 DEF Types, JobTypes
    <2> QED BY <2>2, <2>3, SaveAssumption DEF Types, JobTypes, Reconnect
<1>4. NoCopy \in [n : Nat, text : Contents]
    BY DEF NoCopy, Contents
<1> QED BY <1>1, <1>3, <1>4 DEF Types, TabTypes, StoreTypes, Reconnect, tabVars

LEMMA OutsideTypes == ASSUME Types, ChangeOutside \/ Reload PROVE Types'
<1>1. CASE ChangeOutside
    <2>1. SpentTypes' /\ spent'.outside \in 1..MaxOutside
        BY <1>1, SpendTypes DEF Types, ChangeOutside, SpentTypes, Bound
    <2>2. MaxEdits + spent'.outside \in Edits
        BY <2>1, SaveAssumption DEF Edits
    <2>3. file' \in Contents /\ landed' \subseteq Edits
        BY <1>1, <2>2 DEF Types, StoreTypes, ChangeOutside, Contents
    <2> QED BY <1>1, <2>1, <2>3 DEF Types, TabTypes, JobTypes, StoreTypes, ChangeOutside, tabVars
<1>2. CASE Reload
    <2>1. SpentTypes'
        BY <1>2, SpendTypes DEF Types, Reload
    <2>2. buf' \in [n : Nat \ {0}, text : Contents, dirty : BOOLEAN]
        <3>1. buf.n + 1 \in Nat \ {0} /\ file \in Contents
            BY DEF Types, StoreTypes
        <3>2. buf' = [buf EXCEPT !.n = buf.n + 1, !.text = file]
            BY <1>2 DEF Reload
        <3> QED BY <3>1, <3>2 DEF Types, StoreTypes
    <2> QED BY <1>2, <2>1, <2>2 DEF Types, TabTypes, JobTypes, StoreTypes, Reload, tabVars
<1> QED BY <1>1, <1>2

LEMMA StepTypes == ASSUME Types, [Next]_vars PROVE Types'
<1>1. CASE UNCHANGED vars
    BY <1>1 DEF vars, tabVars, Types, TabTypes, JobTypes, StoreTypes, SpentTypes
<1>2. CASE TabStep
    BY <1>2, TypeTypes, OpenTypes, StartSaveTypes, GiveUpTypes, DeliverTypes DEF TabStep
<1>3. CASE GatewayStep
    BY <1>3, CheckByProxyTypes, OpenForPutTypes, UpdateTypes, StoreStepTypes,
       CheckByTransportTypes, WriteTypes, FailTypes DEF GatewayStep
<1>4. CASE Reconnect \/ ChangeOutside \/ Reload
    BY <1>4, ReconnectTypes, OutsideTypes
<1> QED BY <1>1, <1>2, <1>3, <1>4 DEF Next

LEMMA TypesInvariant == Spec => []Types
<1>1. Init => Types
    BY InitTypes
<1>2. Types /\ [Next]_vars => Types'
    BY StepTypes
<1> QED BY <1>1, <1>2, PTL DEF Spec

LEMMA TypesImplyTypeOK == ASSUME Types PROVE TypeOK
<1>1. \A t \in Tabs : ver[t].scheme \in {"zed", "ssh"}
    BY DEF Types, TabTypes, Versions
<1>2. \A s \in {base[t] : t \in Tabs} \cup {cur[t] : t \in Tabs} \cup {pend[t] : t \in Tabs}
               \cup {known[t] : t \in Tabs} \cup {file, buf.text, cached.text} :
          Occurs(s) \subseteq Edits
    <2>1. \A s \in Contents : Occurs(s) \subseteq Edits
        BY OccursIn DEF Contents
    <2>2. /\ \A t \in Tabs : {base[t], cur[t], pend[t], known[t]} \subseteq Contents
          /\ {file, buf.text, cached.text} \subseteq Contents
        BY DEF Types, TabTypes, StoreTypes
    <2> QED BY <2>1, <2>2
<1>3. \A j \in Jobs : job[j] # Free =>
          /\ job[j].pc \in Steps \cup Answers
          /\ job[j].tab \in Tabs /\ job[j].kind \in Kinds /\ job[j].awaited \in BOOLEAN
    BY Underway DEF Types, Requests
<1>4. lock # NoJob <=> \E j \in Jobs : job[j].pc \in {"update", "store"}
    BY SaveAssumption DEF Types, JobTypes
<1>5. \A b \in DOMAIN Bound : spent[b] \in 0..Bound[b]
    BY SaveAssumption DEF Types, SpentTypes, Bound
<1> QED BY <1>1, <1>2, <1>3, <1>4, <1>5 DEF Types, TabTypes, JobTypes, StoreTypes, TypeOK

(* Every variable keeps its type, and the client is held by the request that is between
   its first step and its last, and by no other, whatever fails, is given up, reconnected
   or changed outside.  [registry/handle.rs: zed_client; zed_proxy/client.rs] *)
THEOREM TypeCorrect == Spec => []TypeOK
BY TypesInvariant, TypesImplyTypeOK, PTL

-----------------------------------------------------------------------------
(* The working copy                                                        *)

\* The rest of the system leaves the working copies alone.
LEMMA OthersLeaveTabs ==
    ASSUME GatewayStep \/ Reconnect \/ ChangeOutside \/ Reload
    PROVE  UNCHANGED <<tabVars, raced>>
BY DEF GatewayStep, CheckByProxy, OpenForPut, Update, Store, CheckByTransport, Write,
       PutByTransport, Fail, Reconnect, ChangeOutside, Reload

\* An answer: what the tab takes for saved, or its copy as it was.
LEMMA DeliverEffect ==
    ASSUME Types, NEW j \in Jobs, Deliver(j)
    PROVE  /\ job[j] \in Requests /\ job' = [job EXCEPT ![j] = Free]
           /\ \/ /\ job[j].awaited /\ job[j].pc = "saved" /\ HandleSaved(j)
              \/ UNCHANGED <<base, ver, cur, pend, raced>>
<1>1. job[j] \in Requests
    BY Underway DEF Types, Deliver
<1> QED BY <1>1 DEF Deliver, HandleConflict, tabVars

LEMMA CopyStep ==
    ASSUME Types, WorkingCopyExact, [Next]_vars
    PROVE  WorkingCopyExact'
<1> USE DEF WorkingCopyExact
<1>1. ASSUME UNCHANGED <<base, cur, pend, raced>> PROVE WorkingCopyExact'
    BY <1>1
<1>2. ASSUME NEW t \in Tabs, Type(t) PROVE WorkingCopyExact'
    <2>1. /\ base[t] \in Seq(Edits) /\ pend[t] \in Seq(Edits) /\ cur[t] \in Seq(Edits)
        BY DEF Types, TabTypes, Contents
    <2>2. spent'.edits \in Edits
        BY <1>2, SpendTypes, SaveAssumption DEF Types, Type, SpentTypes, Bound, Edits
    <2>3. Append(base[t] \o pend[t], spent'.edits) = base[t] \o Append(pend[t], spent'.edits)
        <3> DEFINE e == spent'.edits  b == base[t]  p == pend[t]
        <3>1. b \in Seq(Edits) /\ p \in Seq(Edits) /\ e \in Edits
            BY <2>1, <2>2
        <3> HIDE DEF e, b, p
        <3>2. Append(b \o p, e) = b \o Append(p, e)
            BY <3>1, Together
        <3> QED BY <3>2 DEF e, b, p
    <2> QED BY <1>2, <2>3 DEF Types, TabTypes, Type
<1>3. ASSUME NEW t \in Tabs, OpenByProxy(t) \/ OpenByTransport(t) PROVE WorkingCopyExact'
    <2>1. PICK content, version : content \in Contents /\ Reopen(t, version, content)
        BY <1>3, CopyTypes DEF OpenByProxy, OpenByTransport, Types, StoreTypes
    <2>2. content \o <<>> = content
        BY <2>1, ConcatEmptySeq DEF Contents
    <2> QED BY <2>1, <2>2 DEF Types, TabTypes, Reopen
<1>4. ASSUME NEW j \in Jobs, Deliver(j) PROVE WorkingCopyExact'
    <2>1. CASE HandleSaved(j)
        <3>1. job[j].tab \in Tabs /\ cur[job[j].tab] \in Seq(Edits)
            BY <1>4, DeliverEffect DEF Types, TabTypes, Requests, Contents
        <3>2. cur[job[j].tab] \o <<>> = cur[job[j].tab]
            BY <3>1, ConcatEmptySeq
        <3> QED BY <2>1, <3>1, <3>2 DEF HandleSaved, MarkSaved, Types, TabTypes
    <2> QED BY <1>1, <1>4, <2>1, DeliverEffect
<1>5. CASE UNCHANGED vars
    BY <1>1, <1>5 DEF vars, tabVars
<1>6. CASE GatewayStep \/ Reconnect \/ ChangeOutside \/ Reload
    BY <1>1, <1>6, OthersLeaveTabs DEF tabVars
<1>7. ASSUME NEW t \in Tabs, NEW j \in Jobs, NEW k \in Jobs, StartSave(t, j) \/ GiveUp(j, k)
      PROVE  WorkingCopyExact'
    BY <1>1, <1>7 DEF StartSave, GiveUp, tabVars
<1> QED BY <1>2, <1>3, <1>4, <1>5, <1>6, <1>7 DEF Next, TabStep

(* The text a tab shows is its base with the pending batches on it, unless an edit or a
   reopening fell between a save's request and its answer, for any number of tabs, saves,
   faults and changes outside.  [bufferRuntime.js: markSaved, finishLoading, getSavePayload] *)
THEOREM CopyExact == Spec => []WorkingCopyExact
<1>1. Init => WorkingCopyExact
    <2>1. SUFFICES ASSUME Init, NEW t \in Tabs PROVE cur[t] = base[t] \o pend[t]
        BY DEF WorkingCopyExact
    <2>2. base[t] = <<>> /\ cur[t] = <<>> /\ pend[t] = <<>>
        BY <2>1 DEF Init
    <2> QED BY <2>2
<1>2. Types /\ WorkingCopyExact /\ [Next]_vars => WorkingCopyExact'
    BY CopyStep
<1> QED BY <1>1, <1>2, TypesInvariant, PTL DEF Spec

-----------------------------------------------------------------------------
(* The hash of a save                                                      *)

\* A version of the transport path that names a content.
Hash(v) == v.scheme = "ssh" /\ v # FallbackVersion

\* What a request without a race says: its whole content is its batches on what its hash
\* names, on what it read, and in the end what its new hash names.
Follows(r) ==
    /\ r.kind = "save" /\ r.pc = "sent" /\ Hash(r.ver) => r.full = r.ver.text \o r.batches
    /\ r.pc = "write" => r.full = r.text \o r.batches
    /\ r.kind = "save" /\ r.pc = "saved" /\ Hash(r.ver) => r.ver.text = r.full

\* Only a save compares a hash and is about to write what it made of the file it read; a
\* PUT is answered without one.
KindFits(r) ==
    /\ r.pc = "write" => r.kind = "save"
    /\ r.pc = "saved" /\ r.kind = "put" => r.ver = FallbackVersion

(* HashNamesBase alone is not kept: the hash comes back with an answer, much later. *)
HashInv ==
    /\ HashNamesBase
    /\ \A j \in Jobs : job[j] # Free =>
          KindFits(job[j]) /\ (job[j].awaited /\ job[j].tab \notin raced => Follows(job[j]))

\* A request that is answered without being saved, or is on its way over ssh.
LEMMA AnsweredFollows ==
    ASSUME NEW r \in Requests, NEW pc \in {"conflict", "error", "ssh", "store", "update"}
    PROVE  KindFits([r EXCEPT !.pc = pc]) /\ Follows([r EXCEPT !.pc = pc])
BY DEF KindFits, Follows, Requests

\* What HashInv asks of one request.
RequestFits(r) == KindFits(r) /\ (r.awaited /\ r.tab \notin raced => Follows(r))

\* The tabs stay as they are, and a request that changes is free or fits.
LEMMA RequestsChange ==
    ASSUME HashInv, JobTypes, UNCHANGED <<tabVars, raced>>,
           \A k \in Jobs : job'[k] = job[k] \/ job'[k] = Free \/ RequestFits(job'[k])
    PROVE  HashInv'
<1>1. HashNamesBase'
    BY DEF HashInv, HashNamesBase, tabVars
<1>2. ASSUME NEW k \in Jobs, job'[k] # Free
      PROVE  KindFits(job'[k]) /\ (job'[k].awaited /\ job'[k].tab \notin raced' => Follows(job'[k]))
    <2>1. CASE job'[k] = job[k]
        BY <1>2, <2>1 DEF HashInv
    <2>2. CASE RequestFits(job'[k])
        BY <2>2 DEF RequestFits
    <2> QED BY <1>2, <2>1, <2>2
<1> QED BY <1>1, <1>2 DEF HashInv, Free

\* One request is answered, or goes on to a step that says nothing of a hash.
LEMMA OneAnswered ==
    ASSUME HashInv, JobTypes, NEW j \in Jobs, job[j] \in Requests,
           NEW pc \in {"conflict", "error", "ssh", "store", "update"}, Answer(j, pc),
           UNCHANGED <<tabVars, raced>>
    PROVE  HashInv'
<1>1. \A k \in Jobs : k # j => job'[k] = job[k]
    BY DEF Answer, JobTypes
<1>2. job'[j] = [job[j] EXCEPT !.pc = pc]
    BY DEF Answer, JobTypes
<1>3. RequestFits(job'[j])
    BY <1>2, AnsweredFollows DEF RequestFits
<1> QED BY <1>1, <1>3, RequestsChange

LEMMA HashTab ==
    ASSUME Types, WorkingCopyExact, HashInv, NEW t \in Tabs, NEW j \in Jobs, NEW k \in Jobs,
           Type(t) \/ StartSave(t, j) \/ GiveUp(j, k)
    PROVE  HashInv'
<1>1. CASE Type(t)
    BY <1>1 DEF Type, HashInv, HashNamesBase
<1>2. CASE StartSave(t, j)
    <2>1. RequestFits(Request(t, "save"))
        BY DEF RequestFits, Request, KindFits, Follows, Hash, HashInv, HashNamesBase,
               WorkingCopyExact
    <2>2. \A i \in Jobs : job'[i] = IF i = j THEN Request(t, "save") ELSE job[i]
        BY <1>2 DEF StartSave, Types, JobTypes
    <2>3. UNCHANGED <<tabVars, raced>>
        BY <1>2 DEF StartSave
    <2> QED BY <2>1, <2>2, <2>3, RequestsChange DEF Types
<1>3. CASE GiveUp(j, k)
    <2>1. job[j] \in Requests /\ job[j] # Free /\ j # k
        BY <1>3, Underway DEF Types, GiveUp
    <2>2. RequestFits(Request(job[j].tab, "put"))
        BY DEF RequestFits, Request, KindFits, Follows
    <2>3. RequestFits([job[j] EXCEPT !.awaited = FALSE])
        BY <2>1 DEF RequestFits, KindFits, HashInv, Requests
    <2>4. \A i \in Jobs : job'[i] = IF i = k THEN Request(job[j].tab, "put")
                                    ELSE IF i = j THEN [job[j] EXCEPT !.awaited = FALSE]
                                    ELSE job[i]
        BY <1>3, <2>1 DEF GiveUp, Types, JobTypes
    <2>5. UNCHANGED <<tabVars, raced>>
        BY <1>3 DEF GiveUp
    <2> QED BY <2>2, <2>3, <2>4, <2>5, RequestsChange DEF Types
<1> QED BY <1>1, <1>2, <1>3

\* Where no race was, the base becomes what the request sent, and its hash is of that.
LEMMA HashDeliver ==
    ASSUME Types, HashInv, NEW j \in Jobs, Deliver(j)
    PROVE  HashInv'
<1>1. /\ job[j] \in Requests /\ job[j] # Free
      /\ \A k \in Jobs : job'[k] = IF k = j THEN Free ELSE job[k]
    BY DeliverEffect, Underway DEF Types, JobTypes, Deliver
<1>2. CASE job[j].awaited /\ job[j].pc = "saved" /\ HandleSaved(j)
    <2> DEFINE t == job[j].tab
    <2>1. t \in Tabs /\ job[j].kind \in Kinds
        BY <1>1 DEF Requests
    <2>2. raced \subseteq raced'
        BY <1>2 DEF HandleSaved
    <2>3. \A k \in Jobs : job'[k] # Free =>
            KindFits(job'[k]) /\ (job'[k].awaited /\ job'[k].tab \notin raced' => Follows(job'[k]))
        BY <1>1, <2>2 DEF HashInv
    <2>4. ASSUME t \notin raced', Hash(ver'[t]) PROVE ver'[t].text = base'[t]
        <3>1. cur[t] = job[j].full /\ t \notin raced
            BY <1>2, <2>4 DEF HandleSaved
        <3>2. base'[t] = job[j].full /\ ver'[t] = job[j].ver
            BY <1>2, <2>1, <3>1 DEF HandleSaved, MarkSaved, Types, TabTypes
        <3>3. KindFits(job[j]) /\ Follows(job[j])
            BY <1>1, <1>2, <3>1 DEF HashInv
        <3>4. job[j].kind = "save"
            BY <1>2, <2>1, <2>4, <3>2, <3>3 DEF KindFits, Hash, Kinds
        <3> QED BY <1>2, <2>4, <3>2, <3>3, <3>4 DEF Follows
    <2>5. \A u \in Tabs : u # t => ver'[u] = ver[u] /\ base'[u] = base[u]
        BY <1>2 DEF HandleSaved, MarkSaved, Types, TabTypes
    <2>6. HashNamesBase'
        BY <2>2, <2>4, <2>5 DEF HashInv, HashNamesBase, Hash
    <2> QED BY <2>3, <2>6 DEF HashInv, Free
<1>3. CASE UNCHANGED <<base, ver, cur, pend, raced>>
    BY <1>1, <1>3 DEF HashInv, HashNamesBase
<1> QED BY <1>2, <1>3, DeliverEffect

\* A tab leaves the raced ones only when nothing it awaits is under way.
LEMMA HashOpen ==
    ASSUME Types, HashInv, NEW t \in Tabs, OpenByProxy(t) \/ OpenByTransport(t)
    PROVE  HashInv'
<1>1. PICK version, content : /\ Reopen(t, version, content)
                              /\ Hash(version) => version.text = content
    BY DEF OpenByProxy, OpenByTransport, Hash, ZedVersion, SshVersion
<1>2. job' = job
    BY DEF OpenByProxy, OpenByTransport
<1>3. HashNamesBase'
    <2>1. \A u \in Tabs : /\ ver'[u] = IF u = t THEN version ELSE ver[u]
                          /\ base'[u] = IF u = t THEN content ELSE base[u]
                          /\ u # t /\ u \notin raced' => u \notin raced
        BY <1>1 DEF Reopen, Types, TabTypes
    <2> QED BY <1>1, <2>1 DEF HashInv, HashNamesBase, Hash
<1>4. ASSUME NEW k \in Jobs, job[k] # Free, job[k].awaited, job[k].tab \notin raced'
      PROVE  Follows(job[k])
    <2>1. job[k].tab \notin raced
        BY <1>1, <1>4 DEF Reopen, Awaits
    <2> QED BY <1>4, <2>1 DEF HashInv
<1> QED BY <1>2, <1>3, <1>4 DEF HashInv, Free

LEMMA HashCheckByProxy ==
    ASSUME Types, HashInv, NEW j \in Jobs, CheckByProxy(j) \/ OpenForPut(j)
    PROVE  HashInv'
<1>1. job[j] \in Requests
    BY Underway DEF Types, CheckByProxy, OpenForPut, Steps
<1>2. UNCHANGED <<tabVars, raced>>
    BY DEF CheckByProxy, OpenForPut
<1>3. CASE \E pc \in {"conflict", "error"} : Answer(j, pc)
    BY <1>1, <1>2, <1>3, OneAnswered DEF Types
<1>4. ASSUME NEW pc \in {"store", "update"},
             job' = [job EXCEPT ![j].text = Copy.text, ![j].pc = pc]
      PROVE  HashInv'
    <2>1. \A k \in Jobs : k # j => job'[k] = job[k]
        BY <1>4 DEF Types, JobTypes
    <2>2. job'[j] = [job[j] EXCEPT !.text = Copy.text, !.pc = pc]
        BY <1>4 DEF Types, JobTypes
    <2>3. RequestFits(job'[j])
        BY <1>1, <2>2 DEF RequestFits, KindFits, Follows, Requests
    <2> QED BY <1>2, <2>1, <2>3, RequestsChange DEF Types
<1> QED BY <1>3, <1>4 DEF CheckByProxy, OpenForPut

\* The version compared is the hash of what the save is made of.
LEMMA HashCheckByTransport ==
    ASSUME Types, HashInv, NEW j \in Jobs, CheckByTransport(j)
    PROVE  HashInv'
<1>1. job[j] \in Requests /\ job[j] # Free /\ job[j].pc = "sent" /\ job[j].kind = "save"
    BY Underway DEF Types, CheckByTransport, Steps
<1>2. UNCHANGED <<tabVars, raced>>
    BY DEF CheckByTransport
<1>3. CASE \E pc \in {"conflict", "error"} : Answer(j, pc)
    BY <1>1, <1>2, <1>3, OneAnswered DEF Types
<1>4. CASE /\ job[j].ver = SshVersion(file)
           /\ job' = [job EXCEPT ![j].text = file, ![j].pc = "write"]
    <2>1. \A k \in Jobs : k # j => job'[k] = job[k]
        BY <1>4 DEF Types, JobTypes
    <2>2. job'[j] = [job[j] EXCEPT !.text = file, !.pc = "write"]
        BY <1>4 DEF Types, JobTypes
    <2>3. Hash(job[j].ver) /\ job[j].ver.text = file
        BY <1>4 DEF Hash, SshVersion, FallbackVersion
    <2>4. job[j].awaited /\ job[j].tab \notin raced => job[j].full = file \o job[j].batches
        BY <1>1, <2>3 DEF HashInv, Follows
    <2>5. RequestFits(job'[j])
        BY <1>1, <2>2, <2>4 DEF RequestFits, KindFits, Follows, Requests
    <2> QED BY <1>2, <2>1, <2>5, RequestsChange DEF Types
<1> QED BY <1>3, <1>4 DEF CheckByTransport, VersionMatches

\* A save that is done: the proxy names no content, a PUT neither, and a write over ssh
\* names what it wrote.
LEMMA HashDone ==
    ASSUME Types, HashInv, NEW j \in Jobs, Store(j) \/ Write(j) \/ PutByTransport(j)
    PROVE  HashInv'
<1>1. job[j] \in Requests /\ job[j] # Free /\ job[j].kind \in Kinds
    BY Underway DEF Types, Store, Write, PutByTransport, Steps, Requests
<1>2. UNCHANGED <<tabVars, raced>>
    BY DEF Store, Write, PutByTransport
<1>3. PICK version, content : Told(j, version, content)
    BY DEF Store, Write, PutByTransport
<1>4. \A k \in Jobs : k # j => job'[k] = job[k]
    BY <1>3 DEF Told, Types, JobTypes
<1>5. ASSUME NEW v, \E c : Told(j, v, c) PROVE job'[j] = [job[j] EXCEPT !.pc = "saved", !.ver = v]
    BY <1>5 DEF Told, Types, JobTypes
<1>6. CASE Store(j)
    <2>1. job'[j] = [job[j] EXCEPT !.pc = "saved",
                     !.ver = IF job[j].kind = "put" THEN FallbackVersion ELSE ZedVersion(buf.n)]
        BY <1>5, <1>6 DEF Store
    <2>2. RequestFits(job'[j])
        BY <1>1, <2>1 DEF RequestFits, KindFits, Follows, Requests, Hash, ZedVersion
    <2> QED BY <1>2, <1>4, <2>2, RequestsChange DEF Types
<1>7. CASE Write(j)
    <2>1. job'[j] = [job[j] EXCEPT !.pc = "saved", !.ver = WrittenVersion(j)]
        BY <1>5, <1>7 DEF Write
    <2>2. /\ job[j].kind = "save" /\ WrittenVersion(j).text = job[j].text \o job[j].batches
          /\ job[j].awaited /\ job[j].tab \notin raced => Follows(job[j])
        BY <1>1, <1>7 DEF Write, HashInv, KindFits, WrittenVersion, SshVersion, Outcome
    <2>3. RequestFits(job'[j])
        BY <1>1, <1>7, <2>1, <2>2 DEF RequestFits, KindFits, Follows, Requests, Write
    <2> QED BY <1>2, <1>4, <2>3, RequestsChange DEF Types
<1>8. CASE PutByTransport(j)
    <2>1. job'[j] = [job[j] EXCEPT !.pc = "saved", !.ver = FallbackVersion]
        BY <1>5, <1>8 DEF PutByTransport
    <2>2. RequestFits(job'[j])
        BY <1>1, <2>1 DEF RequestFits, KindFits, Follows, Requests, Hash
    <2> QED BY <1>2, <1>4, <2>2, RequestsChange DEF Types
<1> QED BY <1>6, <1>7, <1>8

LEMMA HashGateway ==
    ASSUME Types, HashInv, GatewayStep \/ Reconnect \/ ChangeOutside \/ Reload
    PROVE  HashInv'
<1>1. UNCHANGED <<tabVars, raced>>
    BY OthersLeaveTabs
<1>2. ASSUME NEW j \in Jobs, Update(j) \/ Fail(j) PROVE HashInv'
    <2>1. job[j] \in Requests
        BY <1>2, Underway DEF Types, Update, Fail, Steps
    <2>2. PICK pc \in {"store", "ssh", "error"} : Answer(j, pc)
        BY <1>2, AfterFailureTypes DEF Update, Fail
    <2> QED BY <1>1, <2>1, <2>2, OneAnswered DEF Types
<1>3. CASE Reconnect
    <2>1. SUFFICES ASSUME NEW k \in Jobs
                   PROVE  job'[k] = job[k] \/ RequestFits(job'[k])
        BY <1>1, RequestsChange DEF Types
    <2>2. job'[k] = IF k = lock THEN [job[k] EXCEPT !.pc = AfterFailure(k)] ELSE job[k]
        BY <1>3 DEF Reconnect
    <2>3. CASE k = lock
        <3>1. job[k] \in Requests
            BY <2>3, Underway DEF Types, JobTypes, Steps
        <3>2. AfterFailure(k) \in {"conflict", "error", "ssh", "store", "update"}
            BY AfterFailureTypes
        <3>3. RequestFits([job[k] EXCEPT !.pc = AfterFailure(k)])
            BY <3>1, <3>2, AnsweredFollows DEF RequestFits
        <3> QED BY <2>2, <2>3, <3>3
    <2> QED BY <2>2, <2>3
<1>4. CASE ChangeOutside \/ Reload
    <2>1. job' = job
        BY <1>4 DEF ChangeOutside, Reload
    <2> QED BY <1>1, <2>1, RequestsChange DEF Types
<1> QED BY <1>2, <1>3, <1>4, HashCheckByProxy, HashCheckByTransport, HashDone DEF GatewayStep

LEMMA HashStep == ASSUME Types, WorkingCopyExact, HashInv, [Next]_vars PROVE HashInv'
<1>1. CASE UNCHANGED vars
    <2>1. UNCHANGED <<tabVars, raced>> /\ job' = job
        BY <1>1 DEF vars
    <2> QED BY <2>1, RequestsChange DEF Types
<1>2. CASE TabStep
    <2>1. ASSUME NEW t \in Tabs, Type(t) PROVE HashInv'
        BY <2>1 DEF Type, HashInv, HashNamesBase
    <2>2. ASSUME NEW j \in Jobs, NEW k \in Jobs, GiveUp(j, k) PROVE HashInv'
        <3>1. job[j].tab \in Tabs
            BY <2>2, Underway DEF Types, GiveUp, Requests
        <3> QED BY <2>2, <3>1, HashTab
    <2> QED BY <1>2, <2>1, <2>2, HashTab, HashOpen, HashDeliver DEF TabStep
<1> QED BY <1>1, <1>2, HashGateway DEF Next

(* A tab that no race has hit never sends the hash of anything but its base, so the file a
   transport save is compared with is the one its batches start from, for every
   interleaving of saves, PUTs, faults and changes outside.
   [registry/handle.rs: save_buffer_via_transport; bufferRuntime.js: markSaved] *)
THEOREM HashNames == Spec => []HashNamesBase
<1>1. Init => HashInv
    BY SaveAssumption DEF Init, HashInv, HashNamesBase, ZedVersion, SshVersion, Free
<1>2. Types /\ WorkingCopyExact /\ HashInv /\ [Next]_vars => HashInv'
    BY HashStep
<1>3. HashInv => HashNamesBase
    BY DEF HashInv
<1> QED BY <1>1, <1>2, <1>3, TypesInvariant, CopyExact, PTL DEF Spec

-----------------------------------------------------------------------------
(* Saving over the proxy alone                                             *)

\* Nobody writes the file but the proxy: the file is not changed outside, no call misses
\* its time at the proxy, and nothing fails half way, unless every open gives a buffer of
\* its own and no tab falls back to a PUT.  Tabs, requests and edits are any.
Calm ==
    /\ MaxOutside = 0 /\ ~SlowProxy
    /\ MaxFaults = 0 \/ (MaxLost = 0 /\ ~ReusesBuffer)

\* A version that no file over ssh has.
Named(v) == v.scheme = "zed" \/ v = FallbackVersion

\* What a request leaves in the buffer, said of the request.
Made(r) == IF r.kind = "put" THEN r.full ELSE r.text \o r.batches

ProxyFits(r) ==
    /\ Named(r.ver) /\ r.pc \notin {"write", "ssh"}
    /\ r.pc = "update" => r.text = buf.text
    /\ r.pc = "update" /\ r.kind = "save" => r.ver = ZedVersion(buf.n) /\ r.batches # <<>>
    /\ r.pc = "store" => Made(r) = buf.text
    /\ MaxLost = 0 => r.kind = "save"

Idle == \A j \in Jobs : job[j].pc # "store"

(* CopyCurrent alone is not kept: the client is given back together with the copy, so what
   its holder computed must be what the buffer holds. *)
ProxyInv ==
    /\ \A t \in Tabs : Named(ver[t])
    /\ \A j \in Jobs : job[j] # Free => ProxyFits(job[j])
    /\ ~buf.dirty => file = buf.text
    /\ (ReusesBuffer /\ cached # NoCopy /\ Idle) => cached = [n |-> buf.n, text |-> buf.text]

LEMMA BeyondNothing == ASSUME NEW S, NEW s \in Seq(S) PROVE Beyond(s, Occurs(s)) = <<>>
<1> DEFINE kept == {i \in DOMAIN s : s[i] \notin Occurs(s)}
<1>1. kept = {}
    BY DEF Occurs
<1>2. Cardinality(kept) = 0
    BY <1>1, FS_EmptySet, Zenon
<1>3. Beyond(s, Occurs(s)) =
          [k \in 1..Cardinality(kept) |->
              s[CHOOSE i \in kept : Cardinality({h \in kept : h <= i}) = k]]
    BY DEF Beyond
<1> HIDE DEF kept
<1>4. 1..Cardinality(kept) = {}
    BY <1>2
<1> QED BY <1>3, <1>4

LEMMA CalmSpends ==
    ASSUME Calm, Types
    PROVE  /\ ~ChangeOutside /\ \A t \in Tabs : ~OpenByTransport(t)
           /\ (Reconnect \/ \E j \in Jobs : Fail(j)) => MaxLost = 0 /\ ~ReusesBuffer
           /\ (\E j, k \in Jobs : GiveUp(j, k)) => MaxLost # 0
<1>1. ASSUME NEW b \in {"outside", "faults", "lost"}, Spend(b) PROVE Bound[b] # 0
    BY <1>1 DEF Spend, Types, SpentTypes, Bound
<1>2. Bound["outside"] = MaxOutside /\ Bound["faults"] = MaxFaults /\ Bound["lost"] = MaxLost
    BY DEF Bound
<1> QED BY <1>1, <1>2 DEF Calm, ChangeOutside, OpenByTransport, Reconnect, Fail, GiveUp

\* With the client free, opening gives what the remote server holds.
LEMMA CopyIs ==
    ASSUME Types, ProxyInv, lock = NoJob
    PROVE  Idle /\ Copy = [n |-> buf.n, text |-> buf.text]
<1>1. Idle
    BY SaveAssumption DEF Types, JobTypes, Idle
<1> QED BY <1>1 DEF Copy, ProxyInv

\* What cannot happen: the file is never written behind the buffer, and no version is
\* that of a file over ssh.
LEMMA CalmNever ==
    ASSUME Calm, Types, ProxyInv
    PROVE  /\ ~Reload
           /\ \A j \in Jobs : /\ ~Write(j) /\ ~PutByTransport(j)
                              /\ CheckByTransport(j) => Answer(j, "conflict")
<1>1. ~Reload
    BY DEF Reload, ProxyInv
<1>2. SUFFICES ASSUME NEW j \in Jobs
               PROVE  /\ ~Write(j) /\ ~PutByTransport(j)
                      /\ CheckByTransport(j) => Answer(j, "conflict")
    BY <1>1
<1>3. job[j].pc \notin {"write", "ssh"}
    BY DEF ProxyInv, ProxyFits, Free
<1>4. ~Write(j) /\ ~PutByTransport(j)
    BY <1>3 DEF Write, PutByTransport, Calm
<1>5. ASSUME CheckByTransport(j) PROVE Answer(j, "conflict")
    <2>1. Named(job[j].ver) /\ job[j].ver.scheme = "ssh"
        BY <1>5, Underway DEF CheckByTransport, ProxyInv, ProxyFits, Types, Steps
    <2>2. ~VersionMatches(job[j].ver, SshVersion(file))
        BY <2>1 DEF Named, VersionMatches, SshVersion, FallbackVersion
    <2> QED BY <1>5, <2>2 DEF CheckByTransport
<1> QED BY <1>4, <1>5

\* The store stays as it is, and requests that change are free or fit.
LEMMA ProxyKept ==
    ASSUME ProxyInv, UNCHANGED <<buf, file>>,
           \A t \in Tabs : Named(ver'[t]),
           \A k \in Jobs : job'[k] = job[k] \/ job'[k] = Free \/ ProxyFits(job'[k]),
           (ReusesBuffer /\ cached' # NoCopy /\ Idle') => cached' = [n |-> buf.n, text |-> buf.text]
    PROVE  ProxyInv'
<1>1. ASSUME NEW k \in Jobs, job'[k] # Free PROVE ProxyFits(job[k])'
    <2>1. ProxyFits(job'[k])
        BY <1>1 DEF ProxyInv
    <2> QED BY <2>1 DEF ProxyFits
<1> QED BY <1>1 DEF ProxyInv, ProxyFits, Free

LEMMA ProxyTab ==
    ASSUME Calm, Types, ProxyInv, TabStep
    PROVE  ProxyInv'
<1>1. ASSUME NEW t \in Tabs, Type(t) PROVE ProxyInv'
    <2>1. UNCHANGED <<ver, job, cached, buf, file>>
        BY <1>1 DEF Type
    <2> QED BY <2>1 DEF ProxyInv, ProxyFits, Idle
<1>2. ASSUME NEW t \in Tabs, OpenByProxy(t) PROVE ProxyInv'
    <2>1. Copy = [n |-> buf.n, text |-> buf.text]
        BY <1>2, CopyIs DEF OpenByProxy
    <2>2. UNCHANGED <<job, buf, file>> /\ cached' = [n |-> buf.n, text |-> buf.text]
        BY <1>2, <2>1 DEF OpenByProxy
    <2>3. \A u \in Tabs : Named(ver'[u])
        BY <1>2 DEF OpenByProxy, Reopen, Types, TabTypes, ProxyInv, Named, ZedVersion
    <2> QED BY <2>2, <2>3, ProxyKept
<1>3. ASSUME NEW t \in Tabs, NEW j \in Jobs, StartSave(t, j) PROVE ProxyInv'
    <2>1. ProxyFits(Request(t, "save"))
        BY DEF ProxyFits, Request, ProxyInv
    <2>2. \A k \in Jobs : job'[k] = job[k] \/ job'[k] = Request(t, "save")
        BY <1>3 DEF StartSave, Types, JobTypes
    <2>3. UNCHANGED <<ver, cached, buf, file>> /\ (Idle' => Idle)
        BY <1>3 DEF StartSave, Idle, Types, JobTypes, Free, tabVars
    <2> QED BY <2>1, <2>2, <2>3, ProxyKept DEF ProxyInv
<1>4. ASSUME NEW j \in Jobs, NEW k \in Jobs, GiveUp(j, k) PROVE ProxyInv'
    <2>1. job[j] \in Requests /\ job[j] # Free /\ j # k /\ job[j].tab \in Tabs
        BY <1>4, Underway DEF Types, GiveUp, Requests
    <2>2. MaxLost # 0
        BY <1>4, CalmSpends
    <2>3. ProxyFits(Request(job[j].tab, "put"))
        BY <2>1, <2>2 DEF ProxyFits, Request, ProxyInv
    <2>4. ProxyFits([job[j] EXCEPT !.awaited = FALSE])
        BY <2>1 DEF ProxyFits, ProxyInv, Requests, Made
    <2>5. \A i \in Jobs : job'[i] = IF i = k THEN Request(job[j].tab, "put")
                                    ELSE IF i = j THEN [job[j] EXCEPT !.awaited = FALSE]
                                    ELSE job[i]
        BY <1>4, <2>1 DEF GiveUp, Types, JobTypes
    <2>6. UNCHANGED <<ver, cached, buf, file>>
        BY <1>4 DEF GiveUp, tabVars
    <2>7. Idle' => Idle
        <3>1. job[k].pc = "free"
            BY <1>4 DEF GiveUp, Free
        <3>2. job'[j].pc = job[j].pc
            BY <2>1, <2>5 DEF Requests
        <3> QED BY <2>5, <3>1, <3>2 DEF Idle
    <2> QED BY <2>3, <2>4, <2>5, <2>6, <2>7, ProxyKept DEF ProxyInv
<1>5. ASSUME NEW j \in Jobs, Deliver(j) PROVE ProxyInv'
    <2>1. job[j] \in Requests /\ job[j] # Free /\ job[j].pc # "store"
        BY <1>5, DeliverEffect, Underway DEF Types, Deliver, Answers
    <2>2. \A k \in Jobs : job'[k] = IF k = j THEN Free ELSE job[k]
        BY <1>5, DeliverEffect DEF Types, JobTypes
    <2>3. UNCHANGED <<cached, buf, file>> /\ (Idle' => Idle)
        BY <1>5, <2>1, <2>2 DEF Deliver, Idle
    <2>4. \A t \in Tabs : Named(ver'[t])
        <3>1. ASSUME HandleSaved(j) PROVE \A t \in Tabs : ver'[t] \in {ver[t], job[j].ver}
            BY <3>1 DEF HandleSaved, MarkSaved, Types, TabTypes
        <3>2. Named(job[j].ver)
            BY <2>1 DEF ProxyInv, ProxyFits
        <3> QED BY <1>5, <3>1, <3>2, DeliverEffect DEF ProxyInv
    <2> QED BY <2>2, <2>3, <2>4, ProxyKept DEF ProxyInv
<1> QED BY <1>1, <1>2, <1>3, <1>4, <1>5, CalmSpends DEF TabStep

LEMMA ProxyOpened ==
    ASSUME Calm, Types, ProxyInv, NEW j \in Jobs, CheckByProxy(j) \/ OpenForPut(j)
    PROVE  ProxyInv'
<1>1. job[j] \in Requests /\ job[j] # Free
    BY Underway DEF Types, CheckByProxy, OpenForPut, Steps
<1>2. /\ Idle /\ Copy = [n |-> buf.n, text |-> buf.text]
      /\ cached' = [n |-> buf.n, text |-> buf.text]
    BY CopyIs DEF CheckByProxy, OpenForPut
<1>3. UNCHANGED <<ver, buf, file>>
    BY DEF CheckByProxy, OpenForPut, tabVars
<1>4. \A k \in Jobs : k # j => job'[k] = job[k]
    BY DEF CheckByProxy, OpenForPut, Answer, Types, JobTypes
<1>5. ProxyFits(job'[j])
    <2>1. CASE \E pc \in {"conflict", "error"} : job'[j] = [job[j] EXCEPT !.pc = pc]
        BY <1>1, <2>1 DEF ProxyFits, ProxyInv, Requests
    <2>2. CASE \E pc \in {"store", "update"} :
                  /\ job'[j] = [job[j] EXCEPT !.text = Copy.text, !.pc = pc]
                  /\ pc = "store" => job[j].kind = "save" /\ job[j].batches = <<>>
                  /\ pc = "update" /\ job[j].kind = "save" =>
                        job[j].ver = ZedVersion(Copy.n) /\ job[j].batches # <<>>
        <3>1. buf.text \o <<>> = buf.text
            BY ConcatEmptySeq DEF Types, StoreTypes, Contents
        <3>2. PICK pc \in {"store", "update"} :
                  /\ job'[j] = [job[j] EXCEPT !.text = buf.text, !.pc = pc]
                  /\ pc = "store" => job[j].kind = "save" /\ job[j].batches = <<>>
                  /\ pc = "update" /\ job[j].kind = "save" =>
                        job[j].ver = ZedVersion(buf.n) /\ job[j].batches # <<>>
            BY <1>2, <2>2
        <3>3. Named(job[j].ver) /\ (MaxLost = 0 => job[j].kind = "save")
            BY <1>1 DEF ProxyInv, ProxyFits
        <3>4. pc = "store" => Made(job'[j]) = buf.text
            BY <1>1, <3>1, <3>2 DEF Made, Requests
        <3> QED BY <1>1, <3>2, <3>3, <3>4 DEF ProxyFits, Requests
    <2>3. CASE CheckByProxy(j)
        BY <2>1, <2>2, <2>3 DEF CheckByProxy, VersionMatches, Answer, Types, JobTypes
    <2>4. CASE OpenForPut(j)
        BY <2>2, <2>4 DEF OpenForPut, Types, JobTypes
    <2> QED BY <2>3, <2>4
<1> QED BY <1>2, <1>3, <1>4, <1>5, ProxyKept DEF ProxyInv

LEMMA ProxyUpdate ==
    ASSUME Calm, Types, ProxyInv, NEW j \in Jobs, Update(j)
    PROVE  ProxyInv' /\ buf'.text = Made(job[j])
<1>1. job[j] \in Requests /\ job[j] # Free /\ job[j].pc = "update" /\ ProxyFits(job[j])
    BY Underway DEF Types, Update, Steps, ProxyInv
<1>2. Updated(j) = Made(job[j])
    <2>1. buf.text \in Seq(Edits) /\ job[j].full \in Seq(Edits)
        BY <1>1 DEF Types, StoreTypes, Requests, Contents
    <2>2. Beyond(buf.text, Occurs(buf.text)) = <<>> /\ job[j].full \o <<>> = job[j].full
        BY <2>1, BeyondNothing, ConcatEmptySeq
    <2> QED BY <1>1, <2>2 DEF Updated, Made, ProxyFits
<1>3. buf'.text = Made(job[j]) /\ buf'.dirty
    BY <1>2 DEF Update
<1>4. job'[j] = [job[j] EXCEPT !.pc = "store"] /\ \A k \in Jobs : k # j => job'[k] = job[k]
    BY DEF Update, Answer, Types, JobTypes
<1>5. ASSUME NEW k \in Jobs, job'[k] # Free PROVE ProxyFits(job[k])'
    <2>1. CASE k = j
        BY <1>1, <1>3, <1>4, <2>1 DEF ProxyFits, Requests, Made
    <2>2. CASE k # j
        <3>1. job[k].pc \notin {"update", "store"}
            BY <2>2 DEF Update, Types, JobTypes
        <3> QED BY <1>4, <1>5, <2>2, <3>1 DEF ProxyInv, ProxyFits
    <2> QED BY <2>1, <2>2
<1>6. ver' = ver /\ ~Idle'
    BY <1>1, <1>4 DEF Update, Idle, tabVars, Requests
<1> QED BY <1>3, <1>5, <1>6 DEF ProxyInv

LEMMA ProxyStore ==
    ASSUME Calm, Types, ProxyInv, NEW j \in Jobs, Store(j)
    PROVE  ProxyInv' /\ Outcome(j) = buf.text
<1>1. job[j] \in Requests /\ job[j] # Free /\ ProxyFits(job[j])
    BY Underway DEF Types, Store, Steps, ProxyInv
<1>2. Outcome(j) = buf.text
    BY <1>1 DEF Store, ProxyFits, Made, Outcome
<1>3. \A k \in Jobs : k # j => job'[k] = job[k] /\ job[k].pc \notin {"update", "store"}
    BY DEF Store, Told, Types, JobTypes
<1> DEFINE v == IF job[j].kind = "put" THEN FallbackVersion ELSE ZedVersion(buf.n)
<1>4. job'[j] = [job[j] EXCEPT !.pc = "saved", !.ver = v] /\ Named(v)
    BY DEF Store, Told, Types, JobTypes, Named, ZedVersion
<1> HIDE DEF v
<1>5. ProxyFits(job[j])'
    BY <1>1, <1>4 DEF ProxyFits, Requests
<1>6. ASSUME NEW k \in Jobs, job'[k] # Free PROVE ProxyFits(job[k])'
    BY <1>3, <1>5, <1>6 DEF ProxyInv, ProxyFits
<1>7. cached' = [n |-> buf'.n, text |-> buf'.text] /\ file' = buf'.text /\ ver' = ver
    BY <1>2 DEF Store, CacheOpenedBuffer, tabVars, Types, StoreTypes
<1> QED BY <1>2, <1>6, <1>7 DEF ProxyInv

\* Only where every open gives a buffer of its own can a call fail, and a save that fails
\* reports it.
LEMMA FaultAnswers ==
    ASSUME Calm, Types, ProxyInv, Reconnect \/ \E j \in Jobs : Fail(j)
    PROVE  /\ \A k \in Jobs : \/ job'[k] = job[k]
                              \/ job[k] # Free /\ job'[k] = [job[k] EXCEPT !.pc = "error"]
           /\ \A k \in Jobs : job[k] # Free => job[k] \in Requests /\ ProxyFits(job[k])
<1>1. MaxLost = 0
    BY CalmSpends
<1>2. \A k \in Jobs : job[k] # Free => job[k] \in Requests /\ ProxyFits(job[k])
    BY Underway DEF ProxyInv, Types
<1>3. \A k \in Jobs : job[k] # Free => AfterFailure(k) = "error"
    BY <1>1, <1>2 DEF AfterFailure, ProxyFits
<1>4. CASE Reconnect
    <2>1. \A k \in Jobs : k = lock => job[k] # Free
        BY Underway DEF Types, JobTypes, Steps
    <2> QED BY <1>2, <1>3, <1>4, <2>1 DEF Reconnect
<1>5. ASSUME NEW j \in Jobs, Fail(j)
      PROVE  \A k \in Jobs : \/ job'[k] = job[k]
                             \/ job[k] # Free /\ job'[k] = [job[k] EXCEPT !.pc = "error"]
    <2>1. job[j] # Free
        BY <1>5, Underway DEF Types, Fail
    <2> QED BY <1>3, <1>5, <2>1 DEF Fail, Answer, Types, JobTypes
<1> QED BY <1>2, <1>4, <1>5

LEMMA ProxyFault ==
    ASSUME Calm, Types, ProxyInv, Reconnect \/ \E j \in Jobs : Fail(j)
    PROVE  ProxyInv' /\ buf'.n = buf.n /\ buf'.text = buf.text
<1>1. ~ReusesBuffer /\ ver' = ver
    BY CalmSpends DEF Reconnect, Fail, tabVars
<1>2. /\ buf'.n = buf.n /\ buf'.text = buf.text
      /\ ~buf'.dirty => file' = buf'.text
    <2>1. CASE UNCHANGED <<buf, file>>
        BY <2>1 DEF ProxyInv
    <2>2. CASE file' = buf.text /\ buf' = [buf EXCEPT !.dirty = FALSE]
        BY <2>2 DEF Types, StoreTypes
    <2>3. ASSUME NEW j \in Jobs, job[j].pc \in {"write", "ssh"} PROVE FALSE
        BY <2>3 DEF Free, ProxyInv, ProxyFits
    <2> QED BY <2>1, <2>2, <2>3 DEF Reconnect, Fail
<1>3. ASSUME NEW k \in Jobs, job'[k] # Free PROVE ProxyFits(job[k])'
    <2>1. CASE job'[k] = job[k]
        BY <1>2, <1>3, <2>1, FaultAnswers DEF ProxyFits
    <2>2. CASE job[k] # Free /\ job'[k] = [job[k] EXCEPT !.pc = "error"]
        BY <2>2, FaultAnswers DEF ProxyFits, Requests
    <2> QED BY <2>1, <2>2, FaultAnswers
<1> QED BY <1>1, <1>2, <1>3 DEF ProxyInv

LEMMA ProxyStep == ASSUME Calm, Types, ProxyInv, [Next]_vars PROVE ProxyInv'
<1>1. CASE UNCHANGED vars
    BY <1>1 DEF vars, tabVars, ProxyInv, ProxyFits, Idle
<1>2. ASSUME NEW j \in Jobs, CheckByTransport(j) PROVE ProxyInv'
    <2>1. job[j] \in Requests /\ job[j] # Free /\ job[j].pc # "store"
        BY <1>2, Underway DEF Types, CheckByTransport, Steps
    <2>2. \A k \in Jobs : job'[k] = IF k = j THEN [job[j] EXCEPT !.pc = "conflict"] ELSE job[k]
        BY <1>2, CalmNever DEF Answer, Types, JobTypes
    <2>3. ProxyFits([job[j] EXCEPT !.pc = "conflict"])
        BY <2>1 DEF ProxyFits, ProxyInv, Requests
    <2>4. UNCHANGED <<ver, cached, buf, file>>
        BY <1>2 DEF CheckByTransport, tabVars
    <2>5. Idle' => Idle
        BY <2>1, <2>2 DEF Idle
    <2> QED BY <2>2, <2>3, <2>4, <2>5, ProxyKept DEF ProxyInv
<1> QED BY <1>1, <1>2, ProxyTab, ProxyOpened, ProxyUpdate, ProxyStore, ProxyFault, CalmNever,
           CalmSpends DEF Next, GatewayStep

LEMMA ProxyInvariant == ASSUME Calm PROVE Spec => []ProxyInv
<1>1. Init => ProxyInv
    BY SaveAssumption DEF Calm, Init, ProxyInv, Named, ZedVersion, Free
<1>2. Types /\ ProxyInv /\ [Next]_vars => ProxyInv'
    BY ProxyStep
<1> QED BY <1>1, <1>2, TypesInvariant, PTL DEF Spec

(* While the client is free, what it keeps of the file is what the remote server holds, so
   open_buffer_by_path may answer from it: for any tabs, edits, saves given up and PUTs,
   when nobody writes behind the proxy and no call fails half way.
   [zed_proxy/client.rs: open_buffer_by_path, cache_opened_buffer] *)
THEOREM CopyIsCurrent == ASSUME Calm PROVE Spec => []CopyCurrent
<1>1. Types /\ ProxyInv => CopyCurrent
    BY CopyIs DEF CopyCurrent, ProxyInv
<1> QED BY <1>1, TypesInvariant, ProxyInvariant, PTL

-----------------------------------------------------------------------------
(* An edit is applied once                                                 *)

Distinct(s) == \A i, k \in DOMAIN s : s[i] = s[k] => i = k

\* The edits typed and the changes made outside so far.
Given == 1..spent.edits \cup (MaxEdits + 1)..(MaxEdits + spent.outside)

Once(U, s) == Occurs(s) \subseteq U /\ Distinct(s)

Now == [n |-> buf.n, text |-> buf.text]

\* What a version may be compared with, now or when the call under way has stored its text.
Copies ==
    {Now} \cup ({cached} \ {NoCopy})
    \cup {[n |-> buf.n, text |-> Made(job[j])] : j \in {i \in Jobs : job[i].pc = "store"}}

CopyTyped == [n : Nat, text : Contents]

\* No copy is older than the version, and one that has it, or the content its hash is of,
\* has none of the edits s yet.
Behind(C, U, v, s) ==
    /\ v.scheme = "zed" =>
          \A c \in C : v.n <= c.n /\ (v.n = c.n => Distinct(c.text \o s))
    /\ v.scheme = "ssh" => Occurs(v.text) \subseteq U /\ Distinct(v.text \o s)

TabOnce(C, U, c, p, v) == Once(U, c) /\ Occurs(p) \subseteq U /\ Behind(C, U, v, p)

RequestOnce(C, U, r) ==
    /\ Once(U, r.full) /\ Occurs(r.batches) \subseteq U
    /\ Behind(C, U, r.ver, IF r.pc = "saved" THEN <<>> ELSE r.batches)
    /\ r.pc \in {"update", "store", "write", "ssh"} => Once(U, Made(r))

(* AppliedOnce alone is not kept: a save is checked long after its batches were typed, and
   what keeps it off a text that has them already is its version. *)
OnceInv ==
    /\ \A c \in Copies : c.n <= buf.n /\ Once(Given, c.text)
    /\ Once(Given, file)
    /\ \A t \in Tabs : TabOnce(Copies, Given, cur[t], pend[t], ver[t])
    /\ \A j \in Jobs : job[j] # Free => RequestOnce(Copies, Given, job[j])

LEMMA OnceNothing == \A U : Once(U, <<>>) /\ Occurs(<<>>) = {} /\ <<>> \o <<>> = <<>>
BY DEF Once, Distinct, Occurs

LEMMA OccursConcat ==
    ASSUME NEW S, NEW s \in Seq(S), NEW t \in Seq(S)
    PROVE  Occurs(s \o t) \subseteq Occurs(s) \cup Occurs(t)
<1>1. SUFFICES ASSUME NEW i \in 1..(Len(s) + Len(t))
               PROVE  (s \o t)[i] \in Occurs(s) \cup Occurs(t)
    BY DEF Occurs
<1>2. CASE i <= Len(s)
    <2>1. i \in DOMAIN s /\ (s \o t)[i] = s[i]
        BY <1>2
    <2> QED BY <2>1 DEF Occurs
<1>3. CASE i > Len(s)
    <2>1. i - Len(s) \in DOMAIN t /\ (s \o t)[i] = t[i - Len(s)]
        BY <1>3
    <2> QED BY <2>1 DEF Occurs
<1> QED BY <1>2, <1>3

\* An edit that nothing had goes behind.
LEMMA OnceNext ==
    ASSUME NEW S, NEW s \in Seq(S), NEW e \in S, NEW U, e \notin U, Occurs(s) \subseteq U
    PROVE  /\ Occurs(Append(s, e)) \subseteq U \cup {e}
           /\ Distinct(s) => Distinct(Append(s, e))
<1> DEFINE a == Append(s, e)
<1>1. /\ DOMAIN a = 1..(Len(s) + 1) /\ DOMAIN s = 1..Len(s) /\ Len(s) \in Nat
      /\ a[Len(s) + 1] = e /\ \A i \in 1..Len(s) : a[i] = s[i] /\ s[i] \in U
    BY DEF Occurs
<1> HIDE DEF a
<1>2. Occurs(a) \subseteq U \cup {e}
    <2>1. \A i \in DOMAIN a : i \in 1..Len(s) \/ i = Len(s) + 1
        BY <1>1
    <2>2. \A i \in DOMAIN a : a[i] \in U \cup {e}
        BY <1>1, <2>1
    <2> QED BY <2>2 DEF Occurs
<1>3. ASSUME Distinct(s), NEW i \in DOMAIN a, NEW k \in DOMAIN a, a[i] = a[k] PROVE i = k
    <2>1. CASE i \in 1..Len(s) /\ k \in 1..Len(s)
        BY <1>1, <1>3, <2>1 DEF Distinct
    <2>2. CASE i = Len(s) + 1 \/ k = Len(s) + 1
        BY <1>1, <1>3, <2>2
    <2> QED BY <1>1, <2>1, <2>2
<1>4. Distinct(s) => Distinct(a)
    BY <1>3 DEF Distinct
<1> QED BY <1>2, <1>4 DEF a

\* The same behind a content and the edits that are on their way to it.
LEMMA OnceBehind ==
    ASSUME NEW S, NEW b \in Seq(S), NEW p \in Seq(S), NEW e \in S, NEW U, e \notin U,
           Occurs(b) \subseteq U, Occurs(p) \subseteq U, Distinct(b \o p)
    PROVE  Distinct(b \o Append(p, e))
<1>1. b \o p \in Seq(S) /\ Occurs(b \o p) \subseteq U
    BY OccursConcat
<1>2. Distinct(Append(b \o p, e))
    BY <1>1, OnceNext
<1>3. Append(b \o p, e) = b \o Append(p, e)
    <2>1. <<e>> \in Seq(S)
        OBVIOUS
    <2>2. Append(b \o p, e) = (b \o p) \o <<e>> /\ Append(p, e) = p \o <<e>>
        BY <1>1, AppendIsConcat
    <2>3. (b \o p) \o <<e>> = b \o (p \o <<e>>)
        BY <2>1, ConcatAssociative
    <2> QED BY <2>2, <2>3
<1> QED BY <1>2, <1>3

LEMMA CopiesTyped == Types => Copies \subseteq CopyTyped
<1> SUFFICES ASSUME Types PROVE Copies \subseteq CopyTyped
    OBVIOUS
<1>1. Now \in CopyTyped /\ cached \in CopyTyped
    BY DEF Types, StoreTypes, Now, CopyTyped
<1>2. ASSUME NEW j \in Jobs, job[j].pc = "store"
      PROVE  [n |-> buf.n, text |-> Made(job[j])] \in CopyTyped
    <2>1. job[j] \in Requests
        BY <1>2, Underway DEF Types, Steps
    <2>2. Made(job[j]) \in Contents
        BY <2>1, OutcomeTypes DEF Made, Outcome
    <2> QED BY <2>2 DEF Types, StoreTypes, CopyTyped
<1> QED BY <1>1, <1>2 DEF Copies

LEMMA CopiesTypedNext == Types' => Copies' \subseteq CopyTyped
<1>1. (Types => Copies \subseteq CopyTyped)'
    BY CopiesTyped, PTL
<1> QED BY <1>1

\* A copy that is new is newer than one there was.
LEMMA BehindGrows ==
    ASSUME NEW U, NEW V, U \subseteq V,
           NEW C \in SUBSET CopyTyped, NEW D \in SUBSET CopyTyped,
           \A d \in D : d \in C \/ \E c \in C : c.n < d.n,
           NEW v \in Versions, NEW s, Behind(C, U, v, s)
    PROVE  Behind(D, V, v, s)
<1>1. SUFFICES ASSUME v.scheme = "zed", NEW d \in D
               PROVE  v.n <= d.n /\ (v.n = d.n => Distinct(d.text \o s))
    BY DEF Behind
<1>2. \A c \in C \cup D : c.n \in Nat
    BY DEF CopyTyped
<1>3. v.n \in Nat
    BY DEF Versions
<1>4. CASE d \in C
    BY <1>1, <1>4 DEF Behind
<1>5. ASSUME NEW c \in C, c.n < d.n PROVE v.n < d.n
    <2>1. v.n <= c.n
        BY <1>1 DEF Behind
    <2> QED BY <1>2, <1>3, <1>5, <2>1
<1> QED BY <1>2, <1>3, <1>4, <1>5

\* Edits are given and never taken back; a request that changes, and what it changes in a
\* tab, is stated of the state it leads to.
LEMMA OnceKept ==
    ASSUME Types, Types', OnceInv, Given \subseteq Given', buf.n <= buf'.n,
           \A d \in Copies' : \/ d \in Copies
                              \/ /\ \E c \in Copies : c.n < d.n
                                 /\ d.n <= buf'.n /\ Once(Given', d.text),
           Once(Given', file'),
           \A t \in Tabs : \/ cur'[t] = cur[t] /\ pend'[t] = pend[t] /\ ver'[t] = ver[t]
                           \/ TabOnce(Copies', Given', cur'[t], pend'[t], ver'[t]),
           \A k \in Jobs : \/ job'[k] = job[k] \/ job'[k] = Free
                           \/ RequestOnce(Copies', Given', job'[k])
    PROVE  OnceInv'
<1>1. Copies \subseteq CopyTyped /\ Copies' \subseteq CopyTyped
    BY CopiesTyped, CopiesTypedNext
<1>2. \A v \in Versions : \A s :
          Behind(Copies, Given, v, s) => Behind(Copies', Given', v, s)
    BY <1>1, BehindGrows
<1>3. \A s : Once(Given, s) => Once(Given', s)
    BY DEF Once
<1>4. \A d \in Copies' : d.n <= buf'.n /\ Once(Given', d.text)
    <2>1. \A d \in Copies : d.n \in Nat /\ buf.n \in Nat /\ buf'.n \in Nat
        BY <1>1 DEF Types, StoreTypes, CopyTyped
    <2> QED BY <1>3, <2>1 DEF OnceInv
<1>5. \A t \in Tabs : TabOnce(Copies', Given', cur'[t], pend'[t], ver'[t])
    <2>1. SUFFICES ASSUME NEW t \in Tabs, ver'[t] = ver[t],
                          TabOnce(Copies, Given, cur[t], pend[t], ver[t])
                   PROVE  TabOnce(Copies', Given', cur[t], pend[t], ver[t])
        BY DEF OnceInv
    <2>2. ver[t] \in Versions
        BY DEF Types, TabTypes
    <2> QED BY <1>2, <1>3, <2>1, <2>2 DEF TabOnce
<1>6. \A k \in Jobs : job'[k] # Free => RequestOnce(Copies', Given', job'[k])
    <2>1. SUFFICES ASSUME NEW k \in Jobs, job[k] # Free, RequestOnce(Copies, Given, job[k])
                   PROVE  RequestOnce(Copies', Given', job[k])
        BY DEF OnceInv
    <2>2. job[k].ver \in Versions
        BY <2>1, Underway DEF Types, Requests
    <2> QED BY <1>2, <1>3, <2>1, <2>2 DEF RequestOnce
<1> QED BY <1>4, <1>5, <1>6 DEF OnceInv, Free

\* What Copies is made of stays, but for what is forgotten.
LEMMA CopiesKept ==
    ASSUME buf'.n = buf.n, buf'.text = buf.text, cached' \in {cached, NoCopy, Now},
           \A k \in Jobs : job'[k].pc = "store" =>
               job[k].pc = "store" /\ Made(job'[k]) = Made(job[k])
    PROVE  Copies' \subseteq Copies
<1>1. Now' = Now
    BY DEF Now
<1>2. ASSUME NEW k \in Jobs, job'[k].pc = "store"
      PROVE  [n |-> buf'.n, text |-> Made(job'[k])] \in Copies
    BY <1>2 DEF Copies
<1>3. Copies' = {Now'} \cup ({cached'} \ {NoCopy})
          \cup {[n |-> buf'.n, text |-> Made(job'[j])] : j \in {i \in Jobs : job'[i].pc = "store"}}
    BY DEF Copies
<1> QED BY <1>1, <1>2, <1>3 DEF Copies

\* Nothing is written, opened or typed.
LEMMA OnceQuiet ==
    ASSUME Types, Types', OnceInv, spent'.edits = spent.edits, spent'.outside = spent.outside,
           buf'.n = buf.n, buf'.text = buf.text, cached' \in {cached, NoCopy, Now},
           Once(Given, file'),
           \A k \in Jobs : job'[k].pc = "store" =>
               job[k].pc = "store" /\ Made(job'[k]) = Made(job[k]),
           \A t \in Tabs : \/ cur'[t] = cur[t] /\ pend'[t] = pend[t] /\ ver'[t] = ver[t]
                           \/ TabOnce(Copies', Given, cur'[t], pend'[t], ver'[t]),
           \A k \in Jobs : \/ job'[k] = job[k] \/ job'[k] = Free
                           \/ RequestOnce(Copies', Given, job'[k])
    PROVE  OnceInv'
<1>1. Given' = Given
    BY DEF Given
<1>2. Copies' \subseteq Copies
    BY CopiesKept
<1>3. buf.n <= buf'.n
    BY DEF Types, StoreTypes
<1> QED BY <1>1, <1>2, <1>3, OnceKept

\* One place fewer to look at is no harm.
LEMMA RequestFewer ==
    ASSUME Copies' \subseteq Copies, NEW r, RequestOnce(Copies, Given, r)
    PROVE  RequestOnce(Copies', Given, r)
BY DEF RequestOnce, Behind

\* An answer that is not of success, or the way on over ssh of a PUT.
LEMMA RequestAnswered ==
    ASSUME NEW C, NEW r \in Requests, RequestOnce(C, Given, r),
           NEW pc \in {"conflict", "error", "ssh"}, pc = "ssh" => r.kind = "put",
           r.pc # "saved"
    PROVE  RequestOnce(C, Given, [r EXCEPT !.pc = pc])
<1> DEFINE q == [r EXCEPT !.pc = pc]
<1>1. /\ q.full = r.full /\ q.batches = r.batches /\ q.ver = r.ver /\ q.pc = pc
      /\ q.kind = r.kind /\ q.text = r.text
    BY DEF Requests
<1> HIDE DEF q
<1>2. pc = "ssh" => Once(Given, Made(q))
    BY <1>1 DEF Made, RequestOnce
<1> QED BY <1>1, <1>2 DEF RequestOnce, q

LEMMA OnceType == ASSUME Types, Types', OnceInv, NEW t \in Tabs, Type(t) PROVE OnceInv'
<1> DEFINE e == spent.edits + 1
<1>1. /\ spent'.edits = e /\ spent'.outside = spent.outside
      /\ spent.edits \in Nat /\ spent.outside \in Nat /\ e <= MaxEdits
    BY SpendTypes DEF Types, SpentTypes, Type, Spend, Bound
<1>2. e \notin Given /\ Given' = Given \cup {e} /\ e \in Edits
    BY <1>1, SaveAssumption DEF Given, Edits
<1>3. UNCHANGED <<ver, job, buf, cached, file>>
    BY DEF Type
<1>4. /\ \A u \in Tabs : u # t => cur'[u] = cur[u] /\ pend'[u] = pend[u]
      /\ cur'[t] = Append(cur[t], e) /\ pend'[t] = Append(pend[t], e)
    BY <1>1 DEF Type, Types, TabTypes
<1> HIDE DEF e
<1>5. Copies' = Copies
    BY <1>3 DEF Copies, Now
<1>6. TabOnce(Copies', Given', cur'[t], pend'[t], ver'[t])
    <2>1. TabOnce(Copies, Given, cur[t], pend[t], ver[t])
        BY DEF OnceInv
    <2>2. /\ cur[t] \in Seq(Edits) /\ pend[t] \in Seq(Edits) /\ ver[t] \in Versions
          /\ ver[t].text \in Seq(Edits)
        BY DEF Types, TabTypes, Contents, Versions
    <2>3. Once(Given', cur'[t]) /\ Occurs(pend'[t]) \subseteq Given'
        BY <1>2, <1>4, <2>1, <2>2, OnceNext DEF TabOnce, Once
    <2>4. ASSUME NEW c \in Copies, Distinct(c.text \o pend[t]) PROVE Distinct(c.text \o pend'[t])
        <3>1. c.text \in Seq(Edits) /\ Occurs(c.text) \subseteq Given
            BY CopiesTyped DEF CopyTyped, Contents, OnceInv, Once
        <3> QED BY <1>2, <1>4, <2>1, <2>2, <2>4, <3>1, OnceBehind DEF TabOnce
    <2>5. ASSUME Occurs(ver[t].text) \subseteq Given, Distinct(ver[t].text \o pend[t])
          PROVE  Distinct(ver[t].text \o pend'[t])
        BY <1>2, <1>4, <2>1, <2>2, <2>5, OnceBehind DEF TabOnce
    <2>6. Behind(Copies, Given', ver[t], pend'[t])
        BY <1>2, <2>1, <2>4, <2>5 DEF TabOnce, Behind
    <2> QED BY <1>3, <1>5, <2>3, <2>6 DEF TabOnce
<1>7. Once(Given', file')
    BY <1>2, <1>3 DEF OnceInv, Once
<1>8. buf.n <= buf'.n
    BY <1>3 DEF Types, StoreTypes
<1> QED BY <1>2, <1>3, <1>4, <1>5, <1>6, <1>7, <1>8, OnceKept

LEMMA OnceOutside == ASSUME Types, Types', OnceInv, ChangeOutside PROVE OnceInv'
<1> DEFINE e == MaxEdits + spent.outside + 1
<1>1. /\ spent'.outside = spent.outside + 1 /\ spent'.edits = spent.edits
      /\ spent.outside \in Nat /\ spent.edits \in Nat /\ spent.edits <= MaxEdits
      /\ spent'.outside <= MaxOutside
    <2>1. SpentTypes /\ Spend("outside")
        BY DEF Types, ChangeOutside
    <2>2. SpentTypes' /\ spent'["outside"] = spent["outside"] + 1
        BY <2>1, SpendTypes
    <2>3. spent'.edits = spent.edits
        BY <2>1 DEF SpentTypes, Spend
    <2> QED BY <2>1, <2>2, <2>3 DEF SpentTypes
<1>2. e \notin Given /\ Given' = Given \cup {e} /\ e \in Edits /\ file' = Append(file, e)
    <2>1. MaxEdits \in Nat /\ MaxOutside \in Nat
        BY SaveAssumption
    <2>2. file' = Append(file, MaxEdits + spent'.outside)
        BY DEF ChangeOutside
    <2>3. MaxEdits + spent'.outside = e
        BY <1>1, <2>1
    <2>4. e \notin Given /\ Given' = Given \cup {e}
        BY <1>1, <2>1 DEF Given
    <2>5. e \in Edits
        BY <1>1, <2>1 DEF Edits
    <2> QED BY <2>2, <2>3, <2>4, <2>5
<1>3. UNCHANGED <<cur, pend, ver, job, buf, cached>>
    BY DEF ChangeOutside, tabVars
<1> HIDE DEF e
<1>4. Copies' = Copies
    BY <1>3 DEF Copies, Now
<1>5. Once(Given', file')
    BY <1>2, OnceNext DEF OnceInv, Once, Types, StoreTypes, Contents
<1>6. buf.n <= buf'.n
    BY <1>3 DEF Types, StoreTypes
<1> QED BY <1>2, <1>3, <1>4, <1>5, <1>6, OnceKept

LEMMA OnceReload == ASSUME Types, Types', OnceInv, Reload PROVE OnceInv'
<1>1. /\ UNCHANGED <<cur, pend, ver, job, cached, file>>
      /\ buf'.n = buf.n + 1 /\ buf'.text = file /\ buf.n \in Nat
    BY DEF Reload, tabVars, Types, StoreTypes
<1>2. Given' = Given
    BY DEF Reload, Given, Spend, Types, SpentTypes
<1>3. Once(Given, file)
    BY DEF OnceInv
<1>4. Now \in Copies /\ Now.n < buf'.n
    BY <1>1 DEF Copies, Now
<1>5. ASSUME NEW d \in Copies'
      PROVE  d \in Copies \/ (Now.n < d.n /\ d.n <= buf'.n /\ Once(Given', d.text))
    <2>1. CASE d = Now'
        BY <1>1, <1>2, <1>3, <1>4, <2>1 DEF Now
    <2>2. CASE d \in {cached} \ {NoCopy}
        BY <2>2 DEF Copies
    <2>3. ASSUME NEW j \in Jobs, job[j].pc = "store", d = [n |-> buf'.n, text |-> Made(job[j])]
          PROVE  Now.n < d.n /\ d.n <= buf'.n /\ Once(Given', d.text)
        <3>1. Once(Given, Made(job[j]))
            BY <2>3 DEF OnceInv, RequestOnce, Free
        <3> QED BY <1>1, <1>2, <1>4, <2>3, <3>1
    <2> QED BY <1>1, <2>1, <2>2, <2>3 DEF Copies
<1> QED BY <1>1, <1>2, <1>3, <1>4, <1>5, OnceKept

LEMMA OnceOpen ==
    ASSUME Types, Types', OnceInv, NEW t \in Tabs, OpenByProxy(t) \/ OpenByTransport(t)
    PROVE  OnceInv'
<1>1. Copy \in Copies /\ Copy \in {cached, Now} /\ Copy \in CopyTyped
    BY CopyTypes DEF Copy, Copies, Now, Types, CopyTyped
<1>2. PICK version, content :
          /\ Reopen(t, version, content)
          /\ \/ /\ OpenByProxy(t)
                /\ version = ZedVersion(Copy.n) /\ content = Copy.text /\ cached' = Copy
             \/ /\ cached' = cached /\ version = SshVersion(file) /\ content = file
    BY DEF OpenByProxy, OpenByTransport
<1>3. UNCHANGED <<job, buf, file, spent>>
    BY DEF OpenByProxy, OpenByTransport
<1>4. cached' \in {cached, Now}
    BY <1>1, <1>2
<1>5. Copies' \subseteq Copies
    BY <1>3, <1>4, CopiesKept
<1>6. Once(Given, content)
    BY <1>1, <1>2 DEF OnceInv
<1>7. Behind(Copies', Given, version, <<>>)
    <2>1. \A c \in Copies : Distinct(c.text \o <<>>)
        <3>1. SUFFICES ASSUME NEW c \in Copies PROVE Distinct(c.text \o <<>>)
            OBVIOUS
        <3>2. c.text \o <<>> = c.text
            BY CopiesTyped, ConcatEmptySeq DEF CopyTyped, Contents
        <3> QED BY <3>2 DEF OnceInv, Once
    <2>2. ASSUME OpenByProxy(t), cached' = Copy PROVE \A c \in Copies' : Copy.n <= c.n
        <3>1. \A j \in Jobs : job[j].pc # "store"
            BY <2>2, SaveAssumption DEF OpenByProxy, Types, JobTypes
        <3>2. Copies' \subseteq {Now, Copy}
            BY <1>3, <2>2, <3>1 DEF Copies, Now
        <3>3. Copy.n <= Now.n /\ Copy.n \in Nat
            BY <1>1 DEF OnceInv, Now, CopyTyped
        <3> QED BY <3>2, <3>3
    <2>3. CASE version = SshVersion(file)
        <3>1. file \o <<>> = file
            BY ConcatEmptySeq DEF Types, StoreTypes, Contents
        <3> QED BY <2>3, <3>1 DEF Behind, SshVersion, OnceInv, Once
    <2> QED BY <1>2, <1>5, <2>1, <2>2, <2>3 DEF Behind, ZedVersion
<1>8. \A u \in Tabs : IF u = t
          THEN cur'[u] = content /\ pend'[u] = <<>> /\ ver'[u] = version
          ELSE cur'[u] = cur[u] /\ pend'[u] = pend[u] /\ ver'[u] = ver[u]
    BY <1>2 DEF Reopen, Types, TabTypes
<1>9. TabOnce(Copies', Given, content, <<>>, version)
    BY <1>6, <1>7, OnceNothing DEF TabOnce
<1>10. Once(Given, file')
    BY <1>3 DEF OnceInv
<1> QED BY <1>3, <1>4, <1>8, <1>9, <1>10, OnceQuiet

LEMMA OnceAsked ==
    ASSUME Types, Types', OnceInv, NEW t \in Tabs, NEW j \in Jobs, NEW k \in Jobs,
           StartSave(t, j) \/ GiveUp(j, k)
    PROVE  OnceInv'
<1>1. /\ UNCHANGED <<cur, pend, ver, cached, buf, file>>
      /\ spent'.edits = spent.edits /\ spent'.outside = spent.outside
    BY DEF StartSave, GiveUp, tabVars, Spend, Types, SpentTypes
<1>2. Once(Given, file')
    BY <1>1 DEF OnceInv
<1>3. \A u \in Tabs, kind \in Kinds : RequestOnce(Copies, Given, Request(u, kind))
    BY DEF OnceInv, TabOnce, RequestOnce, Request
<1>4. CASE StartSave(t, j)
    <2>1. \A i \in Jobs : job'[i] = IF i = j THEN Request(t, "save") ELSE job[i]
        BY <1>4 DEF StartSave, Types, JobTypes
    <2>2. \A i \in Jobs : job'[i].pc = "store" => job'[i] = job[i]
        BY <2>1 DEF Request
    <2>3. Copies' \subseteq Copies
        BY <1>1, <2>2, CopiesKept
    <2>4. RequestOnce(Copies', Given, Request(t, "save"))
        BY <1>3, <2>3, RequestFewer DEF Kinds
    <2> QED BY <1>1, <1>2, <2>1, <2>2, <2>4, OnceQuiet
<1>5. CASE GiveUp(j, k)
    <2> DEFINE q == [job[j] EXCEPT !.awaited = FALSE]
               r == Request(job[j].tab, "put")
    <2>1. job[j] \in Requests /\ job[j] # Free /\ j # k /\ job[j].tab \in Tabs
        BY <1>5, Underway DEF Types, GiveUp, Requests
    <2>2. \A i \in Jobs : job'[i] = IF i = k THEN r ELSE IF i = j THEN q ELSE job[i]
        BY <1>5, <2>1 DEF GiveUp, Types, JobTypes
    <2>3. /\ q.pc = job[j].pc /\ Made(q) = Made(job[j]) /\ q.full = job[j].full
          /\ q.batches = job[j].batches /\ q.ver = job[j].ver
        BY <2>1 DEF Requests, Made
    <2>4. RequestOnce(Copies, Given, q)
        BY <2>1, <2>3 DEF RequestOnce, OnceInv
    <2>5. r.pc = "sent"
        BY DEF Request
    <2> HIDE DEF q, r
    <2>6. \A i \in Jobs : job'[i].pc = "store" =>
              job[i].pc = "store" /\ Made(job'[i]) = Made(job[i])
        BY <2>2, <2>3, <2>5
    <2>7. Copies' \subseteq Copies
        BY <1>1, <2>6, CopiesKept
    <2>8. RequestOnce(Copies', Given, q) /\ RequestOnce(Copies', Given, r)
        BY <1>3, <2>1, <2>4, <2>7, RequestFewer DEF Kinds, r
    <2> QED BY <1>1, <1>2, <2>2, <2>6, <2>8, OnceQuiet
<1> QED BY <1>4, <1>5

LEMMA OnceDeliver ==
    ASSUME Types, Types', OnceInv, NEW j \in Jobs, Deliver(j)
    PROVE  OnceInv'
<1>1. /\ job[j] \in Requests /\ job[j] # Free /\ UNCHANGED <<buf, spent, cached, file>>
      /\ \A k \in Jobs : job'[k] = IF k = j THEN Free ELSE job[k]
    BY DeliverEffect, Underway DEF Types, JobTypes, Deliver
<1>2. \A k \in Jobs : job'[k].pc = "store" => job'[k] = job[k]
    BY <1>1 DEF Free
<1>3. Copies' \subseteq Copies
    BY <1>1, <1>2, CopiesKept
<1>4. Once(Given, file')
    BY <1>1 DEF OnceInv
<1>5. \A t \in Tabs : \/ cur'[t] = cur[t] /\ pend'[t] = pend[t] /\ ver'[t] = ver[t]
                      \/ TabOnce(Copies', Given, cur'[t], pend'[t], ver'[t])
    <2>1. CASE job[j].pc = "saved" /\ HandleSaved(j)
        <3>1. Behind(Copies, Given, job[j].ver, <<>>)
            BY <1>1, <2>1 DEF OnceInv, RequestOnce
        <3>2. \A t \in Tabs : TabOnce(Copies', Given, cur[t], <<>>, job[j].ver)
            BY <1>3, <3>1, OnceNothing DEF OnceInv, TabOnce, Behind
        <3>3. \A t \in Tabs : cur'[t] = cur[t]
                  /\ \/ pend'[t] = pend[t] /\ ver'[t] = ver[t]
                     \/ pend'[t] = <<>> /\ ver'[t] = job[j].ver
            BY <2>1 DEF HandleSaved, MarkSaved, Types, TabTypes
        <3> QED BY <3>2, <3>3
    <2> QED BY <2>1, DeliverEffect
<1> QED BY <1>1, <1>2, <1>4, <1>5, OnceQuiet

\* A request that goes on without the store, its call answered or not.
LEMMA OnceAnswered ==
    ASSUME Types, Types', OnceInv, spent'.edits = spent.edits, spent'.outside = spent.outside,
           UNCHANGED <<cur, pend, ver>>, buf'.n = buf.n, buf'.text = buf.text,
           cached' \in {cached, NoCopy, Now}, Once(Given, file'),
           \A k \in Jobs : \/ job'[k] = job[k]
                           \/ /\ RequestOnce(Copies, Given, job'[k])
                              /\ job'[k].pc # "store"
    PROVE  OnceInv'
<1>1. \A k \in Jobs : job'[k].pc = "store" => job'[k] = job[k]
    OBVIOUS
<1>2. Copies' \subseteq Copies
    BY <1>1, CopiesKept
<1>3. \A k \in Jobs : job'[k] = job[k] \/ RequestOnce(Copies', Given, job'[k])
    BY <1>2, RequestFewer
<1> QED BY <1>1, <1>3, OnceQuiet

LEMMA OnceOpened ==
    ASSUME Types, Types', OnceInv, NEW j \in Jobs, CheckByProxy(j) \/ OpenForPut(j)
    PROVE  OnceInv'
<1>1. job[j] \in Requests /\ job[j] # Free /\ job[j].pc = "sent"
      /\ RequestOnce(Copies, Given, job[j])
    BY Underway DEF Types, CheckByProxy, OpenForPut, Steps, OnceInv
<1>2. /\ Copy \in Copies /\ Copy \in {cached, Now} /\ Copy \in CopyTyped /\ Copy.n <= buf.n
      /\ Once(Given, Copy.text)
    <2>1. Copy \in Copies /\ Copy \in {cached, Now} /\ Copy \in CopyTyped
        BY CopyTypes DEF Copy, Copies, Now, Types, CopyTyped
    <2> QED BY <2>1 DEF OnceInv
<1>3. UNCHANGED <<cur, pend, ver, buf, file, spent>> /\ cached' = Copy
    BY DEF CheckByProxy, OpenForPut, tabVars
<1>4. Given' = Given /\ Once(Given, file') /\ buf.n <= buf'.n
    <2>1. buf.n \in Nat /\ buf' = buf
        BY <1>3 DEF Types, StoreTypes
    <2>2. Given' = Given /\ Once(Given, file')
        BY <1>3 DEF Given, OnceInv
    <2> QED BY <2>1, <2>2
<1>5. ASSUME NEW pc \in {"conflict", "error"}, Answer(j, pc) PROVE OnceInv'
    <2>1. \A k \in Jobs : job'[k] = IF k = j THEN [job[j] EXCEPT !.pc = pc] ELSE job[k]
        BY <1>5 DEF Answer, Types, JobTypes
    <2>2. RequestOnce(Copies, Given, [job[j] EXCEPT !.pc = pc])
        BY <1>1, RequestAnswered
    <2>3. [job[j] EXCEPT !.pc = pc].pc # "store"
        BY <1>1 DEF Requests
    <2> QED BY <1>2, <1>3, <1>4, <2>1, <2>2, <2>3, OnceAnswered
<1>6. ASSUME NEW pc \in {"store", "update"},
             job' = [job EXCEPT ![j].text = Copy.text, ![j].pc = pc],
             job[j].kind = "save" => job[j].ver = ZedVersion(Copy.n),
             pc = "store" => job[j].kind = "save" /\ job[j].batches = <<>>
      PROVE  OnceInv'
    <2> DEFINE q == [job[j] EXCEPT !.text = Copy.text, !.pc = pc]
    <2>1. \A k \in Jobs : job'[k] = IF k = j THEN q ELSE job[k]
        BY <1>6 DEF Types, JobTypes
    <2>2. /\ q.full = job[j].full /\ q.batches = job[j].batches /\ q.ver = job[j].ver
          /\ q.kind = job[j].kind /\ q.pc = pc /\ q.text = Copy.text
          /\ job[j].kind \in Kinds /\ job[j].batches \in Seq(Edits) /\ job[j].ver \in Versions
        BY <1>1 DEF Requests, Contents
    <2> HIDE DEF q
    <2>3. Once(Given, Made(q))
        <3>1. CASE job[j].kind = "put"
            BY <1>1, <2>2, <3>1 DEF Made, RequestOnce
        <3>2. CASE job[j].kind = "save"
            <4>1. Distinct(Copy.text \o job[j].batches)
                BY <1>1, <1>2, <1>6, <3>2 DEF RequestOnce, Behind, ZedVersion, CopyTyped
            <4>2. Occurs(Copy.text \o job[j].batches) \subseteq Given
                BY <1>1, <1>2, <2>2, OccursConcat DEF RequestOnce, Once, CopyTyped, Contents
            <4> QED BY <2>2, <3>2, <4>1, <4>2 DEF Made, Once
        <3> QED BY <2>2, <3>1, <3>2 DEF Kinds
    <2>4. ASSUME pc = "store" PROVE Made(q) = Copy.text
        <3>1. Copy.text \o <<>> = Copy.text
            BY <1>2, ConcatEmptySeq DEF CopyTyped, Contents
        <3> QED BY <1>6, <2>2, <2>4, <3>1 DEF Made
    <2>5. ASSUME NEW d \in Copies'
          PROVE  d \in Copies \/ (Copy.n < d.n /\ d.n <= buf'.n /\ Once(Given', d.text))
        <3>1. CASE d \in {Now', cached'}
            BY <1>2, <1>3, <3>1 DEF Now, Copies
        <3>2. ASSUME NEW k \in Jobs, job'[k].pc = "store",
                     d = [n |-> buf.n, text |-> Made(job'[k])]
              PROVE  d \in Copies \/ (Copy.n < d.n /\ d.n <= buf'.n /\ Once(Given', d.text))
            <4>1. CASE k # j
                <5>1. job'[k] = job[k]
                    BY <2>1, <4>1
                <5> QED BY <3>2, <5>1 DEF Copies
            <4>2. CASE k = j
                <5>1. d = [n |-> buf.n, text |-> Copy.text]
                    BY <2>1, <2>2, <2>4, <3>2, <4>2
                <5>2. CASE Copy.n = buf.n
                    BY <1>2, <5>1, <5>2 DEF CopyTyped
                <5>3. CASE Copy.n # buf.n
                    BY <1>2, <1>3, <1>4, <5>1, <5>3 DEF CopyTyped, Types, StoreTypes
                <5> QED BY <5>2, <5>3
            <4> QED BY <4>1, <4>2
        <3> QED BY <1>3, <3>1, <3>2 DEF Copies
    <2>6. RequestOnce(Copies', Given', job'[j])
        <3>1. \A d \in Copies' : d \in Copies \/ \E c \in Copies : c.n < d.n
            BY <1>2, <2>5
        <3>2. Behind(Copies', Given', job[j].ver, job[j].batches)
            <4>1. Behind(Copies, Given, job[j].ver, job[j].batches)
                BY <1>1 DEF RequestOnce
            <4> QED BY <1>4, <2>2, <3>1, <4>1, BehindGrows, CopiesTyped, CopiesTypedNext
        <3> QED BY <1>1, <1>4, <2>1, <2>2, <2>3, <3>2 DEF RequestOnce
    <2> QED BY <1>2, <1>3, <1>4, <2>1, <2>5, <2>6, OnceKept
<1>7. CASE CheckByProxy(j)
    <2>1. CASE /\ VersionMatches(job[j].ver, ZedVersion(Copy.n)) /\ job[j].kind = "save"
               /\ job' = [job EXCEPT ![j].text = Copy.text,
                                     ![j].pc = IF job[j].batches = <<>> THEN "store" ELSE "update"]
        BY <1>6, <2>1 DEF VersionMatches
    <2> QED BY <1>5, <1>7, <2>1 DEF CheckByProxy
<1>8. CASE OpenForPut(j)
    BY <1>6, <1>8 DEF OpenForPut
<1> QED BY <1>7, <1>8

\* The step that may apply an edit twice: the operations are on the text that was opened,
\* and the buffer still has it.
LEMMA OnceUpdate ==
    ASSUME Types, Types', OnceInv, NEW j \in Jobs, Update(j), job[j].text = buf.text
    PROVE  OnceInv'
<1>1. /\ job[j] \in Requests /\ job[j] # Free /\ job[j].pc = "update" /\ lock = j
      /\ RequestOnce(Copies, Given, job[j])
    BY Underway DEF Types, Update, Steps, OnceInv
<1>2. /\ buf.text \in Seq(Edits) /\ job[j].full \in Seq(Edits) /\ job[j].batches \in Seq(Edits)
      /\ job[j].kind \in Kinds /\ buf.n \in Nat /\ job[j].ver \in Versions
    BY <1>1 DEF Types, StoreTypes, Requests, Contents
<1>3. Updated(j) = Made(job[j])
    <2>1. Beyond(buf.text, Occurs(buf.text)) = <<>> /\ job[j].full \o <<>> = job[j].full
        BY <1>2, BeyondNothing, ConcatEmptySeq
    <2> QED BY <2>1 DEF Updated, Made
<1>4. buf'.text = Made(job[j]) /\ Once(Given, buf'.text)
    BY <1>1, <1>3 DEF Update, RequestOnce
<1>5. UNCHANGED <<cur, pend, ver, file, spent, cached>>
      /\ Given' = Given /\ Once(Given, file')
    BY DEF Update, tabVars, Given, OnceInv
<1> DEFINE q == [job[j] EXCEPT !.pc = "store"]
<1>6. \A k \in Jobs : job'[k] = IF k = j THEN q ELSE job[k]
    BY DEF Update, Answer, Types, JobTypes
<1>7. /\ q.full = job[j].full /\ q.batches = job[j].batches /\ q.ver = job[j].ver
      /\ q.pc = "store" /\ Made(q) = Made(job[j])
    BY <1>1 DEF Requests, Made
<1> HIDE DEF q
<1>8. Now \in Copies /\ buf.n <= buf'.n /\ (buf.n = buf'.n => buf'.text = buf.text)
    <2>1. Len(job[j].batches) \in Nat /\ (Len(job[j].batches) = 0 => job[j].batches = <<>>)
        BY <1>2
    <2>2. buf'.n = buf.n + (IF job[j].kind = "put" THEN 1 ELSE Len(job[j].batches))
        BY DEF Update
    <2>3. buf.n <= buf'.n /\ (buf.n = buf'.n => job[j].kind # "put" /\ job[j].batches = <<>>)
        BY <1>2, <2>1, <2>2
    <2>4. buf.text \o <<>> = buf.text
        BY <1>2, ConcatEmptySeq
    <2> QED BY <1>4, <2>3, <2>4 DEF Made, Copies
<1>9. Copies' \subseteq {Now'} \cup ({cached} \ {NoCopy})
    <2>1. \A k \in Jobs : job'[k].pc = "store" => k = j
        BY <1>1, <1>6 DEF Types, JobTypes
    <2>2. Now' = [n |-> buf'.n, text |-> Made(job'[j])]
        BY <1>4, <1>6, <1>7 DEF Now
    <2> QED BY <1>5, <2>1, <2>2 DEF Copies, Now
<1>10. ASSUME NEW d \in Copies'
       PROVE  d \in Copies \/ (Now.n < d.n /\ d.n <= buf'.n /\ Once(Given', d.text))
    <2>1. buf'.n \in Nat
        BY DEF Types, StoreTypes
    <2>2. CASE d = Now'
        BY <1>2, <1>4, <1>5, <1>8, <2>1, <2>2 DEF Now
    <2> QED BY <1>9, <2>2 DEF Copies
<1>11. RequestOnce(Copies', Given', job'[j])
    <2>1. \A d \in Copies' : d \in Copies \/ \E c \in Copies : c.n < d.n
        BY <1>8, <1>10
    <2>2. Behind(Copies, Given, job[j].ver, job[j].batches)
        BY <1>1 DEF RequestOnce
    <2>3. Behind(Copies', Given', job[j].ver, job[j].batches)
        BY <1>2, <1>5, <2>1, <2>2, BehindGrows, CopiesTyped, CopiesTypedNext
    <2> QED BY <1>1, <1>5, <1>6, <1>7, <2>3 DEF RequestOnce
<1> QED BY <1>5, <1>6, <1>8, <1>10, <1>11, OnceKept

LEMMA OnceStore == ASSUME Types, Types', OnceInv, NEW j \in Jobs, Store(j) PROVE OnceInv'
<1>1. /\ job[j] \in Requests /\ job[j] # Free /\ job[j].pc = "store" /\ lock = j
      /\ RequestOnce(Copies, Given, job[j])
    BY Underway DEF Types, Store, Steps, OnceInv
<1>2. /\ UNCHANGED <<spent, cur, pend, ver>> /\ buf'.n = buf.n /\ buf'.text = buf.text
      /\ file' = buf.text /\ cached' = [n |-> buf.n, text |-> Made(job[j])]
    BY DEF Store, CacheOpenedBuffer, Outcome, Made, tabVars, Types, StoreTypes
<1>3. Now \in Copies /\ cached' \in Copies /\ Given' = Given /\ buf.n \in Nat /\ Now' = Now
    BY <1>1, <1>2 DEF Copies, Given, Types, StoreTypes, Now
<1> DEFINE v == IF job[j].kind = "put" THEN FallbackVersion ELSE ZedVersion(buf.n)
           q == [job[j] EXCEPT !.pc = "saved", !.ver = v]
<1>4. \A k \in Jobs : job'[k] = IF k = j THEN q ELSE job[k]
    BY DEF Store, Told, Types, JobTypes
<1>5. /\ q.full = job[j].full /\ q.batches = job[j].batches /\ q.ver = v /\ q.pc = "saved"
    BY <1>1 DEF Requests
<1> HIDE DEF q
<1>6. \A k \in Jobs : job'[k].pc # "store"
    BY <1>1, <1>4, <1>5 DEF Types, JobTypes
<1>7. Copies' \subseteq {Now, cached'}
    BY <1>3, <1>6 DEF Copies
<1>8. Behind(Copies', Given, v, <<>>)
    <2>1. \A c \in Copies : Distinct(c.text \o <<>>)
        <3>1. SUFFICES ASSUME NEW c \in Copies PROVE Distinct(c.text \o <<>>)
            OBVIOUS
        <3>2. c.text \o <<>> = c.text
            BY CopiesTyped, ConcatEmptySeq DEF CopyTyped, Contents
        <3> QED BY <3>2 DEF OnceInv, Once
    <2>2. \A c \in Copies' : buf.n <= c.n
        BY <1>2, <1>3, <1>7 DEF Now
    <2>3. CASE v = ZedVersion(buf.n)
        BY <1>3, <1>7, <2>1, <2>2, <2>3 DEF Behind, ZedVersion
    <2>4. CASE v = FallbackVersion
        BY <2>4, OnceNothing DEF Behind, FallbackVersion, Once
    <2> QED BY <2>3, <2>4
<1> HIDE DEF v
<1>9. RequestOnce(Copies', Given, job'[j])
    BY <1>1, <1>4, <1>5, <1>8 DEF RequestOnce
<1>10. Once(Given, file')
    BY <1>2, <1>3 DEF OnceInv, Now
<1>11. buf.n <= buf'.n
    BY <1>2, <1>3
<1> QED BY <1>2, <1>3, <1>4, <1>7, <1>9, <1>10, <1>11, OnceKept

LEMMA OnceCheckByTransport ==
    ASSUME Types, Types', OnceInv, NEW j \in Jobs, CheckByTransport(j)
    PROVE  OnceInv'
<1>1. /\ job[j] \in Requests /\ job[j] # Free /\ job[j].pc = "sent" /\ job[j].kind = "save"
      /\ RequestOnce(Copies, Given, job[j])
    BY Underway DEF Types, CheckByTransport, Steps, OnceInv
<1>2. UNCHANGED <<cur, pend, ver, buf, file, spent, cached>> /\ Once(Given, file')
    BY DEF CheckByTransport, tabVars, OnceInv
<1>3. ASSUME NEW pc \in {"conflict", "error"}, Answer(j, pc) PROVE OnceInv'
    <2>1. \A k \in Jobs : job'[k] = IF k = j THEN [job[j] EXCEPT !.pc = pc] ELSE job[k]
        BY <1>3 DEF Answer, Types, JobTypes
    <2>2. RequestOnce(Copies, Given, [job[j] EXCEPT !.pc = pc])
        BY <1>1, RequestAnswered
    <2>3. [job[j] EXCEPT !.pc = pc].pc # "store"
        BY <1>1 DEF Requests
    <2> QED BY <1>2, <2>1, <2>2, <2>3, OnceAnswered
<1>4. ASSUME VersionMatches(job[j].ver, SshVersion(file)),
             job' = [job EXCEPT ![j].text = file, ![j].pc = "write"]
      PROVE  OnceInv'
    <2> DEFINE q == [job[j] EXCEPT !.text = file, !.pc = "write"]
    <2>1. \A k \in Jobs : job'[k] = IF k = j THEN q ELSE job[k]
        BY <1>4 DEF Types, JobTypes
    <2>2. /\ q.full = job[j].full /\ q.batches = job[j].batches /\ q.ver = job[j].ver
          /\ q.kind = "save" /\ q.pc = "write" /\ q.text = file
          /\ job[j].batches \in Seq(Edits) /\ file \in Seq(Edits)
        BY <1>1 DEF Requests, Contents, Types, StoreTypes
    <2> HIDE DEF q
    <2>3. Made(q) = file \o job[j].batches
        BY <2>2 DEF Made
    <2>4. Distinct(file \o job[j].batches)
        BY <1>1, <1>4 DEF RequestOnce, Behind, VersionMatches, SshVersion
    <2>5. Occurs(file \o job[j].batches) \subseteq Given
        BY <1>1, <2>2, OccursConcat DEF RequestOnce, Once, OnceInv
    <2>6. RequestOnce(Copies, Given, q)
        BY <1>1, <2>2, <2>3, <2>4, <2>5 DEF RequestOnce, Once
    <2> QED BY <1>2, <2>1, <2>2, <2>6, OnceAnswered
<1> QED BY <1>3, <1>4 DEF CheckByTransport

LEMMA OnceWritten ==
    ASSUME Types, Types', OnceInv, NEW j \in Jobs, Write(j) \/ PutByTransport(j)
    PROVE  OnceInv'
<1>1. /\ job[j] \in Requests /\ job[j] # Free /\ RequestOnce(Copies, Given, job[j])
      /\ Made(job[j]) = Outcome(j) /\ Outcome(j) \in Seq(Edits)
    BY Underway, OutcomeTypes
       DEF Types, Write, PutByTransport, Steps, OnceInv, Made, Outcome, Contents
<1>2. UNCHANGED <<cur, pend, ver, buf, spent, cached>>
    BY DEF Write, PutByTransport, tabVars
<1>3. PICK v : /\ Told(j, v, file')
               /\ v = FallbackVersion \/ (v = SshVersion(file') /\ Write(j))
    BY DEF Write, PutByTransport, WrittenVersion
<1>4. Once(Given, file') /\ file' \in Seq(Edits)
    BY <1>1 DEF Write, PutByTransport, RequestOnce, Requests, Contents
<1> DEFINE q == [job[j] EXCEPT !.pc = "saved", !.ver = v]
<1>5. \A k \in Jobs : job'[k] = IF k = j THEN q ELSE job[k]
    BY <1>3 DEF Told, Types, JobTypes
<1>6. q.full = job[j].full /\ q.batches = job[j].batches /\ q.ver = v /\ q.pc = "saved"
    BY <1>1 DEF Requests
<1> HIDE DEF q
<1>7. Behind(Copies, Given, v, <<>>)
    <2>1. file' \o <<>> = file'
        BY <1>4, ConcatEmptySeq
    <2>2. CASE v = SshVersion(file')
        BY <1>4, <2>1, <2>2 DEF Behind, SshVersion, Once
    <2>3. CASE v = FallbackVersion
        BY <2>3, OnceNothing DEF Behind, FallbackVersion, Once
    <2> QED BY <1>3, <2>2, <2>3
<1>8. RequestOnce(Copies, Given, q)
    BY <1>1, <1>6, <1>7 DEF RequestOnce
<1> QED BY <1>2, <1>4, <1>5, <1>6, <1>8, OnceAnswered

LEMMA OnceFault ==
    ASSUME Types, Types', OnceInv, Reconnect \/ \E j \in Jobs : Fail(j)
    PROVE  OnceInv'
<1>1. /\ UNCHANGED <<cur, pend, ver>> /\ cached' \in {cached, NoCopy}
      /\ spent'.edits = spent.edits /\ spent'.outside = spent.outside
      /\ buf'.n = buf.n /\ buf'.text = buf.text
    BY DEF Reconnect, Fail, tabVars, Spend, Types, SpentTypes, StoreTypes
<1>2. \A k \in Jobs : job[k].pc \in Steps =>
          /\ job[k] \in Requests /\ job[k] # Free /\ RequestOnce(Copies, Given, job[k])
          /\ RequestOnce(Copies, Given, [job[k] EXCEPT !.pc = AfterFailure(k)])
          /\ [job[k] EXCEPT !.pc = AfterFailure(k)].pc # "store"
    <2>1. SUFFICES ASSUME NEW k \in Jobs, job[k].pc \in Steps
                   PROVE  /\ job[k] \in Requests /\ job[k] # Free
                          /\ RequestOnce(Copies, Given, job[k])
                          /\ RequestOnce(Copies, Given, [job[k] EXCEPT !.pc = AfterFailure(k)])
                          /\ [job[k] EXCEPT !.pc = AfterFailure(k)].pc # "store"
        OBVIOUS
    <2>2. job[k] \in Requests /\ job[k] # Free /\ RequestOnce(Copies, Given, job[k])
        BY <2>1, Underway DEF Types, OnceInv
    <2>3. /\ AfterFailure(k) \in {"conflict", "error", "ssh"} /\ AfterFailure(k) # "store"
          /\ AfterFailure(k) = "ssh" => job[k].kind = "put"
        BY DEF AfterFailure
    <2>4. job[k].pc # "saved"
        BY <2>1 DEF Steps
    <2>5. RequestOnce(Copies, Given, [job[k] EXCEPT !.pc = AfterFailure(k)])
        BY <2>2, <2>3, <2>4, RequestAnswered
    <2>6. [job[k] EXCEPT !.pc = AfterFailure(k)].pc = AfterFailure(k)
        BY <2>2 DEF Requests
    <2> QED BY <2>2, <2>3, <2>5, <2>6
<1>3. \A k \in Jobs : \/ job'[k] = job[k]
                      \/ job[k].pc \in Steps /\ job'[k] = [job[k] EXCEPT !.pc = AfterFailure(k)]
    <2>1. CASE Reconnect
        <3>1. \A k \in Jobs : job'[k] = IF k = lock THEN [job[k] EXCEPT !.pc = AfterFailure(k)]
                                        ELSE job[k]
            BY <2>1 DEF Reconnect
        <3>2. \A k \in Jobs : k = lock => job[k].pc \in Steps
            BY DEF Types, JobTypes, Steps
        <3> QED BY <3>1, <3>2
    <2>2. ASSUME NEW j \in Jobs, Fail(j)
          PROVE  \A k \in Jobs :
                     \/ job'[k] = job[k]
                     \/ job[k].pc \in Steps /\ job'[k] = [job[k] EXCEPT !.pc = AfterFailure(k)]
        <3>1. job[j].pc \in Steps /\ Answer(j, AfterFailure(j))
            BY <2>2 DEF Fail
        <3> QED BY <3>1 DEF Answer, Types, JobTypes
    <2> QED BY <2>1, <2>2
<1>4. Once(Given, file')
    <2>1. Once(Given, file) /\ Once(Given, buf.text) /\ Once(Given, <<>>)
        <3>1. Now \in Copies /\ Now.text = buf.text
            BY DEF Copies, Now
        <3> QED BY <3>1, OnceNothing DEF OnceInv
    <2>2. ASSUME NEW j \in Jobs, job[j].pc \in {"write", "ssh"} PROVE Once(Given, Outcome(j))
        <3>1. RequestOnce(Copies, Given, job[j]) /\ Outcome(j) = Made(job[j])
            BY <1>2, <2>2 DEF Steps, Made, Outcome
        <3> QED BY <2>2, <3>1 DEF RequestOnce
    <2> QED BY <2>1, <2>2 DEF Reconnect, Fail
<1> QED BY <1>1, <1>2, <1>3, <1>4, OnceAnswered

LEMMA OnceStep == ASSUME Types, Types', OnceInv, [Next]_vars, ~stale' PROVE OnceInv'
<1>1. CASE UNCHANGED vars
    BY <1>1 DEF vars, tabVars, OnceInv, Copies, Now, Given
<1>2. CASE TabStep
    <2>1. ASSUME NEW j \in Jobs, NEW k \in Jobs, GiveUp(j, k) PROVE OnceInv'
        <3>1. job[j].tab \in Tabs
            BY <2>1, Underway DEF Types, GiveUp, Requests
        <3> QED BY <2>1, <3>1, OnceAsked
    <2> QED BY <1>2, <2>1, OnceType, OnceOpen, OnceAsked, OnceDeliver DEF TabStep
<1>3. ASSUME NEW j \in Jobs, Update(j) PROVE OnceInv'
    <2>1. job[j].text = buf.text
        BY <1>3 DEF Update
    <2> QED BY <1>3, <2>1, OnceUpdate
<1>4. CASE GatewayStep
    BY <1>3, <1>4, OnceOpened, OnceStore, OnceCheckByTransport, OnceWritten, OnceFault
       DEF GatewayStep
<1> QED BY <1>1, <1>2, <1>4, OnceFault, OnceOutside, OnceReload DEF Next

\* What was stale stays so.
LEMMA StaleStays == ASSUME stale \in BOOLEAN, [Next]_vars PROVE stale => stale'
BY DEF Next, TabStep, GatewayStep, Type, OpenByProxy, OpenByTransport, StartSave, GiveUp,
       Deliver, CheckByProxy, OpenForPut, Update, Store, CheckByTransport, Write,
       PutByTransport, Fail, Reconnect, ChangeOutside, Reload, vars

LEMMA OnceInvariant == Spec => [](stale \/ OnceInv)
<1>1. Init => OnceInv
    <2>1. SUFFICES ASSUME Init PROVE OnceInv
        OBVIOUS
    <2>2. /\ file = <<>> /\ buf.text = <<>> /\ buf.n = 1 /\ cached.n \in 0..1
          /\ cached.text = <<>>
          /\ \A t \in Tabs :
                /\ cur[t] = <<>> /\ pend[t] = <<>> /\ ver[t].text = <<>>
                /\ ver[t].scheme = "zed" => ver[t].n = 1 /\ cached.n = 1
          /\ \A j \in Jobs : job[j] = Free
        BY <2>1, SaveAssumption DEF Init, NoCopy, ZedVersion, SshVersion
    <2>3. Copies = {Now} \cup ({cached} \ {NoCopy})
        BY <2>2 DEF Copies, Free
    <2>4. \A c \in Copies : c.n <= buf.n /\ c.text = <<>>
        BY <2>2, <2>3 DEF Now
    <2>5. \A t \in Tabs : Behind(Copies, Given, ver[t], <<>>)
        <3>1. \A t \in Tabs : ver[t].scheme = "zed" => \A c \in Copies : ver[t].n <= c.n
            BY <2>2, <2>3 DEF Now
        <3> QED BY <2>2, <2>4, <3>1, OnceNothing DEF Behind, Once
    <2> QED BY <2>2, <2>4, <2>5, OnceNothing DEF OnceInv, TabOnce
<1>2. Types /\ Types' /\ (stale \/ OnceInv) /\ [Next]_vars => (stale \/ OnceInv)'
    BY OnceStep, StaleStays DEF Types, StoreTypes
<1> QED BY <1>1, <1>2, TypesInvariant, PTL DEF Spec

(* An edit gets into the file's buffer twice in one way only: the operations of some save
   were made on a text that the buffer no longer had, as opened_buffers keeps the text from
   before a save that failed or was dropped half way, and the remote server may reload the
   file before or during a call.  Until then every edit is there once: through failures at
   any step, restarts of the proxy, PUTs after a lost answer, turns to ssh, changes outside
   and any number of tabs and saves, whether or not the remote server reuses its buffers,
   since the version or hash a save carries keeps it off a text that has its edits already.
   [registry/handle.rs: save_buffer_via_proxy, apply_batches_and_save; zed_proxy/client.rs:
   open_buffer_by_path] *)
THEOREM AppliedOnceOnly == Spec => [](AppliedOnce \/ stale)
<1>1. OnceInv => AppliedOnce
    <2>1. Now \in Copies
        BY DEF Copies
    <2> QED BY <2>1 DEF OnceInv, Once, Distinct, AppliedOnce, Now
<1> QED BY <1>1, OnceInvariant, PTL

(* Where nobody writes behind the proxy and no call fails half way, or every open gives a
   buffer of its own, no operation is made on a text the buffer no longer has. *)
LEMMA NeverStale == ASSUME Calm PROVE Spec => []~stale
<1>1. Init => ~stale
    BY DEF Init
<1>2. ASSUME Types, ProxyInv, ~stale, [Next]_vars PROVE ~stale'
    <2>1. ASSUME NEW j \in Jobs, Update(j) PROVE ~stale'
        <3>1. job[j] # Free
            BY <2>1 DEF Update, Free
        <3>2. job[j].text = buf.text
            <4>1. job[j].pc = "update" /\ ProxyFits(job[j])
                BY <1>2, <2>1, <3>1 DEF Update, ProxyInv
            <4> QED BY <4>1 DEF ProxyFits
        <3> QED BY <1>2, <2>1, <3>2 DEF Update
    <2>2. CASE UNCHANGED stale
        BY <1>2, <2>2
    <2>3. UNCHANGED stale \/ \E j \in Jobs : Update(j)
        BY <1>2 DEF Next, TabStep, GatewayStep, Type, OpenByProxy, OpenByTransport, StartSave,
           GiveUp, Deliver, CheckByProxy, OpenForPut, Store, CheckByTransport, Write,
           PutByTransport, Fail, Reconnect, ChangeOutside, Reload, vars
    <2> QED BY <2>1, <2>2, <2>3
<1> QED BY <1>1, <1>2, TypesInvariant, ProxyInvariant, PTL DEF Spec

LEMMA CalmOnce == ASSUME Calm PROVE Spec => []OnceInv
BY OnceInvariant, NeverStale, PTL

-----------------------------------------------------------------------------
(* A checked store                                                         *)

\* A version that is the buffer's is known to be of its text.
SeenFits(t, v) == v.scheme = "zed" /\ (v.n = buf.n => known[t] = buf.text)

(* What the comparison of versions stands for in the checked store: the tab whose version
   is that of the buffer has seen what the buffer holds. *)
SeenInv ==
    /\ \A t \in Tabs : SeenFits(t, ver[t])
    /\ \A j \in Jobs : job[j] # Free => SeenFits(job[j].tab, job[j].ver)

Held == IF buf.dirty THEN buf.text ELSE file

\* A tab that is told of the buffer is told what it holds, and takes a version from there
\* or from a request of its own.
TabsTold ==
    \A t \in Tabs :
        /\ known'[t] \in {known[t], buf.text}
        /\ \/ ver'[t] = ver[t]
           \/ ver'[t] = ZedVersion(buf.n) /\ known'[t] = buf.text
           \/ \E j \in Jobs : job[j] # Free /\ job[j].tab = t /\ ver'[t] = job[j].ver

RequestsTold ==
    \A k \in Jobs : job'[k] # Free =>
        /\ job'[k].tab \in Tabs
        /\ \/ job[k] # Free /\ job'[k].tab = job[k].tab /\ job'[k].ver = job[k].ver
           \/ job'[k].ver = ver[job'[k].tab]
           \/ job'[k].ver = ZedVersion(buf.n) /\ known'[job'[k].tab] = buf.text

LEMMA SeenKept ==
    ASSUME SeenInv, buf'.n = buf.n, buf'.text = buf.text, TabsTold, RequestsTold
    PROVE  SeenInv'
<1> USE DEF TabsTold, RequestsTold
<1>1. ASSUME NEW t \in Tabs, NEW v, SeenFits(t, v)
      PROVE  v.scheme = "zed" /\ (v.n = buf'.n => known'[t] = buf'.text)
    BY <1>1 DEF SeenFits
<1>2. ASSUME NEW t \in Tabs PROVE SeenFits(t, ver[t])'
    <2>1. CASE SeenFits(t, ver'[t])
        BY <1>1, <2>1 DEF SeenFits
    <2>2. CASE ver'[t] = ZedVersion(buf.n) /\ known'[t] = buf.text
        BY <2>2 DEF SeenFits, ZedVersion
    <2> QED BY <2>1, <2>2 DEF SeenInv
<1>3. ASSUME NEW k \in Jobs, job'[k] # Free PROVE SeenFits(job[k].tab, job[k].ver)'
    <2>1. CASE SeenFits(job'[k].tab, job'[k].ver)
        BY <1>1, <1>3, <2>1 DEF SeenFits
    <2>2. CASE job'[k].ver = ZedVersion(buf.n) /\ known'[job'[k].tab] = buf.text
        BY <2>2 DEF SeenFits, ZedVersion
    <2> QED BY <1>3, <2>1, <2>2 DEF SeenInv
<1> QED BY <1>2, <1>3 DEF SeenInv, Free

\* The abstract store is the text of the buffer, saved or not.
LEMMA StoreIs == ASSUME ProxyInv PROVE Held = buf.text
BY DEF Held, ProxyInv

AbstractStep == [Checked!Next]_<<Held, known, author>>

\* A tab is told what the store holds, and nothing else of it changes.
LEMMA LookStep ==
    ASSUME ProxyInv, ProxyInv', buf'.text = buf.text, author' = author,
           \/ known' = known
           \/ \E t \in Tabs : known' = [known EXCEPT ![t] = buf.text]
    PROVE  AbstractStep
<1>1. Held = buf.text /\ Held' = buf.text
    BY StoreIs DEF ProxyInv, Held
<1>2. CASE known' = known
    BY <1>1, <1>2 DEF AbstractStep
<1>3. ASSUME NEW t \in Tabs, known' = [known EXCEPT ![t] = buf.text] PROVE AbstractStep
    <2>1. Checked!Look(t)
        BY <1>1, <1>3 DEF Checked!Look, Held
    <2> QED BY <2>1 DEF Checked!Next, AbstractStep
<1> QED BY <1>2, <1>3

LEMMA SaveStep ==
    ASSUME Calm, MaxLost = 0, Types, ProxyInv, OnceInv, SeenInv, NEW j \in Jobs, Update(j)
    PROVE  SeenInv' /\ AbstractStep
<1>1. /\ job[j] \in Requests /\ job[j] # Free /\ job[j].pc = "update" /\ job[j].kind = "save"
      /\ ProxyFits(job[j])
    BY Underway DEF Types, Update, Steps, ProxyInv, ProxyFits
<1> DEFINE t == job[j].tab
           b == buf.text
           a == job[j].batches
<1>2. b \in Seq(Edits) /\ a \in Seq(Edits) /\ a # <<>> /\ t \in Tabs /\ known[t] = b
    <2>1. job[j].ver = ZedVersion(buf.n) /\ a # <<>>
        BY <1>1 DEF ProxyFits
    <2>2. known[t] = b
        BY <1>1, <2>1 DEF SeenInv, SeenFits, ZedVersion
    <2> QED BY <1>1, <2>1, <2>2 DEF Types, StoreTypes, Requests, Contents
<1>3. buf'.text = b \o a /\ known' = known /\ author' = {t}
    BY <1>1, ProxyUpdate DEF Made, ProxyFits, Update
<1>4. Held = b /\ Held' = b \o a
    <2>1. buf'.dirty
        BY DEF Update
    <2> QED BY <1>3, <2>1, StoreIs DEF Held
<1>5. /\ Len(b \o a) > Len(b) /\ SubSeq(b \o a, 1, Len(b)) = b
    <2> HIDE DEF b, a
    <2>1. Len(b \o a) = Len(b) + Len(a) /\ Len(a) > 0 /\ Len(b) \in Nat
        BY <1>2
    <2>2. SubSeq(b \o a, 1, Len(b)) = b
        BY <1>2, <2>1
    <2> QED BY <2>1, <2>2
<1>6. AbstractStep
    <2>1. Checked!Save(t)
        BY <1>2, <1>3, <1>4, <1>5 DEF Checked!Save, Held
    <2> QED BY <1>2, <2>1 DEF Checked!Next, AbstractStep
<1>7. SeenInv'
    <2>1. ver' = ver /\ buf'.n > buf.n /\ buf.n \in Nat /\ buf'.n \in Nat
        <3>1. Len(a) \in Nat \ {0} /\ buf.n \in Nat
            BY <1>2 DEF Types, StoreTypes
        <3> QED BY <1>1, <3>1 DEF Update, tabVars
    <2>2. Now \in Copies
        BY DEF Copies
    <2>3. \A v \in Versions : \A s :
              Behind(Copies, Given, v, s) => (v.scheme = "zed" => v.n # buf'.n)
        BY <2>1, <2>2 DEF Behind, Versions, Now
    <2>4. \A u \in Tabs : SeenFits(u, ver[u])'
        <3>1. \A u \in Tabs : /\ ver[u] \in Versions /\ ver[u].scheme = "zed"
                              /\ Behind(Copies, Given, ver[u], pend[u])
            BY DEF Types, TabTypes, SeenInv, SeenFits, OnceInv, TabOnce
        <3> QED BY <2>1, <2>3, <3>1 DEF SeenFits
    <2>5. ASSUME NEW k \in Jobs, job'[k] # Free PROVE SeenFits(job[k].tab, job[k].ver)'
        <3>1. IF k = j THEN job'[k] = [job[k] EXCEPT !.pc = "store"] ELSE job'[k] = job[k]
            BY DEF Update, Answer, Types, JobTypes
        <3>2. /\ job[k] \in Requests /\ job[k].ver.scheme = "zed"
              /\ \E s : Behind(Copies, Given, job[k].ver, s)
            BY <1>1, <2>5, <3>1, Underway DEF Types, SeenInv, SeenFits, OnceInv, RequestOnce
        <3>3. job'[k].ver = job[k].ver /\ job[k].ver \in Versions
            BY <3>1, <3>2 DEF Requests
        <3> QED BY <2>3, <3>2, <3>3 DEF SeenFits
    <2> QED BY <2>4, <2>5 DEF SeenInv
<1> QED BY <1>6, <1>7

LEMMA AbstractSteps ==
    ASSUME Calm, MaxLost = 0, Types, ProxyInv, OnceInv, SeenInv, [Next]_vars
    PROVE  SeenInv' /\ AbstractStep
<1>1. ProxyInv'
    BY ProxyStep
<1>2. \A k \in Jobs : job[k] # Free =>
          job[k] \in Requests /\ job[k].tab \in Tabs /\ job[k].kind = "save"
    BY Underway DEF Types, Requests, ProxyInv, ProxyFits
<1>3. ASSUME UNCHANGED <<buf, known, author, ver>>,
             \A k \in Jobs : \/ job'[k] = job[k] \/ job'[k] = Free
                             \/ /\ job[k] # Free
                                /\ job'[k].tab = job[k].tab /\ job'[k].ver = job[k].ver
      PROVE  SeenInv' /\ AbstractStep
    <2>1. TabsTold
        BY <1>3 DEF TabsTold
    <2>2. RequestsTold
        BY <1>2, <1>3 DEF RequestsTold
    <2>3. SeenInv'
        BY <1>3, <2>1, <2>2, SeenKept
    <2> QED BY <1>1, <1>3, <2>3, LookStep
<1>4. CASE UNCHANGED vars
    BY <1>3, <1>4 DEF vars, tabVars
<1>5. ASSUME NEW t \in Tabs, Type(t) PROVE SeenInv' /\ AbstractStep
    BY <1>3, <1>5 DEF Type
<1>6. ASSUME NEW t \in Tabs, OpenByProxy(t) PROVE SeenInv' /\ AbstractStep
    <2>1. Copy.n = buf.n /\ Copy.text = buf.text
        BY <1>6, CopyIs DEF OpenByProxy
    <2>2. UNCHANGED <<job, buf, author>> /\ known' = [known EXCEPT ![t] = buf.text]
        BY <1>6, <2>1 DEF OpenByProxy, Reopen
    <2>3. \A u \in Tabs : IF u = t THEN ver'[u] = ZedVersion(buf.n) /\ known'[u] = buf.text
                          ELSE ver'[u] = ver[u] /\ known'[u] = known[u]
        BY <1>6, <2>1 DEF OpenByProxy, Reopen, Types, TabTypes
    <2>4. TabsTold /\ RequestsTold
        BY <1>2, <2>2, <2>3 DEF TabsTold, RequestsTold
    <2>5. SeenInv'
        BY <2>2, <2>4, SeenKept
    <2> QED BY <1>1, <2>2, <2>5, LookStep
<1>7. ASSUME NEW t \in Tabs, NEW j \in Jobs, StartSave(t, j) PROVE SeenInv' /\ AbstractStep
    <2>1. UNCHANGED <<buf, known, author, ver>>
        BY <1>7 DEF StartSave, tabVars
    <2>2. \A k \in Jobs : job'[k] = IF k = j THEN Request(t, "save") ELSE job[k]
        BY <1>7 DEF StartSave, Types, JobTypes
    <2>3. Request(t, "save").tab = t /\ Request(t, "save").ver = ver[t]
        BY DEF Request
    <2>4. TabsTold
        BY <2>1 DEF TabsTold
    <2>5. RequestsTold
        BY <1>2, <2>2, <2>3 DEF RequestsTold
    <2>6. SeenInv'
        BY <2>1, <2>4, <2>5, SeenKept
    <2> QED BY <1>1, <2>1, <2>6, LookStep
<1>8. ASSUME NEW j \in Jobs, Deliver(j) PROVE SeenInv' /\ AbstractStep
    <2>1. /\ job[j] # Free /\ UNCHANGED <<buf, known, author>>
          /\ \A k \in Jobs : job'[k] = IF k = j THEN Free ELSE job[k]
        BY <1>8, DeliverEffect, Underway DEF Types, JobTypes, Deliver
    <2>2. \A t \in Tabs : ver'[t] = ver[t] \/ (job[j].tab = t /\ ver'[t] = job[j].ver)
        BY <1>8, DeliverEffect DEF HandleSaved, MarkSaved, Types, TabTypes
    <2>3. TabsTold
        BY <2>1, <2>2 DEF TabsTold
    <2>4. RequestsTold
        BY <1>2, <2>1 DEF RequestsTold
    <2>5. SeenInv'
        BY <2>1, <2>3, <2>4, SeenKept
    <2> QED BY <1>1, <2>1, <2>5, LookStep
<1>9. ASSUME NEW j \in Jobs, CheckByProxy(j) \/ CheckByTransport(j)
      PROVE  SeenInv' /\ AbstractStep
    <2>1. job[j] \in Requests /\ job[j] # Free
        BY <1>9, Underway DEF Types, CheckByProxy, CheckByTransport, Steps
    <2>2. UNCHANGED <<buf, known, author, ver>>
        BY <1>9 DEF CheckByProxy, CheckByTransport, tabVars
    <2>3. \A k \in Jobs : k # j => job'[k] = job[k]
        BY <1>9 DEF CheckByProxy, CheckByTransport, Answer, Types, JobTypes
    <2>4. job'[j].tab = job[j].tab /\ job'[j].ver = job[j].ver
        BY <1>9, <2>1 DEF CheckByProxy, CheckByTransport, Answer, Types, JobTypes, Requests
    <2> QED BY <1>3, <2>1, <2>2, <2>3, <2>4
<1>10. ASSUME NEW j \in Jobs, OpenForPut(j) \/ GiveUp(j, j) PROVE FALSE
    <2>1. job[j] # Free
        BY <1>10, Underway DEF Types, OpenForPut, GiveUp, Steps
    <2> QED BY <1>2, <1>10, <2>1 DEF OpenForPut, GiveUp
<1>11. ASSUME NEW j \in Jobs, Store(j) PROVE SeenInv' /\ AbstractStep
    <2>1. job[j] # Free /\ job[j].tab \in Tabs /\ job[j].kind = "save" /\ job[j] \in Requests
        BY <1>2, <1>11, Underway DEF Types, Store, Steps
    <2>2. /\ known' = [known EXCEPT ![job[j].tab] = buf.text] /\ UNCHANGED <<author, ver>>
          /\ buf'.n = buf.n /\ buf'.text = buf.text
        BY <1>11, ProxyStore DEF Store, Told, tabVars, Types, StoreTypes
    <2>3. \A k \in Jobs : IF k = j THEN job'[k] = [job[k] EXCEPT !.pc = "saved", !.ver = ZedVersion(buf.n)]
                          ELSE job'[k] = job[k]
        BY <1>11, <2>1 DEF Store, Told, Types, JobTypes
    <2>4. job'[j].tab = job[j].tab /\ job'[j].ver = ZedVersion(buf.n)
        BY <2>1, <2>3 DEF Requests
    <2>5. \A t \in Tabs : known'[t] = IF t = job[j].tab THEN buf.text ELSE known[t]
        BY <2>2 DEF Types, TabTypes
    <2>6. TabsTold
        BY <2>2, <2>5 DEF TabsTold
    <2>7. RequestsTold
        BY <1>2, <2>1, <2>3, <2>4, <2>5 DEF RequestsTold
    <2>8. SeenInv'
        BY <2>2, <2>6, <2>7, SeenKept
    <2> QED BY <1>1, <2>1, <2>2, <2>8, LookStep
<1>12. CASE Reconnect \/ \E j \in Jobs : Fail(j)
    <2>1. buf'.n = buf.n /\ buf'.text = buf.text
        BY <1>12, ProxyFault
    <2>2. UNCHANGED <<known, ver, author>>
        <3>1. \A j \in Jobs : job[j].pc \notin {"write", "ssh"}
            BY DEF Free, ProxyInv, ProxyFits
        <3> QED BY <1>12, <3>1 DEF Reconnect, Fail, tabVars
    <2>3. \A k \in Jobs : \/ job'[k] = job[k]
                          \/ job[k] # Free /\ job'[k] = [job[k] EXCEPT !.pc = "error"]
        BY <1>12, FaultAnswers
    <2>4. \A k \in Jobs : job'[k] # Free =>
              job[k] # Free /\ job'[k].tab = job[k].tab /\ job'[k].ver = job[k].ver
        BY <1>2, <2>3 DEF Requests
    <2>5. TabsTold
        BY <2>2 DEF TabsTold
    <2>6. RequestsTold
        BY <1>2, <2>4 DEF RequestsTold
    <2>7. SeenInv'
        BY <2>1, <2>5, <2>6, SeenKept
    <2> QED BY <1>1, <2>1, <2>2, <2>7, LookStep
<1>13. \A j, k \in Jobs : ~GiveUp(j, k)
    BY CalmSpends
<1>14. CASE TabStep
    BY <1>5, <1>6, <1>7, <1>8, <1>13, <1>14, CalmSpends DEF TabStep
<1>15. CASE GatewayStep
    BY <1>9, <1>10, <1>11, <1>12, <1>15, SaveStep, CalmNever DEF GatewayStep
<1> QED BY <1>4, <1>12, <1>14, <1>15, CalmNever, CalmSpends DEF Next

(* Saving over the proxy is a checked store: each step of the tabs, the gateway and the
   remote server is a look or a checked save of one tab, or changes nothing the tabs can
   tell; the version a save carries stands for what its tab was last told.  For any tabs,
   edits and concurrent saves, and for failures where every open gives its own buffer; no
   save is given up, since the PUT that follows compares nothing.
   [registry/handle.rs: save_buffer_via_proxy; docs: validate the version before saving] *)
THEOREM ImplementsCheckedStore == ASSUME Calm, MaxLost = 0 PROVE Spec => Implements
<1>1. Init => Checked!Init
    BY DEF Init, Checked!Init
<1>2. Init => SeenInv
    BY SaveAssumption DEF Calm, Init, SeenInv, SeenFits, ZedVersion, Free
<1>3. Types /\ ProxyInv /\ OnceInv /\ SeenInv /\ [Next]_vars => SeenInv' /\ AbstractStep
    BY AbstractSteps
<1>4. AbstractStep <=> [Checked!Next]_<<IF buf.dirty THEN buf.text ELSE file, known, author>>
    BY DEF AbstractStep, Held
<1> QED BY <1>1, <1>2, <1>3, <1>4, TypesInvariant, ProxyInvariant, CalmOnce, PTL
        DEF Spec, Implements, Checked!Spec
=============================================================================
