------------------------- MODULE CommandClientProofs -------------------------
(***************************************************************************)
(* Proofs about CommandClient, for any number of requests, sockets, chunks *)
(* and faults: answers go to their own request, a page has one socket,     *)
(* nobody is left waiting for a closed one, and a file that counts as      *)
(* loaded is whole.                                                        *)
(***************************************************************************)
EXTENDS CommandClient, SequenceTheorems, FiniteSetTheorems, TLAPS

Phases == {"none", "connecting", "open", "closing", "closed"}
Stages == {"unused", "connecting", "pending", "fetching", "failed", "ok"}
Live == {"connecting", "open", "closing"}
Clients == Requests \cup {None}

Commands == [id : Nat, for : Requests]
Answers == [id : Nat, for : Requests, what : {"chunk", "complete", "error"}, chunk : Nat]

Types ==
    /\ registered \in Clients
    /\ current \in [Requests -> Clients] /\ promise \in [Requests -> Clients]
    /\ nextId \in [Requests -> Nat] /\ pending \in [Requests -> SUBSET Commands]
    /\ phase \in [Requests -> Phases] /\ owner \in [Requests -> Clients]
    /\ up \in [Requests -> Seq(Commands)] /\ down \in [Requests -> Seq(Answers)]
    /\ req \in [Requests -> [pc : Stages, client : Clients, on : Clients, from : Clients]]
    /\ task \in [Requests -> [pc : {"none", "running", "over"}, on : Clients, id : Nat]]
    /\ text \in [chunks : Seq(Nat), loaded : BOOLEAN]
    /\ faults \in Nat /\ raced \in BOOLEAN

\* A socket has its client from the moment it is made, and nothing is on it before.
Sockets ==
    /\ \A s \in Requests : phase[s] = "none" <=> owner[s] = None
    /\ \A s \in Requests : phase[s] = "none" => up[s] = <<>> /\ down[s] = <<>>
    /\ \A r \in Requests : task[r].pc # "none" => task[r].on \in Requests /\ phase[task[r].on] # "none"
    /\ \A c \in Requests : /\ current[c] # None => owner[current[c]] = c
                           /\ promise[c] # None => owner[promise[c]] = c
    /\ \A r \in Requests : req[r].pc = "unused" => phase[r] = "none"

\* What bears the id i for the request r among what belongs to client c.
Issued(c, i, r) ==
    \/ Command(i, r) \in pending[c]
    \/ \E s \in Requests : \E k \in DOMAIN up[s] : owner[s] = c /\ up[s][k] = Command(i, r)
    \/ task[r].pc # "none" /\ owner[task[r].on] = c /\ task[r].id = i
    \/ \E s \in Requests : \E k \in DOMAIN down[s] :
          owner[s] = c /\ down[s][k].id = i /\ down[s][k].for = r

Ids ==
    \A c, r \in Requests, i \in Nat : Issued(c, i, r) =>
        i < nextId[c] /\ \A q \in Requests : Issued(c, i, q) => q = r

Made(r) == req[r].pc \notin {"unused", "connecting"}
Unsent(r) == task[r].pc = "none" /\ \A s \in Requests : \A k \in DOMAIN up[s] : up[s][k].for # r

\* A request has no command before it is sent, and one id and one client from then on.
Commanded ==
    \A c, r \in Requests, i \in Nat : Issued(c, i, r) =>
        Made(r) /\ \A d \in Requests, j \in Nat : Issued(d, j, r) => d = c /\ j = i

\* A command is sent once and carried out once, and what it answers goes to its socket.

Once ==
    /\ \A s \in Requests : \A k \in DOMAIN up[s] :
          /\ task[up[s][k].for].pc = "none"
          /\ \A t \in Requests : \A l \in DOMAIN up[t] : up[t][l].for = up[s][k].for => t = s /\ l = k
    /\ \A s \in Requests : \A k \in DOMAIN down[s] :
          /\ task[down[s][k].for].pc = "over" /\ task[down[s][k].for].on = s
          /\ down[s][k].what = "chunk" => down[s][k].for \in Opens

\* An entry whose request no longer waits is of a command that was never sent.
Entries ==
    \A c \in Requests : \A e \in pending[c] : req[e.for].pc = "pending" \/ Unsent(e.for)

\* A request that waits for its answer has an entry with its client.
Kept ==
    \A r \in Requests : req[r].pc = "pending" =>
        req[r].client \in Requests /\ \E i \in Nat : Command(i, r) \in pending[req[r].client]

OneLive ==
    ~raced =>
    /\ \A s \in Requests : phase[s] \in Live =>
          /\ registered = owner[s] /\ current[owner[s]] = s
          /\ phase[s] = "connecting" => promise[owner[s]] = s
    /\ \A c \in Requests : /\ current[c] # None => phase[current[c]] \in Live
                           /\ promise[c] # None => phase[promise[c]] = "connecting"
    /\ \A r \in Requests : req[r].pc = "pending" =>
          /\ req[r].on \in Requests /\ phase[req[r].on] \in Live
          /\ owner[req[r].on] = req[r].client

\* In the queue q the complete of request r is at place i, and the chunks that c lacks of
\* the file come right before it and nowhere else.
Follow(c, q, r, i) ==
    LET n == Chunks - Len(c)
    IN  /\ Len(c) <= Chunks /\ n < i
        /\ c = [x \in 1..Len(c) |-> x]
        /\ \A j \in DOMAIN q : q[j].for = r => j \in (i - n)..i
        /\ \A j \in 1..n : q[i - j].for = r /\ q[i - j].what = "chunk" /\ q[i - j].chunk = Chunks + 1 - j

Rest(r, s, i) == Follow(text.chunks, down[s], r, i)

Fetches == \A r \in Requests : req[r].pc = "fetching" => r \in Opens

OneLoad == \A q, r \in Opens : UnderWay(q) /\ UnderWay(r) => q = r

\* No chunk was taken before the request is answered.
Before(r) == req[r].pc = "connecting" \/ (req[r].pc = "pending" /\ task[r].pc # "over")
Blank == \A r \in Opens : Before(r) => text.chunks = <<>>

\* The chunks that are missing come before the answer that takes the file for whole.
Coming ==
    \A r \in Opens, s \in Requests : req[r].pc = "pending" =>
        \A i \in DOMAIN down[s] : down[s][i].for = r /\ down[s][i].what = "complete" => Rest(r, s, i)

Loading == Fetches /\ OneLoad /\ LoadedWhole /\ Blank /\ Coming

-----------------------------------------------------------------------------
(* Sending                                                                 *)

\* The places of a set of requests in its order are 0 up to its size.
LEMMA Places ==
    ASSUME NEW rs \in SUBSET Requests
    PROVE  /\ IsFiniteSet(rs) /\ Cardinality(rs) \in Nat
           /\ [r \in rs |-> Cardinality({q \in rs : q < r})]
                 \in Bijection(rs, 0..(Cardinality(rs) - 1))
<1> DEFINE n == Cardinality(rs)
           below(r) == {q \in rs : q < r}
           place == [r \in rs |-> Cardinality(below(r))]
<1>1. IsFiniteSet(rs) /\ n \in Nat /\ rs \subseteq Nat
    <2>1. IsFiniteSet(Requests) /\ Requests \subseteq Nat
        BY CommandAssumption, FS_Interval DEF Requests
    <2>2. IsFiniteSet(rs)
        BY <2>1, FS_Subset
    <2> QED BY <2>1, <2>2, FS_CardinalityType
<1>2. \A r \in rs : IsFiniteSet(below(r)) /\ Cardinality(below(r)) \in Nat /\ place[r] < n
    <2>1. SUFFICES ASSUME NEW r \in rs
                   PROVE  /\ IsFiniteSet(below(r)) /\ Cardinality(below(r)) \in Nat
                          /\ Cardinality(below(r)) < n
        OBVIOUS
    <2>2. below(r) \subseteq rs /\ r \notin below(r)
        BY <1>1
    <2>3. IsFiniteSet(below(r)) /\ Cardinality(below(r)) <= n
          /\ (Cardinality(below(r)) = n => below(r) = rs)
        BY <1>1, <2>2, FS_Subset
    <2>4. Cardinality(below(r)) \in Nat
        BY <2>3, FS_CardinalityType
    <2> QED BY <1>1, <2>2, <2>3, <2>4
<1>3. \A q, r \in rs : q < r => place[q] # place[r]
    <2>1. SUFFICES ASSUME NEW q \in rs, NEW r \in rs, q < r, place[q] = place[r]
                   PROVE  FALSE
        OBVIOUS
    <2>2. below(q) \subseteq below(r) /\ q \in below(r) /\ q \notin below(q)
        <3>1. q < r /\ \A x \in rs : x \in Nat
            BY <1>1, <2>1
        <3> HIDE DEF place
        <3> QED BY <3>1
    <2>3. below(q) = below(r)
        BY <1>2, <2>1, <2>2, FS_Subset
    <2> QED BY <2>2, <2>3
<1>4. place \in Injection(rs, 0..(n - 1))
    <2>1. place \in [rs -> 0..(n - 1)]
        BY <1>1, <1>2
    <2>2. ASSUME NEW q \in rs, NEW r \in rs, place[q] = place[r] PROVE q = r
        <3>1. q \in Nat /\ r \in Nat
            BY <1>1
        <3> HIDE DEF place
        <3>2. ~ (q < r) /\ ~ (r < q)
            BY <1>3, <2>2
        <3> QED BY <3>1, <3>2
    <2> QED BY <2>1, <2>2 DEF Injection, IsInjective
<1>5. IsFiniteSet(0..(n - 1)) /\ Cardinality(0..(n - 1)) = n
    <2> HIDE DEF n
    <2>1. 0 \in Int /\ n - 1 \in Int
        BY <1>1
    <2>2. Cardinality(0..(n - 1)) = IF 0 > n - 1 THEN 0 ELSE (n - 1) - 0 + 1
        BY <2>1, FS_Interval
    <2> QED BY <1>1, <2>1, <2>2, FS_Interval
<1>6. place \in Bijection(rs, 0..(n - 1))
    BY <1>1, <1>4, <1>5, FS_Injection DEF Bijection
<1> QED BY <1>1, <1>6

\* What a send comes to: each request gets an id of its own that was never given before,
\* an entry, and, on an open socket, a place in the queue.
SendsAs(c, rs, s, state, id) ==
    /\ \A r \in rs : id[r] \in Nat /\ nextId[c] <= id[r] /\ id[r] < nextId'[c]
    /\ \A q, r \in rs : id[q] = id[r] => q = r
    /\ nextId'[c] \in Nat /\ nextId[c] <= nextId'[c]
    /\ \A d \in Requests : d # c => nextId'[d] = nextId[d] /\ pending'[d] = pending[d]
    /\ pending'[c] = {e \in pending[c] : \A r \in rs : id[r] # e.id} \cup {Command(id[r], r) : r \in rs}
    /\ \A r \in Requests : r \notin rs => req'[r] = req[r]
    /\ \A r \in rs : req'[r] = [req[r] EXCEPT
           !.pc = IF s = None \/ state = "connecting" THEN Rejected(r) ELSE "pending",
           !.client = c, !.on = s]
    /\ state # "open" => up' = up
    /\ state = "open" => \E q \in Seq(Commands) :
          /\ up' = [up EXCEPT ![s] = @ \o q]
          /\ \A k \in DOMAIN q : \E r \in rs : q[k] = Command(id[r], r)
          /\ \A k, l \in DOMAIN q : q[k].for = q[l].for => k = l

LEMMA Sent ==
    ASSUME Types, NEW c \in Requests, NEW rs \in SUBSET Requests, NEW s, NEW state,
           SendAll(c, rs, s, state)
    PROVE  /\ nextId' \in [Requests -> Nat] /\ DOMAIN pending' = Requests /\ DOMAIN req' = Requests
           /\ \E id : SendsAs(c, rs, s, state, id)
<1> DEFINE n == Cardinality(rs)
           place == [r \in rs |-> Cardinality({q \in rs : q < r})]
           id == [r \in rs |-> nextId[c] + place[r]]
           new == {Command(nextId[c] + Cardinality({q \in rs : q < r}), r) : r \in rs}
           queue == [i \in 1..n |-> CHOOSE m \in new : Cardinality({q \in rs : q < m.for}) = i - 1]
<1>1. n \in Nat /\ place \in Bijection(rs, 0..(n - 1))
    BY Places
<1>2. /\ \A r \in rs : place[r] \in 0..(n - 1)
      /\ \A q, r \in rs : place[q] = place[r] => q = r
      /\ \A i \in 0..(n - 1) : \E r \in rs : place[r] = i
    <2> HIDE DEF place
    <2> QED BY <1>1 DEF Bijection, Injection, Surjection, IsInjective
<1>3. nextId[c] \in Nat /\ nextId' = [nextId EXCEPT ![c] = @ + n]
    BY DEF Types, SendAll
<1>4. new = {Command(id[r], r) : r \in rs}
    OBVIOUS
<1>5. pending' = [pending EXCEPT ![c] = {e \in @ : \A m \in new : m.id # e.id} \cup new]
    BY DEF SendAll, FirstId
<1>6. {e \in pending[c] : \A m \in new : m.id # e.id} = {e \in pending[c] : \A r \in rs : id[r] # e.id}
    <2>1. \A r \in rs : Command(id[r], r).id = id[r]
        BY DEF Command
    <2> HIDE DEF id, new, queue, place
    <2>2. ASSUME NEW e PROVE (\A m \in new : m.id # e.id) <=> (\A r \in rs : id[r] # e.id)
        BY <1>4, <2>1
    <2> QED BY <2>2
<1>7. /\ \A r \in Requests : r \notin rs => req'[r] = req[r]
      /\ \A r \in rs : req'[r] = [req[r] EXCEPT
           !.pc = IF s = None \/ state = "connecting" THEN Rejected(r) ELSE "pending",
           !.client = c, !.on = s]
      /\ DOMAIN req' = Requests
    BY DEF SendAll
<1>8. up' = IF state # "open" THEN up ELSE [up EXCEPT ![s] = @ \o queue]
    BY DEF SendAll, FirstId
<1>9. \A i \in 1..n : \E r \in rs : queue[i] = Command(id[r], r) /\ place[r] = i - 1
    <2>1. SUFFICES ASSUME NEW i \in 1..n
                   PROVE  \E r \in rs : queue[i] = Command(id[r], r) /\ place[r] = i - 1
        OBVIOUS
    <2>2. PICK r \in rs : place[r] = i - 1
        <3>1. i - 1 \in 0..(n - 1)
            BY <1>1
        <3> QED BY <1>2, <3>1
    <2>3. /\ Command(id[r], r) \in new /\ Command(id[r], r).for = r
          /\ Cardinality({q \in rs : q < r}) = i - 1
        BY <1>4, <2>2 DEF Command
    <2>4. queue[i] \in new /\ Cardinality({q \in rs : q < queue[i].for}) = i - 1
        BY <2>3
    <2>5. PICK t \in rs : queue[i] = Command(id[t], t)
        BY <1>4, <2>4
    <2>6. place[t] = i - 1
        <3> HIDE DEF queue, id, new
        <3>1. queue[i].for = t
            BY <2>5 DEF Command
        <3> QED BY <2>4, <3>1
    <2> QED BY <2>5, <2>6
<1>10. \A r \in rs : id[r] \in Nat /\ nextId[c] <= id[r] /\ id[r] < nextId[c] + n
    BY <1>1, <1>2, <1>3
<1>11. \A q, r \in rs : id[q] = id[r] => q = r
    <2>1. \A r \in rs : place[r] \in Nat /\ id[r] = nextId[c] + place[r]
        BY <1>1, <1>2
    <2> HIDE DEF id, place
    <2> QED BY <1>2, <1>3, <2>1
<1> HIDE DEF n, place, id, new
<1>12. queue \in Seq(Commands)
    <2>1. \A i \in 1..n : queue[i] \in Commands
        <3>1. \A r \in rs : Command(id[r], r) \in Commands
            BY <1>10 DEF Command, Commands
        <3> HIDE DEF queue
        <3> QED BY <1>9, <3>1
    <2>2. queue \in [1..n -> Commands]
        BY <2>1
    <2> HIDE DEF queue
    <2> QED BY <1>1, <2>2, SeqDef
<1>13. DOMAIN queue = 1..n
    OBVIOUS
<1> HIDE DEF queue
<1>14. /\ \A k \in DOMAIN queue : \E r \in rs : queue[k] = Command(id[r], r)
       /\ \A k, l \in DOMAIN queue : queue[k].for = queue[l].for => k = l
    <2>1. \A k \in 1..n : \E r \in rs : queue[k].for = r /\ place[r] = k - 1
        <3>1. \A r \in rs : Command(id[r], r).for = r
            BY DEF Command
        <3> QED BY <1>9, <3>1
    <2>2. \A k, l \in 1..n : queue[k].for = queue[l].for => k - 1 = l - 1
        BY <2>1
    <2> QED BY <1>1, <1>9, <1>13, <2>2
<1>15. SendsAs(c, rs, s, state, id)
    <2>1. /\ nextId'[c] = nextId[c] + n /\ nextId'[c] \in Nat /\ nextId[c] <= nextId'[c]
          /\ \A d \in Requests : d # c => nextId'[d] = nextId[d] /\ pending'[d] = pending[d]
        BY <1>1, <1>3, <1>5 DEF Types
    <2>2. pending'[c] = {e \in pending[c] : \A r \in rs : id[r] # e.id} \cup {Command(id[r], r) : r \in rs}
        <3>1. pending'[c] = {e \in pending[c] : \A m \in new : m.id # e.id} \cup new
            BY <1>5 DEF Types
        <3> QED BY <1>4, <1>6, <3>1
    <2> QED BY <1>7, <1>8, <1>10, <1>11, <1>12, <1>14, <2>1, <2>2 DEF SendsAs
<1>16. nextId' \in [Requests -> Nat] /\ DOMAIN pending' = Requests
    BY <1>1, <1>3, <1>5 DEF Types
<1>17. \E i : SendsAs(c, rs, s, state, i)
    BY <1>15
<1> QED BY <1>7, <1>16, <1>17

LEMMA SentTypes ==
    ASSUME Types, NEW c \in Requests, NEW rs \in SUBSET Requests, NEW s \in Clients, NEW state,
           state = "open" => s \in Requests, SendAll(c, rs, s, state)
    PROVE  /\ nextId' \in [Requests -> Nat] /\ pending' \in [Requests -> SUBSET Commands]
           /\ req' \in [Requests -> [pc : Stages, client : Clients, on : Clients, from : Clients]]
           /\ up' \in [Requests -> Seq(Commands)]
<1>1. PICK id : SendsAs(c, rs, s, state, id)
    BY Sent
<1>2. nextId' \in [Requests -> Nat] /\ DOMAIN req' = Requests
    BY Sent
<1>3. pending' \in [Requests -> SUBSET Commands]
    <2>1. \A r \in rs : Command(id[r], r) \in Commands
        BY <1>1 DEF SendsAs, Command, Commands
    <2>2. pending'[c] \subseteq Commands
        <3>1. pending[c] \subseteq Commands
            BY DEF Types
        <3>2. \A e \in pending'[c] : e \in pending[c] \/ \E r \in rs : e = Command(id[r], r)
            BY <1>1 DEF SendsAs
        <3> QED BY <2>1, <3>1, <3>2
    <2>3. \A d \in Requests : pending'[d] \subseteq Commands
        BY <1>1, <2>2 DEF SendsAs, Types
    <2>4. pending' = [pending EXCEPT ![c] = pending'[c]]
        BY DEF SendAll, Types
    <2> QED BY <2>3, <2>4 DEF Types
<1>4. ASSUME NEW r \in Requests
      PROVE  req'[r] \in [pc : Stages, client : Clients, on : Clients, from : Clients]
    <2>1. req[r] \in [pc : Stages, client : Clients, on : Clients, from : Clients]
        BY DEF Types
    <2>2. CASE r \in rs
        <3>1. (IF s = None \/ state = "connecting" THEN Rejected(r) ELSE "pending") \in Stages
            BY DEF Rejected, Stages
        <3>2. c \in Clients
            BY DEF Clients
        <3> QED BY <1>1, <2>1, <2>2, <3>1, <3>2 DEF SendsAs
    <2>3. CASE r \notin rs
        BY <1>1, <2>1, <2>3 DEF SendsAs
    <2> QED BY <2>2, <2>3
<1>5. req' = [r \in Requests |-> req'[r]]
    BY DEF SendAll
<1>6. up' \in [Requests -> Seq(Commands)]
    <2>1. CASE state = "open"
        <3>1. PICK q \in Seq(Commands) : up' = [up EXCEPT ![s] = @ \o q]
            BY <1>1, <2>1 DEF SendsAs
        <3>2. s \in Requests /\ up[s] \in Seq(Commands)
            BY <2>1 DEF Types
        <3>3. up[s] \o q \in Seq(Commands)
            BY <3>2
        <3> QED BY <3>1, <3>2, <3>3 DEF Types
    <2> QED BY <1>1, <2>1 DEF SendsAs, Types
<1> QED BY <1>2, <1>3, <1>4, <1>5, <1>6

-----------------------------------------------------------------------------
(* Types                                                                   *)

RequestType == [pc : Stages, client : Clients, on : Clients, from : Clients]

\* A request is rejected, settled or fetched: one field or two of it change.
LEMMA RejectTypes ==
    ASSUME Types, NEW rs
    PROVE  /\ Reject(rs) \in [Requests -> RequestType]
           /\ \A r \in Requests :
                 Reject(rs)[r] = IF r \in rs THEN [req[r] EXCEPT !.pc = Rejected(r)] ELSE req[r]
<1>1. \A r \in Requests : Rejected(r) \in Stages
    BY DEF Rejected, Stages
<1> QED BY <1>1 DEF Types, Reject, RequestType

LEMMA SettleTypes ==
    ASSUME Types, NEW r \in Requests, NEW pc \in Stages, NEW from \in Clients, Settle(r, pc, from)
    PROVE  req' \in [Requests -> RequestType]
BY DEF Types, Settle, RequestType

\* The client of a socket that was made.
LEMMA Owner == ASSUME Types, Sockets, NEW s \in Requests, phase[s] # "none" PROVE owner[s] \in Requests
BY DEF Types, Sockets, Clients

LEMMA ClientForTypes == ASSUME Types, NEW r \in Requests PROVE ClientFor(r) \in Requests
BY DEF Types, ClientFor, Clients

LEMMA Update ==
    ASSUME NEW D, NEW S, NEW f \in [D -> S], NEW k, NEW x \in S
    PROVE  [f EXCEPT ![k] = x] \in [D -> S]
OBVIOUS

LEMMA TextTypes ==
    ASSUME NEW chunks \in Seq(Nat), NEW loaded \in BOOLEAN
    PROVE  [chunks |-> chunks, loaded |-> loaded] \in [chunks : Seq(Nat), loaded : BOOLEAN]
OBVIOUS

LEMMA AskTypes ==
    ASSUME Types, Sockets, NEW r \in Requests, AskNow(r) \/ AskAndConnect(r)
    PROVE  Types'
<1> DEFINE c == ClientFor(r)
<1>1. c \in Requests /\ c \in Clients /\ r \in Clients
    BY ClientForTypes DEF Clients
<1>2. text' \in [chunks : Seq(Nat), loaded : BOOLEAN]
    <2>1. StartLoading(r)
        BY DEF AskNow, AskAndConnect
    <2>2. text' = text \/ text' = [chunks |-> <<>>, loaded |-> FALSE]
        BY <2>1 DEF StartLoading
    <2>3. [chunks |-> <<>>, loaded |-> FALSE] \in [chunks : Seq(Nat), loaded : BOOLEAN]
        <3>1. <<>> \in Seq(Nat)
            OBVIOUS
        <3> QED BY <3>1, TextTypes
    <2>4. text \in [chunks : Seq(Nat), loaded : BOOLEAN]
        BY DEF Types
    <2> QED BY <2>2, <2>3, <2>4
<1> HIDE DEF c
<1>3. CASE AskNow(r)
    <2>1. current[c] \in Requests /\ SendAll(c, {r}, current[c], "open") /\ registered' = c
        BY <1>1, <1>3 DEF AskNow, Types, Clients, c
    <2>2. /\ nextId' \in [Requests -> Nat] /\ pending' \in [Requests -> SUBSET Commands]
          /\ req' \in [Requests -> [pc : Stages, client : Clients, on : Clients, from : Clients]]
          /\ up' \in [Requests -> Seq(Commands)]
        BY <1>1, <2>1, SentTypes DEF Clients
    <2> QED BY <1>1, <1>2, <1>3, <2>1, <2>2 DEF AskNow, Types
<1>4. CASE AskAndConnect(r)
    <2> DEFINE s == IF promise[c] # None THEN promise[c] ELSE r
    <2>1. s \in Clients
        BY <1>1 DEF Types
    <2>2. req' = [req EXCEPT ![r] = [@ EXCEPT !.pc = "connecting", !.client = c, !.on = s]]
        BY <1>4 DEF AskAndConnect, ConnectPromise, c
    <2> HIDE DEF s
    <2>3. req' \in [Requests -> RequestType]
        <3> DEFINE new == [req[r] EXCEPT !.pc = "connecting", !.client = c, !.on = s]
        <3>1. req[r] \in RequestType /\ "connecting" \in Stages
            BY DEF Types, RequestType, Stages
        <3>2. new \in RequestType
            BY <1>1, <2>1, <3>1 DEF RequestType
        <3>3. req' = [req EXCEPT ![r] = new]
            BY <2>2
        <3> HIDE DEF new
        <3> QED BY <3>2, <3>3 DEF Types, RequestType
    <2>4. /\ registered' = c /\ UNCHANGED <<nextId, pending, up, down, task, faults>>
          /\ current' \in {current, [current EXCEPT ![c] = r], [current EXCEPT ![c] = None]}
          /\ promise' \in {promise, [promise EXCEPT ![c] = r]}
          /\ phase' \in {phase, [phase EXCEPT ![r] = "connecting"]}
          /\ owner' \in {owner, [owner EXCEPT ![r] = c]}
          /\ raced' \in BOOLEAN
        BY <1>4 DEF AskAndConnect, Types, c
    <2>5. current' \in [Requests -> Clients] /\ promise' \in [Requests -> Clients]
        <3>1. None \in Clients
            BY DEF Clients
        <3>2. current \in [Requests -> Clients] /\ promise \in [Requests -> Clients]
            BY DEF Types
        <3>3. [current EXCEPT ![c] = r] \in [Requests -> Clients]
              /\ [current EXCEPT ![c] = None] \in [Requests -> Clients]
              /\ [promise EXCEPT ![c] = r] \in [Requests -> Clients]
            BY <1>1, <3>1, <3>2, Update
        <3> QED BY <2>4, <3>2, <3>3
    <2>6. phase' \in [Requests -> Phases] /\ owner' \in [Requests -> Clients]
        <3>1. "connecting" \in Phases
            BY DEF Phases
        <3>2. phase \in [Requests -> Phases] /\ owner \in [Requests -> Clients]
            BY DEF Types
        <3>3. [phase EXCEPT ![r] = "connecting"] \in [Requests -> Phases]
              /\ [owner EXCEPT ![r] = c] \in [Requests -> Clients]
            BY <1>1, <3>1, <3>2, Update
        <3> QED BY <2>4, <3>2, <3>3
    <2> QED BY <1>1, <1>2, <2>3, <2>4, <2>5, <2>6 DEF Types, RequestType
<1> QED BY <1>3, <1>4

LEMMA SocketTypes ==
    ASSUME Types, Sockets, NEW s \in Requests,
           SocketOpens(s) \/ SocketFails(s) \/ SocketCloses(s) \/ SocketClosed(s)
    PROVE  Types'
<1>1. owner[s] \in Requests
    BY Owner DEF SocketOpens, SocketFails, SocketCloses, SocketClosed
<1>2. CASE SocketOpens(s)
    <2> DEFINE c == owner[s]
               state == IF current[c] = None THEN "none" ELSE phase'[current[c]]
    <2>1. Waiters(s) \subseteq Requests
        BY DEF Waiters
    <2>2. current[c] \in Clients /\ SendAll(c, Waiters(s), current[c], state)
        BY <1>1, <1>2 DEF SocketOpens, Types
    <2>3. state = "open" => current[c] \in Requests
        BY <2>2 DEF Clients
    <2>4. /\ nextId' \in [Requests -> Nat] /\ pending' \in [Requests -> SUBSET Commands]
          /\ req' \in [Requests -> [pc : Stages, client : Clients, on : Clients, from : Clients]]
          /\ up' \in [Requests -> Seq(Commands)]
        <3> HIDE DEF state
        <3> QED BY <1>1, <2>1, <2>2, <2>3, SentTypes
    <2> QED BY <1>1, <1>2, <2>4 DEF SocketOpens, Types, Phases, Clients
<1>3. ASSUME NEW waiters, HandleClose(s, waiters), faults' \in Nat PROVE Types'
    <2>1. req' \in [Requests -> RequestType]
        BY <1>3, RejectTypes DEF HandleClose
    <2>2. None \in Clients /\ {} \in SUBSET Commands /\ <<>> \in Seq(Answers)
        BY DEF Clients
    <2>3. /\ registered' \in Clients /\ current' \in [Requests -> Clients]
          /\ promise' \in [Requests -> Clients] /\ pending' \in [Requests -> SUBSET Commands]
        BY <1>3, <2>2 DEF HandleClose, ClearSocket, Types
    <2>4. phase' \in [Requests -> Phases] /\ down' \in [Requests -> Seq(Answers)]
        BY <1>3, <2>2 DEF HandleClose, Types, Phases
    <2>5. UNCHANGED <<nextId, owner, up, task, text, raced>>
        BY <1>3 DEF HandleClose
    <2> QED BY <1>3, <2>1, <2>3, <2>4, <2>5 DEF Types, RequestType
<1>4. CASE SocketCloses(s)
    BY <1>4 DEF SocketCloses, clientVars, Types, Phases
<1>5. CASE SocketFails(s) \/ SocketClosed(s)
    <2>1. PICK waiters : HandleClose(s, waiters) /\ faults' \in {faults, faults + 1}
        BY <1>5 DEF SocketFails, SocketClosed
    <2> QED BY <1>3, <2>1 DEF Types
<1> QED BY <1>2, <1>4, <1>5

LEMMA AnswerTypes ==
    ASSUME Types, Sockets, NEW s \in Requests, Receive(s)
    PROVE  Types'
<1> DEFINE m == Head(down[s])
           c == owner[s]
           entry == {e \in pending[c] : e.id = m.id}
           r == (CHOOSE e \in entry : TRUE).for
<1>1. c \in Requests /\ m \in Answers /\ Tail(down[s]) \in Seq(Answers)
    <2>1. phase[s] # "none" /\ down[s] # <<>> /\ down[s] \in Seq(Answers)
        BY DEF Receive, Types
    <2> QED BY <2>1, Owner
<1>2. entry # {} => r \in Requests
    <2>1. entry \subseteq Commands
        BY <1>1 DEF Types
    <2>2. entry # {} => (CHOOSE e \in entry : TRUE) \in entry
        OBVIOUS
    <2> HIDE DEF entry
    <2> QED BY <2>1, <2>2 DEF Commands
<1>3. /\ down' = [down EXCEPT ![s] = Tail(down[s])]
      /\ UNCHANGED <<registered, current, promise, nextId, phase, owner, up, task, faults, raced>>
    BY DEF Receive
<1>4. \/ UNCHANGED <<pending, req, text>>
      \/ /\ entry # {}
         /\ text' = [chunks |-> Append(text.chunks, m.chunk), loaded |-> FALSE]
         /\ UNCHANGED <<pending, req>>
      \/ /\ entry # {}
         /\ pending' = [pending EXCEPT ![c] = @ \ entry]
         /\ \E pc \in {"ok", Rejected(r)} : Settle(r, pc, m.for)
         /\ \/ text' = [text EXCEPT !.loaded = @ \/ (r \in Opens /\ req[r].pc = "pending")]
            \/ UNCHANGED text
    <2>1. m.what \in {"chunk", "complete", "error"}
        BY <1>1 DEF Answers
    <2> HIDE DEF m, entry, r
    <2> QED BY <2>1 DEF Receive, m, c, entry, r
<1> HIDE DEF m, c, entry, r
<1>5. pending' \in [Requests -> SUBSET Commands]
    BY <1>1, <1>4 DEF Types
<1>6. req' \in [Requests -> RequestType]
    <2>1. entry # {} => "ok" \in Stages /\ Rejected(r) \in Stages /\ m.for \in Clients
        BY <1>1 DEF Rejected, Stages, Answers, Clients
    <2> QED BY <1>2, <1>4, <2>1, SettleTypes DEF Types, RequestType
<1>7. text' \in [chunks : Seq(Nat), loaded : BOOLEAN]
    <2>1. Append(text.chunks, m.chunk) \in Seq(Nat)
        <3>1. text.chunks \in Seq(Nat) /\ m.chunk \in Nat
            BY <1>1 DEF Types, Answers
        <3> QED BY <3>1
    <2>2. text \in [chunks : Seq(Nat), loaded : BOOLEAN]
        BY DEF Types
    <2>3. CASE text' = [chunks |-> Append(text.chunks, m.chunk), loaded |-> FALSE]
        BY <2>1, <2>3
    <2>4. CASE text' = [text EXCEPT !.loaded = @ \/ (r \in Opens /\ req[r].pc = "pending")]
        <3> DEFINE b == text.loaded \/ (r \in Opens /\ req[r].pc = "pending")
        <3>1. b \in BOOLEAN /\ text' = [text EXCEPT !.loaded = b]
            BY <2>2, <2>4
        <3> HIDE DEF b
        <3> QED BY <2>2, <3>1
    <2> QED BY <1>4, <2>2, <2>3, <2>4
<1> QED BY <1>1, <1>3, <1>5, <1>6, <1>7 DEF Types, RequestType

LEMMA GatewayTypes ==
    ASSUME Types, Sockets, NEW s \in Requests, Accept(s) \/ Respond(s) \/ Fetched(s)
    PROVE  Types'
<1>1. CASE Accept(s)
    <2>1. up[s] \in Seq(Commands) /\ up[s] # <<>>
        BY <1>1 DEF Accept, Types
    <2>2. Head(up[s]) \in Commands /\ Tail(up[s]) \in Seq(Commands)
        BY <2>1
    <2> QED BY <1>1, <2>2 DEF Accept, clientVars, Types, Commands, Clients
<1>2. CASE Respond(s)
    <2> DEFINE t == task[s]
               m == Command(t.id, s)
               chunks == IF s \in Opens THEN [i \in 1..Chunks |-> Answer(m, "chunk", i)] ELSE <<>>
    <2>1. t.pc = "running" /\ t.on \in Clients /\ t.id \in Nat
        BY <1>2 DEF Respond, Types
    <2>2. \A what \in {"chunk", "complete", "error"}, i \in Nat : Answer(m, what, i) \in Answers
        BY <2>1 DEF Answer, Answers, Command
    <2>3. chunks \in Seq(Answers)
        <3>1. \A i \in 1..Chunks : Answer(m, "chunk", i) \in Answers
            BY <2>2, CommandAssumption
        <3> HIDE DEF m
        <3>2. [i \in 1..Chunks |-> Answer(m, "chunk", i)] \in [1..Chunks -> Answers]
            BY <3>1
        <3>3. [i \in 1..Chunks |-> Answer(m, "chunk", i)] \in Seq(Answers)
            BY <3>2, CommandAssumption, SeqDef
        <3> QED BY <3>3
    <2>4. Answer(m, "complete", 0) \in Answers /\ Answer(m, "error", 0) \in Answers
        BY <2>2
    <2>5. /\ \E answers \in {Append(chunks, Answer(m, "complete", 0)), <<Answer(m, "error", 0)>>} :
                down' = IF phase[t.on] # "open" THEN down ELSE [down EXCEPT ![t.on] = @ \o answers]
          /\ task' = [task EXCEPT ![s].pc = "over"]
          /\ UNCHANGED <<clientVars, phase, owner, up, req, text, faults, raced>>
        BY <1>2 DEF Respond
    <2> HIDE DEF m, chunks
    <2>6. PICK answers \in Seq(Answers) :
              down' = IF phase[t.on] # "open" THEN down ELSE [down EXCEPT ![t.on] = @ \o answers]
        <3>1. Append(chunks, Answer(m, "complete", 0)) \in Seq(Answers)
              /\ <<Answer(m, "error", 0)>> \in Seq(Answers)
            BY <2>3, <2>4
        <3> QED BY <2>5, <3>1
    <2>7. down' \in [Requests -> Seq(Answers)]
        <3>1. \A q \in Requests : down[q] \o answers \in Seq(Answers)
            BY DEF Types
        <3> QED BY <2>6, <3>1 DEF Types
    <2> QED BY <2>1, <2>5, <2>7 DEF Types, clientVars
<1>3. CASE Fetched(s)
    <2>1. File \in Seq(Nat)
        <3>1. File \in [1..Chunks -> Nat]
            BY CommandAssumption DEF File
        <3> QED BY <3>1, CommandAssumption, SeqDef
    <2>2. text' \in [chunks : Seq(Nat), loaded : BOOLEAN]
        <3>1. text' = text \/ text' = [chunks |-> File, loaded |-> TRUE]
            BY <1>3 DEF Fetched
        <3>2. [chunks |-> File, loaded |-> TRUE] \in [chunks : Seq(Nat), loaded : BOOLEAN]
            BY <2>1, TextTypes
        <3>3. text \in [chunks : Seq(Nat), loaded : BOOLEAN]
            BY DEF Types
        <3> QED BY <3>1, <3>2, <3>3
    <2>3. req' \in [Requests -> RequestType]
        <3> DEFINE new == [req[s] EXCEPT !.pc = "failed"]
        <3>1. req[s] \in RequestType /\ "failed" \in Stages
            BY DEF Types, RequestType, Stages
        <3>2. new \in RequestType
            BY <3>1 DEF RequestType
        <3>3. req' = [req EXCEPT ![s] = new]
            BY <1>3 DEF Fetched
        <3> HIDE DEF new
        <3> QED BY <3>2, <3>3 DEF Types, RequestType
    <2> QED BY <1>3, <2>2, <2>3 DEF Fetched, clientVars, wireVars, Types, RequestType
<1> QED BY <1>1, <1>2, <1>3

LEMMA TimesOutTypes ==
    ASSUME Types, NEW c \in Requests, NEW e \in pending[c], TimesOut(c, e)
    PROVE  Types'
<1>1. e.for \in Requests
    BY DEF Types, Commands
<1>2. req' \in [Requests -> RequestType]
    <2>1. Rejected(e.for) \in Stages /\ None \in Clients
        BY DEF Rejected, Stages, Clients
    <2> QED BY <1>1, <2>1, SettleTypes DEF TimesOut
<1> QED BY <1>2 DEF TimesOut, Forget, wireVars, Types, RequestType

\* Which of them a step is.
LEMMA Steps ==
    ASSUME Next
    PROVE  \/ \E r \in Requests : AskNow(r) \/ AskAndConnect(r)
           \/ \E s \in Requests : SocketOpens(s) \/ SocketFails(s) \/ SocketCloses(s) \/ SocketClosed(s)
           \/ \E s \in Requests : Receive(s)
           \/ \E s \in Requests : Accept(s) \/ Respond(s) \/ Fetched(s)
           \/ \E c \in Requests : \E e \in pending[c] : TimesOut(c, e)
BY DEF Next

LEMMA StepTypes == ASSUME Types, Sockets, [Next]_vars PROVE Types'
<1>1. CASE Next
    BY <1>1, Steps, AskTypes, SocketTypes, AnswerTypes, GatewayTypes, TimesOutTypes
<1>2. CASE UNCHANGED vars
    BY <1>2 DEF vars, clientVars, wireVars, Types
<1> QED BY <1>1, <1>2

-----------------------------------------------------------------------------
(* Sockets                                                                 *)

LEMMA AskSockets ==
    ASSUME Types, Types', Sockets, NEW r \in Requests, AskNow(r) \/ AskAndConnect(r)
    PROVE  Sockets'
<1> DEFINE c == ClientFor(r)
<1>1. c \in Requests /\ req[r].pc = "unused" /\ phase[r] = "none"
    BY ClientForTypes DEF AskNow, AskAndConnect, NextRequest, Sockets
<1>2. CASE AskNow(r)
    <2>1. PICK id : SendsAs(c, {r}, current[c], "open", id)
        <3>1. SendAll(c, {r}, current[c], "open")
            BY <1>2 DEF AskNow
        <3> HIDE DEF c
        <3> QED BY <1>1, <3>1, Sent
    <2>2. UNCHANGED <<current, promise, phase, owner, down, task>> /\ phase[current[c]] = "open"
        BY <1>2 DEF AskNow
    <2> HIDE DEF c
    <2>3. /\ \A q \in Requests : q # r => req'[q] = req[q]
          /\ req'[r].pc # "unused"
        <3>1. req[r] \in RequestType
            BY DEF Types, RequestType
        <3>2. \A q \in Requests : q \notin {r} => req'[q] = req[q]
            BY <2>1 DEF SendsAs
        <3>3. \E pc \in {"pending", Rejected(r)} :
                  req'[r] = [req[r] EXCEPT !.pc = pc, !.client = c, !.on = current[c]]
            BY <2>1 DEF SendsAs
        <3> QED BY <3>1, <3>2, <3>3 DEF Rejected, RequestType
    <2>4. PICK q \in Seq(Commands) : up' = [up EXCEPT ![current[c]] = @ \o q]
        BY <2>1 DEF SendsAs
    <2>5. \A s \in Requests : phase[s] = "none" => up'[s] = up[s]
        BY <2>2, <2>4 DEF Types
    <2> QED BY <1>1, <2>2, <2>3, <2>5 DEF Sockets, Types
<1>3. CASE AskAndConnect(r)
    <2> DEFINE s == IF promise[c] # None THEN promise[c] ELSE r
    <2>1. /\ req' = [req EXCEPT ![r] = [@ EXCEPT !.pc = "connecting", !.client = c, !.on = s]]
          /\ UNCHANGED <<up, down, task>>
        BY <1>3 DEF AskAndConnect, ConnectPromise
    <2>2. \/ /\ current' = [current EXCEPT ![c] = r] /\ promise' = [promise EXCEPT ![c] = r]
             /\ phase' = [phase EXCEPT ![r] = "connecting"] /\ owner' = [owner EXCEPT ![r] = c]
          \/ /\ current' \in {current, [current EXCEPT ![c] = None]}
             /\ UNCHANGED <<promise, phase, owner>>
        BY <1>3 DEF AskAndConnect
    <2>3. /\ \A q \in Requests : q # r => req'[q] = req[q]
          /\ req'[r].pc = "connecting"
        <3>1. req[r] \in RequestType /\ req \in [Requests -> RequestType]
            BY DEF Types, RequestType
        <3> HIDE DEF s, c
        <3> QED BY <2>1, <3>1 DEF RequestType
    <2> HIDE DEF c, s
    <2>4. CASE UNCHANGED <<promise, phase, owner>> /\ current' \in {current, [current EXCEPT ![c] = None]}
        <3>1. \A d \in Requests : /\ current'[d] # None => current'[d] = current[d]
                                  /\ promise'[d] = promise[d]
            BY <1>1, <2>4 DEF Types
        <3>2. UNCHANGED <<promise, phase, owner>>
            BY <2>4
        <3> QED BY <2>1, <2>3, <3>1, <3>2 DEF Sockets
    <2>5. CASE /\ current' = [current EXCEPT ![c] = r] /\ promise' = [promise EXCEPT ![c] = r]
               /\ phase' = [phase EXCEPT ![r] = "connecting"] /\ owner' = [owner EXCEPT ![r] = c]
        <3>0. c # None
            BY <1>1 DEF Requests, None
        <3>1. owner[r] = None
            BY <1>1 DEF Sockets
        <3>2. \A d \in Requests : current[d] # r /\ promise[d] # r
            <4>1. \A d \in Requests : d # None
                BY DEF Requests, None
            <4>2. r # None
                BY <4>1
            <4> QED BY <3>1, <4>1, <4>2 DEF Sockets
        <3>3. /\ phase'[r] = "connecting" /\ owner'[r] = c /\ current'[c] = r /\ promise'[c] = r
              /\ \A t \in Requests : t # r => phase'[t] = phase[t] /\ owner'[t] = owner[t]
              /\ \A d \in Requests : d # c => current'[d] = current[d] /\ promise'[d] = promise[d]
            BY <1>1, <2>5 DEF Types
        <3>4. \A d \in Requests : current[d] \in Clients /\ promise[d] \in Clients
            BY DEF Types
        <3>5. \A d \in Requests : /\ current'[d] # None => owner'[current'[d]] = d
                                  /\ promise'[d] # None => owner'[promise'[d]] = d
            BY <3>2, <3>3, <3>4 DEF Sockets, Clients
        <3>6. \A t \in Requests : phase'[t] # "none" \/ (phase'[t] = phase[t] /\ owner'[t] = owner[t])
            BY <3>3
        <3>7. \A t \in Requests : phase'[t] = "none" <=> owner'[t] = None
            BY <3>0, <3>3 DEF Sockets
        <3> QED BY <2>1, <2>3, <3>3, <3>5, <3>6, <3>7 DEF Sockets
    <2> QED BY <2>2, <2>4, <2>5
<1> QED BY <1>2, <1>3

\* The fields a send and a rejection leave a request with.
LEMMA SentFields ==
    ASSUME Types, NEW c, NEW rs \in SUBSET Requests, NEW s, NEW state, NEW id,
           SendsAs(c, rs, s, state, id)
    PROVE  /\ \A r \in rs : /\ req'[r].pc = (IF s = None \/ state = "connecting" THEN Rejected(r) ELSE "pending")
                            /\ req'[r].client = c /\ req'[r].on = s /\ req'[r].from = req[r].from
           /\ \A r \in Requests : req'[r] = req[r] \/ (r \in rs /\ req'[r].pc \in {"fetching", "failed", "pending"})
<1>1. \A r \in rs : req[r] \in RequestType
    BY DEF Types, RequestType
<1>2. \A r \in rs : req'[r] = [req[r] EXCEPT
           !.pc = IF s = None \/ state = "connecting" THEN Rejected(r) ELSE "pending",
           !.client = c, !.on = s]
    BY DEF SendsAs
<1>3. \A r \in rs : /\ req'[r].pc = (IF s = None \/ state = "connecting" THEN Rejected(r) ELSE "pending")
                    /\ req'[r].client = c /\ req'[r].on = s /\ req'[r].from = req[r].from
    BY <1>1, <1>2 DEF RequestType
<1>4. \A r \in Requests : r \notin rs => req'[r] = req[r]
    BY DEF SendsAs
<1> QED BY <1>3, <1>4 DEF Rejected

LEMMA RejectedFields ==
    ASSUME Types, NEW rs, NEW r \in Requests, req' = Reject(rs)
    PROVE  /\ req'[r].client = req[r].client /\ req'[r].on = req[r].on /\ req'[r].from = req[r].from
           /\ req'[r].pc = IF r \in rs THEN Rejected(r) ELSE req[r].pc
<1>1. req[r] \in RequestType
    BY DEF Types, RequestType
<1>2. req'[r] = IF r \in rs THEN [req[r] EXCEPT !.pc = Rejected(r)] ELSE req[r]
    BY RejectTypes
<1> QED BY <1>1, <1>2 DEF RequestType

LEMMA SettledFields ==
    ASSUME Types, NEW r \in Requests, NEW pc, NEW from, Settle(r, pc, from)
    PROVE  /\ \A q \in Requests : q # r => req'[q] = req[q]
           /\ req[r].pc \notin Waiting => req'[r] = req[r]
           /\ req[r].pc \in Waiting => /\ req'[r].pc = pc /\ req'[r].from = from
                                       /\ req'[r].client = req[r].client /\ req'[r].on = req[r].on
<1>1. req \in [Requests -> RequestType]
    BY DEF Types, RequestType
<1>2. \A q \in Requests : q # r => req'[q] = req[q]
    BY <1>1 DEF Settle
<1>3. CASE req[r].pc \notin Waiting
    BY <1>2, <1>3 DEF Settle
<1>4. CASE req[r].pc \in Waiting
    <2> DEFINE new == [req[r] EXCEPT !.pc = pc, !.from = from]
    <2>1. req'[r] = new
        BY <1>1, <1>4 DEF Settle
    <2>2. req[r] \in RequestType
        BY <1>1
    <2> QED BY <1>2, <1>4, <2>1, <2>2 DEF RequestType
<1> QED BY <1>3, <1>4

\* What the answer at the head of down[s] does to the entry it finds.
Taken(s, e) ==
    LET m == Head(down[s])
        c == owner[s]
        forget == pending' = [pending EXCEPT ![c] = {x \in @ : x.id # m.id}]
    IN  /\ e.id = m.id /\ e.for \in Requests
        /\ \/ /\ m.what = "chunk"
              /\ text' = [chunks |-> Append(text.chunks, m.chunk), loaded |-> FALSE]
              /\ UNCHANGED <<pending, req>>
           \/ /\ m.what = "complete" /\ forget
              /\ Settle(e.for, "ok", m.for)
              /\ text' = [text EXCEPT !.loaded = @ \/ (e.for \in Opens /\ req[e.for].pc = "pending")]
           \/ /\ m.what = "error" /\ forget
              /\ Settle(e.for, Rejected(e.for), m.for)
              /\ UNCHANGED text

LEMMA Received ==
    ASSUME Types, Sockets, NEW s \in Requests, Receive(s)
    PROVE  /\ owner[s] \in Requests /\ down[s] \in Seq(Answers) /\ down[s] # <<>>
           /\ Head(down[s]) \in Answers /\ Head(down[s]) = down[s][1]
           /\ down' = [down EXCEPT ![s] = Tail(@)] /\ phase[s] = "open"
           /\ UNCHANGED <<registered, current, promise, nextId, phase, owner, up, task, faults, raced>>
           /\ \/ UNCHANGED <<pending, req, text>> /\ \A e \in pending[owner[s]] : e.id # Head(down[s]).id
              \/ \E e \in pending[owner[s]] : Taken(s, e)
<1> DEFINE m == Head(down[s])
           c == owner[s]
           entry == {e \in pending[c] : e.id = m.id}
           e == CHOOSE x \in entry : TRUE
           r == e.for
<1>1. c \in Requests /\ m \in Answers /\ m = down[s][1] /\ down[s] \in Seq(Answers) /\ down[s] # <<>>
    <2>1. phase[s] # "none" /\ down[s] # <<>> /\ down[s] \in Seq(Answers)
        BY DEF Receive, Types
    <2> QED BY <2>1, Owner
<1>2. /\ down' = [down EXCEPT ![s] = Tail(@)] /\ phase[s] = "open"
      /\ UNCHANGED <<registered, current, promise, nextId, phase, owner, up, task, faults, raced>>
    BY DEF Receive
<1>3. CASE entry = {}
    <2>1. UNCHANGED <<pending, req, text>>
        BY <1>3 DEF Receive
    <2>2. \A x \in pending[c] : x.id # m.id
        BY <1>3
    <2> HIDE DEF e, r, entry
    <2> QED BY <1>1, <1>2, <2>1, <2>2
<1>4. CASE entry # {}
    <2>1. e \in entry
        BY <1>4
    <2>2. e \in pending[c] /\ e.id = m.id
        BY <2>1
    <2>3. r \in Requests
        BY <1>1, <2>2 DEF Types, Commands
    <2>4. [pending EXCEPT ![c] = @ \ entry] = [pending EXCEPT ![c] = {x \in @ : x.id # m.id}]
        <3>1. pending[c] \ entry = {x \in pending[c] : x.id # m.id}
            OBVIOUS
        <3> HIDE DEF entry, m, c
        <3> QED BY <3>1
    <2>5. m.what \in {"chunk", "complete", "error"}
        BY <1>1 DEF Answers
    <2> HIDE DEF m, c, entry, e, r
    <2>6. \/ /\ m.what = "chunk"
             /\ text' = [chunks |-> Append(text.chunks, m.chunk), loaded |-> FALSE]
             /\ UNCHANGED <<pending, req>>
          \/ /\ m.what = "complete" /\ pending' = [pending EXCEPT ![c] = @ \ entry]
             /\ Settle(r, "ok", m.for)
             /\ text' = [text EXCEPT !.loaded = @ \/ (r \in Opens /\ req[r].pc = "pending")]
          \/ /\ m.what = "error" /\ pending' = [pending EXCEPT ![c] = @ \ entry]
             /\ Settle(r, Rejected(r), m.for)
             /\ UNCHANGED text
        BY <1>4, <2>5 DEF Receive, m, c, entry, e, r
    <2>7. Taken(s, e)
        BY <2>2, <2>3, <2>4, <2>6 DEF Taken, m, c, r
    <2> QED BY <1>1, <1>2, <2>2, <2>7 DEF c, m
<1> QED BY <1>3, <1>4

LEMMA SocketSockets ==
    ASSUME Types, Types', Sockets, NEW s \in Requests,
           SocketOpens(s) \/ SocketFails(s) \/ SocketCloses(s) \/ SocketClosed(s)
    PROVE  Sockets'
<1>1. phase[s] # "none" /\ owner[s] \in Requests
    BY Owner DEF SocketOpens, SocketFails, SocketCloses, SocketClosed
<1>2. CASE SocketOpens(s)
    <2> DEFINE c == owner[s]
               state == IF current[c] = None THEN "none" ELSE phase'[current[c]]
    <2>1. Waiters(s) \in SUBSET Requests /\ SendAll(c, Waiters(s), current[c], state)
        BY <1>2 DEF Waiters, SocketOpens
    <2>2. PICK id : SendsAs(c, Waiters(s), current[c], state, id)
        <3> HIDE DEF state
        <3> QED BY <1>1, <2>1, Sent
    <2>3. \A r \in Requests : req'[r].pc = "unused" => req[r].pc = "unused"
        <3> HIDE DEF state, c
        <3> QED BY <2>1, <2>2, SentFields
    <2>4. /\ phase' = [phase EXCEPT ![s] = "open"] /\ promise' = [promise EXCEPT ![c] = None]
          /\ UNCHANGED <<current, owner, down, task>>
        BY <1>2 DEF SocketOpens
    <2>5. \A t \in Requests : phase'[t] = IF t = s THEN "open" ELSE phase[t]
        BY <2>4 DEF Types
    <2>6. \A t \in Requests : phase'[t] = "none" => up'[t] = up[t]
        <3>1. CASE state = "open"
            <4>1. PICK q \in Seq(Commands) : up' = [up EXCEPT ![current[c]] = @ \o q]
                BY <2>2, <3>1 DEF SendsAs
            <4>2. phase'[current[c]] = "open"
                BY <3>1
            <4> QED BY <4>1, <4>2 DEF Types
        <3>2. CASE state # "open"
            BY <2>2, <3>2 DEF SendsAs
        <3> QED BY <3>1, <3>2
    <2>7. \A d \in Requests : promise'[d] # None => promise'[d] = promise[d]
        BY <2>4 DEF Types
    <2> HIDE DEF c, state
    <2>8. UNCHANGED <<current, owner, down, task>>
        BY <2>4
    <2> QED BY <1>1, <2>3, <2>5, <2>6, <2>7, <2>8 DEF Sockets
<1>3. ASSUME NEW waiters, HandleClose(s, waiters) PROVE Sockets'
    <2> DEFINE c == owner[s]
    <2>1. \A r \in Requests : req'[r].pc = "unused" => req[r].pc = "unused"
        <3> DEFINE rs == waiters \cup {r \in Requests :
                        req[r].pc = "pending" /\ \E e \in RejectPending(c) : e.for = r}
        <3>1. req' = Reject(rs)
            BY <1>3 DEF HandleClose
        <3>2. \A r \in Requests : Rejected(r) # "unused"
            BY DEF Rejected
        <3> HIDE DEF rs
        <3> QED BY <3>1, <3>2, RejectedFields
    <2>2. \A t \in Requests : phase'[t] = IF t = s THEN "closed" ELSE phase[t]
        BY <1>3 DEF HandleClose, Types
    <2>3. \A d \in Requests : /\ promise'[d] # None => promise'[d] = promise[d]
                              /\ current'[d] # None => current'[d] = current[d]
        BY <1>3 DEF HandleClose, ClearSocket, Types
    <2>4. UNCHANGED <<owner, up, task>> /\ \A t \in Requests : t # s => down'[t] = down[t]
        BY <1>3 DEF HandleClose, Types
    <2> QED BY <1>1, <2>1, <2>2, <2>3, <2>4 DEF Sockets
<1>4. CASE SocketCloses(s)
    <2>1. \A t \in Requests : phase'[t] = IF t = s THEN "closing" ELSE phase[t]
        BY <1>4 DEF SocketCloses, Types
    <2>2. UNCHANGED <<current, promise, owner, up, down, req, task>>
        BY <1>4 DEF SocketCloses, clientVars
    <2> QED BY <1>1, <2>1, <2>2 DEF Sockets
<1> QED BY <1>2, <1>3, <1>4 DEF SocketFails, SocketClosed

LEMMA RestSockets ==
    ASSUME Types, Types', Sockets, NEW s \in Requests,
           \/ Receive(s) \/ Accept(s) \/ Respond(s) \/ Fetched(s)
           \/ \E e \in pending[s] : TimesOut(s, e)
    PROVE  Sockets'
<1>1. UNCHANGED <<phase, owner, current, promise>>
    BY DEF Receive, Accept, Respond, Fetched, TimesOut, clientVars, wireVars
<1>2. \A r \in Requests : req'[r].pc = "unused" => req[r].pc = "unused"
    <2>1. CASE UNCHANGED req
        BY <2>1
    <2>2. CASE \E r, pc, from : r \in Requests /\ pc # "unused" /\ Settle(r, pc, from)
        <3>1. PICK r, pc, from : r \in Requests /\ pc # "unused" /\ Settle(r, pc, from)
            BY <2>2
        <3>2. "unused" \notin Waiting
            BY DEF Waiting
        <3> QED BY <3>1, <3>2, SettledFields
    <2>3. CASE Fetched(s)
        BY <2>3 DEF Fetched, Types
    <2>4. CASE Receive(s)
        <3>1. CASE \E e \in pending[owner[s]] : Taken(s, e)
            <4>1. PICK e \in pending[owner[s]] : Taken(s, e)
                BY <3>1
            <4>2. CASE UNCHANGED req
                BY <4>2
            <4>3. CASE \E pc \in {"ok", Rejected(e.for)} : Settle(e.for, pc, Head(down[s]).for)
                BY <2>2, <4>1, <4>3 DEF Taken, Rejected
            <4> QED BY <4>1, <4>2, <4>3 DEF Taken
        <3>2. CASE UNCHANGED <<pending, req, text>>
            BY <3>2
        <3> QED BY <2>4, <3>1, <3>2, Received
    <2>5. CASE \E e \in pending[s] : TimesOut(s, e)
        <3>1. PICK e \in pending[s] : TimesOut(s, e)
            BY <2>5
        <3>2. e.for \in Requests /\ Settle(e.for, Rejected(e.for), None) /\ Rejected(e.for) # "unused"
            BY <3>1 DEF Types, Commands, TimesOut, Rejected
        <3> QED BY <2>2, <3>2
    <2> QED BY <2>1, <2>3, <2>4, <2>5 DEF Accept, Respond
<1>3. \A t \in Requests : phase[t] = "none" => up'[t] = up[t] /\ down'[t] = down[t]
    <2>1. CASE UNCHANGED <<up, down>>
        BY <2>1
    <2>2. CASE Receive(s)
        BY <2>2 DEF Receive, Types
    <2>3. CASE Accept(s)
        BY <2>3 DEF Accept, Types
    <2>4. CASE Respond(s)
        <3>1. /\ up' = up
              /\ \/ down' = down
                 \/ /\ phase[task[s].on] = "open"
                    /\ \E answers : down' = [down EXCEPT ![task[s].on] = @ \o answers]
            BY <2>4 DEF Respond
        <3> QED BY <3>1 DEF Types
    <2> QED BY <2>1, <2>2, <2>3, <2>4 DEF Fetched, TimesOut, wireVars
<1>4. \A r \in Requests : task'[r].pc # "none" => task'[r].on \in Requests /\ phase[task'[r].on] # "none"
    <2>1. CASE UNCHANGED task
        BY <2>1 DEF Sockets
    <2>2. CASE Accept(s)
        <3> DEFINE m == Head(up[s])
        <3>1. task' = [task EXCEPT ![m.for] = [pc |-> "running", on |-> s, id |-> m.id]] /\ phase[s] = "open"
            BY <2>2 DEF Accept
        <3> HIDE DEF m
        <3> QED BY <3>1 DEF Sockets, Types
    <2>3. CASE Respond(s)
        <3>1. task[s].pc = "running" /\ task' = [task EXCEPT ![s].pc = "over"]
            BY <2>3 DEF Respond
        <3>2. \A r \in Requests : task'[r].on = task[r].on /\ (r # s => task'[r] = task[r])
            BY <3>1 DEF Types
        <3> QED BY <3>1, <3>2 DEF Sockets
    <2> QED BY <2>1, <2>2, <2>3 DEF Receive, Fetched, TimesOut
<1> QED BY <1>1, <1>2, <1>3, <1>4 DEF Sockets

LEMMA StepSockets == ASSUME Types, Sockets, [Next]_vars PROVE Sockets'
<1>1. Types'
    BY StepTypes
<1>2. CASE Next
    <2>1. \/ \E r \in Requests : AskNow(r) \/ AskAndConnect(r)
          \/ \E s \in Requests : SocketOpens(s) \/ SocketFails(s) \/ SocketCloses(s) \/ SocketClosed(s)
          \/ \E s \in Requests : \/ Receive(s) \/ Accept(s) \/ Respond(s) \/ Fetched(s)
                                 \/ \E e \in pending[s] : TimesOut(s, e)
        BY <1>2, Steps
    <2> QED BY <1>1, <2>1, AskSockets, SocketSockets, RestSockets
<1>3. CASE UNCHANGED vars
    BY <1>3 DEF vars, clientVars, wireVars, Sockets
<1> QED BY <1>2, <1>3

LEMMA Start == ASSUME Init PROVE Types /\ Sockets
<1>1. None \in Clients /\ {} \in SUBSET Commands /\ <<>> \in Seq(Commands) /\ <<>> \in Seq(Answers)
      /\ <<>> \in Seq(Nat)
    BY DEF Clients
<1>2. Types
    BY <1>1 DEF Init, Types, Phases, Stages, None
<1>3. Sockets
    BY DEF Init, Sockets
<1> QED BY <1>2, <1>3

-----------------------------------------------------------------------------
(* Ids                                                                     *)

\* A step that sends nothing moves ids and makes none.
LEMMA NoNewIds ==
    ASSUME Types, Types', Ids, \A d \in Requests : nextId[d] <= nextId'[d],
           \A c, r \in Requests, i \in Nat : Issued(c, i, r)' => Issued(c, i, r)
    PROVE  Ids'
<1>1. \A d \in Requests : nextId[d] \in Nat /\ nextId'[d] \in Nat
    BY DEF Types
<1>2. SUFFICES ASSUME NEW c \in Requests, NEW r \in Requests, NEW i \in Nat, Issued(c, i, r)'
               PROVE  i < nextId'[c] /\ \A q \in Requests : Issued(c, i, q)' => q = r
    BY DEF Ids
<1>3. Issued(c, i, r)
    BY <1>2
<1>4. i < nextId[c] /\ \A q \in Requests : Issued(c, i, q) => q = r
    BY <1>3 DEF Ids
<1> QED BY <1>1, <1>4

\* The ids there are after a step that sends nothing.
OldIds ==
    UNCHANGED nextId /\ \A c, r \in Requests, i \in Nat : Issued(c, i, r)' => Issued(c, i, r)

\* A step that sends: requests that had no command get one.
Sends(c, rs, s, state) ==
    /\ SendAll(c, rs, s, state) /\ (state = "open" => s \in Requests /\ owner[s] = c)
    /\ UNCHANGED <<owner, down, task>> /\ \A r \in rs : ~Made(r)

SendStep == \E c \in Requests, rs \in SUBSET Requests, s \in Clients, state \in Phases : Sends(c, rs, s, state)

LEMMA SentIds ==
    ASSUME Types, Types', NEW c \in Requests, NEW rs \in SUBSET Requests, NEW s \in Clients, NEW state,
           Sends(c, rs, s, state), NEW id, SendsAs(c, rs, s, state, id)
    PROVE  \A d, r \in Requests, i \in Nat :
               Issued(d, i, r)' => Issued(d, i, r) \/ (d = c /\ r \in rs /\ i = id[r])
<1>1. /\ SendsAs(c, rs, s, state, id) /\ (state = "open" => s \in Requests /\ owner[s] = c)
      /\ UNCHANGED <<owner, down, task>>
    BY DEF Sends
<1>2. ASSUME NEW d \in Requests, NEW r \in Requests, NEW i \in Nat, Issued(d, i, r)'
      PROVE  Issued(d, i, r) \/ (d = c /\ r \in rs /\ i = id[r])
    <2>1. CASE Command(i, r) \in pending'[d]
        <3>1. CASE d # c
            BY <1>1, <2>1, <3>1 DEF SendsAs, Issued
        <3>2. CASE d = c
            <4>1. Command(i, r) \in pending[c] \/ \E q \in rs : Command(i, r) = Command(id[q], q)
                BY <1>1, <2>1, <3>2 DEF SendsAs
            <4>2. \A q \in rs : Command(i, r) = Command(id[q], q) => i = id[q] /\ r = q
                BY DEF Command
            <4> QED BY <3>2, <4>1, <4>2 DEF Issued
        <3> QED BY <3>1, <3>2
    <2>2. CASE \E t \in Requests : \E k \in DOMAIN up'[t] : owner'[t] = d /\ up'[t][k] = Command(i, r)
        <3>0. PICK t \in Requests : \E k \in DOMAIN up'[t] : owner'[t] = d /\ up'[t][k] = Command(i, r)
            BY <2>2
        <3>1. PICK k \in DOMAIN up'[t] : owner'[t] = d /\ up'[t][k] = Command(i, r)
            BY <3>0
        <3>2. CASE up'[t] = up[t]
            BY <1>1, <3>1, <3>2 DEF Issued
        <3>3. CASE up'[t] # up[t]
            <4>1. state = "open"
                BY <1>1, <3>3 DEF SendsAs
            <4>2. PICK q \in Seq(Commands) :
                      /\ up' = [up EXCEPT ![s] = @ \o q]
                      /\ \A l \in DOMAIN q : \E x \in rs : q[l] = Command(id[x], x)
                BY <1>1, <4>1 DEF SendsAs
            <4>3. t = s /\ up'[s] = up[s] \o q /\ up[s] \in Seq(Commands)
                BY <3>3, <4>1, <4>2 DEF Types
            <4>4. CASE k \in DOMAIN up[s]
                <5>1. up'[s][k] = up[s][k]
                    BY <4>3, <4>4
                <5> QED BY <1>1, <3>1, <4>3, <4>4, <5>1 DEF Issued
            <4>5. CASE k \notin DOMAIN up[s]
                <5>1. \E l \in DOMAIN q : up'[s][k] = q[l]
                    <6>1. k - Len(up[s]) \in DOMAIN q /\ up'[s][k] = q[k - Len(up[s])]
                        BY <3>1, <4>3, <4>5
                    <6> QED BY <6>1
                <5>2. PICK x \in rs : Command(i, r) = Command(id[x], x)
                    BY <3>1, <4>2, <4>3, <5>1
                <5> QED BY <1>1, <3>1, <4>1, <4>3, <5>2 DEF Command
            <4> QED BY <4>4, <4>5
        <3> QED BY <3>2, <3>3
    <2>3. CASE \/ task'[r].pc # "none" /\ owner'[task'[r].on] = d /\ task'[r].id = i
               \/ \E t \in Requests : \E k \in DOMAIN down'[t] :
                     owner'[t] = d /\ down'[t][k].id = i /\ down'[t][k].for = r
        BY <1>1, <2>3 DEF Issued
    <2> QED BY <1>2, <2>1, <2>2, <2>3 DEF Issued
<1> QED BY <1>2

LEMMA NewIds ==
    ASSUME Types, Types', Ids, NEW c \in Requests, NEW rs \in SUBSET Requests, NEW s \in Clients,
           NEW state, Sends(c, rs, s, state)
    PROVE  Ids'
<1>0. SendAll(c, rs, s, state)
    BY DEF Sends
<1>1. PICK id : SendsAs(c, rs, s, state, id)
    BY <1>0, Sent
<1>2. \A d, r \in Requests, i \in Nat :
          Issued(d, i, r)' => Issued(d, i, r) \/ (d = c /\ r \in rs /\ i = id[r])
    BY <1>1, SentIds
<1>3. SUFFICES ASSUME NEW d \in Requests, NEW r \in Requests, NEW i \in Nat, Issued(d, i, r)'
               PROVE  i < nextId'[d] /\ \A q \in Requests : Issued(d, i, q)' => q = r
    BY DEF Ids
<1>4. \A x \in rs : id[x] \in Nat /\ nextId[c] <= id[x] /\ id[x] < nextId'[c]
    BY <1>1 DEF SendsAs
<1>5. \A q, x \in rs : id[q] = id[x] => q = x
    BY <1>1 DEF SendsAs
<1>6. \A x \in Requests : Issued(d, i, x) => i < nextId[d] /\ \A q \in Requests : Issued(d, i, q) => q = x
    BY DEF Ids
<1>7. nextId[d] \in Nat /\ nextId'[d] \in Nat /\ nextId[d] <= nextId'[d] /\ nextId[c] \in Nat
    <2>1. nextId[d] \in Nat /\ nextId'[d] \in Nat /\ nextId[c] \in Nat
        BY DEF Types
    <2>2. nextId[c] <= nextId'[c] /\ (d # c => nextId'[d] = nextId[d])
        BY <1>1 DEF SendsAs
    <2> QED BY <2>1, <2>2
<1>8. ASSUME NEW q \in Requests, Issued(d, i, q)' PROVE q = r
    <2>1. Issued(d, i, q) \/ (d = c /\ q \in rs /\ i = id[q])
        BY <1>2, <1>8
    <2>2. Issued(d, i, r) \/ (d = c /\ r \in rs /\ i = id[r])
        BY <1>2, <1>3
    <2>3. ~ (\E x \in Requests : Issued(d, i, x) /\ d = c /\ \E y \in rs : i = id[y])
        <3>1. SUFFICES ASSUME NEW x \in Requests, NEW y \in rs, Issued(d, i, x), d = c, i = id[y]
                       PROVE  FALSE
            OBVIOUS
        <3>2. i < nextId[c] /\ nextId[c] <= i /\ i \in Nat
            BY <1>4, <1>6, <3>1
        <3> QED BY <1>7, <3>2
    <2>4. CASE Issued(d, i, q) /\ Issued(d, i, r)
        BY <1>6, <2>4
    <2>5. CASE q \in rs /\ i = id[q] /\ r \in rs /\ i = id[r]
        BY <1>5, <2>5
    <2> QED BY <2>1, <2>2, <2>3, <2>4, <2>5
<1>9. Issued(d, i, r) \/ (d = c /\ r \in rs /\ i = id[r])
    BY <1>2, <1>3
<1> QED BY <1>4, <1>6, <1>7, <1>8, <1>9

\* The task of a request is over; its socket and its id stay.
TaskOver(r) ==
    /\ task[r].pc = "running" /\ task'[r].pc = "over"
    /\ \A q \in Requests : /\ task'[q].on = task[q].on /\ task'[q].id = task[q].id
                           /\ q # r => task'[q] = task[q]

\* What a response comes to: answers for the command alone, after those of its socket.
Responds(r, answers) ==
    LET t == task[r] IN
    /\ TaskOver(r) /\ t.on \in Requests
    /\ \A s \in Requests :
          down'[s] = IF s = t.on /\ phase[s] = "open" THEN down[s] \o answers ELSE down[s]
    /\ \A k \in DOMAIN answers : answers[k].id = t.id /\ answers[k].for = r
    /\ \/ /\ Len(answers) = 1 /\ answers[1].what = "error"
       \/ /\ r \notin Opens /\ Len(answers) = 1 /\ answers[1].what = "complete"
       \/ /\ r \in Opens /\ Len(answers) = Chunks + 1 /\ answers[Chunks + 1].what = "complete"
          /\ \A k \in 1..Chunks : answers[k].what = "chunk" /\ answers[k].chunk = k
    /\ \A s \in Requests : \A k \in DOMAIN down'[s] :
          \/ k \in DOMAIN down[s] /\ down'[s][k] = down[s][k]
          \/ s = t.on /\ k > Len(down[s]) /\ \E l \in DOMAIN answers :
                              k = Len(down[s]) + l /\ down'[s][k] = answers[l]

LEMMA Responded ==
    ASSUME Types, Types', Sockets, NEW r \in Requests, Respond(r)
    PROVE  \E answers \in Seq(Answers) : Responds(r, answers)
<1> DEFINE t == task[r]
           m == Command(t.id, r)
           chunk(i) == Answer(m, "chunk", i)
           file == [i \in 1..Chunks |-> chunk(i)]
           chunks == IF r \in Opens THEN file ELSE <<>>
           complete == Answer(m, "complete", 0)
           error == Answer(m, "error", 0)
<1>1. t.pc = "running" /\ t.on \in Requests /\ t.id \in Nat
    BY DEF Respond, Types, Sockets
<1>2. /\ \A i \in Nat : chunk(i) \in Answers /\ chunk(i).id = t.id /\ chunk(i).for = r
                         /\ chunk(i).what = "chunk" /\ chunk(i).chunk = i
      /\ complete \in Answers /\ complete.id = t.id /\ complete.for = r /\ complete.what = "complete"
      /\ error \in Answers /\ error.id = t.id /\ error.for = r /\ error.what = "error"
    BY <1>1 DEF Answer, Answers, Command
<1>3. PICK answers \in {Append(chunks, complete), <<error>>} :
          down' = IF phase[t.on] # "open" THEN down ELSE [down EXCEPT ![t.on] = @ \o answers]
    BY DEF Respond
<1>4. TaskOver(r)
    <2>1. task' = [task EXCEPT ![r].pc = "over"]
        BY DEF Respond
    <2>2. task \in [Requests -> [pc : {"none", "running", "over"}, on : Clients, id : Nat]]
        BY DEF Types
    <2>3. task'[r] = [task[r] EXCEPT !.pc = "over"] /\ \A q \in Requests : q # r => task'[q] = task[q]
        BY <2>1, <2>2
    <2>4. task'[r].pc = "over" /\ task'[r].on = task[r].on /\ task'[r].id = task[r].id
        BY <2>2, <2>3
    <2> HIDE DEF m, chunks, complete, error, file, chunk
    <2> QED BY <1>1, <2>3, <2>4 DEF TaskOver
<1>5. /\ answers \in Seq(Answers)
      /\ \A k \in DOMAIN answers : answers[k].id = t.id /\ answers[k].for = r
      /\ \/ /\ Len(answers) = 1 /\ answers[1].what = "error"
         \/ /\ r \notin Opens /\ Len(answers) = 1 /\ answers[1].what = "complete"
         \/ /\ r \in Opens /\ Len(answers) = Chunks + 1 /\ answers[Chunks + 1].what = "complete"
            /\ \A k \in 1..Chunks : answers[k].what = "chunk" /\ answers[k].chunk = k
    <2> HIDE DEF t, complete, error, chunk
    <2>1. CASE answers = <<error>>
        BY <1>2, <2>1
    <2>2. CASE answers = Append(chunks, complete) /\ r \notin Opens
        <3>1. answers = <<complete>>
            BY <2>2
        <3> QED BY <1>2, <2>2, <3>1
    <2>3. CASE answers = Append(chunks, complete) /\ r \in Opens
        <3>1. \A i \in 1..Chunks : i \in Nat /\ file[i] = chunk(i)
            BY CommandAssumption
        <3>2. file \in Seq(Answers) /\ Len(file) = Chunks
            <4>1. file \in [1..Chunks -> Answers]
                BY <1>2, <3>1
            <4> HIDE DEF file
            <4> QED BY <4>1, CommandAssumption, SeqDef
        <3>3. answers = Append(file, complete)
            BY <2>3
        <3> HIDE DEF file
        <3>4. /\ answers \in Seq(Answers) /\ Len(answers) = Chunks + 1 /\ answers[Chunks + 1] = complete
              /\ \A k \in 1..Chunks : answers[k] = file[k]
              /\ \A k \in DOMAIN answers : k \in 1..Chunks \/ k = Chunks + 1
            BY <1>2, <3>2, <3>3, CommandAssumption
        <3>5. \A k \in 1..Chunks : /\ answers[k].id = t.id /\ answers[k].for = r
                                  /\ answers[k].what = "chunk" /\ answers[k].chunk = k
            <4>1. ASSUME NEW k \in 1..Chunks PROVE k \in Nat /\ answers[k] = chunk(k)
                BY <3>1, <3>4
            <4> QED BY <1>2, <4>1
        <3>6. \A k \in DOMAIN answers : answers[k].id = t.id /\ answers[k].for = r
            BY <1>2, <3>4, <3>5
        <3> QED BY <1>2, <2>3, <3>4, <3>5, <3>6
    <2> QED BY <1>3, <2>1, <2>2, <2>3
<1>6. \A s \in Requests :
          down'[s] = IF s = t.on /\ phase[s] = "open" THEN down[s] \o answers ELSE down[s]
    BY <1>1, <1>3 DEF Types
<1>7. ASSUME NEW s \in Requests, NEW k \in DOMAIN down'[s]
      PROVE  \/ k \in DOMAIN down[s] /\ down'[s][k] = down[s][k]
             \/ s = t.on /\ k > Len(down[s]) /\ \E l \in DOMAIN answers :
                                 k = Len(down[s]) + l /\ down'[s][k] = answers[l]
    <2>1. down[s] \in Seq(Answers)
        BY DEF Types
    <2> HIDE DEF t
    <2>2. CASE s = t.on /\ phase[s] = "open" /\ k \notin DOMAIN down[s]
        <3>1. down'[s] = down[s] \o answers
            BY <1>6, <2>2
        <3>2. /\ k > Len(down[s]) /\ k - Len(down[s]) \in DOMAIN answers
              /\ down'[s][k] = answers[k - Len(down[s])] /\ k = Len(down[s]) + (k - Len(down[s]))
            BY <1>5, <2>1, <2>2, <3>1
        <3> QED BY <2>2, <3>2
    <2>3. CASE s = t.on /\ phase[s] = "open" /\ k \in DOMAIN down[s]
        <3>1. down'[s] = down[s] \o answers
            BY <1>6, <2>3
        <3> QED BY <1>5, <2>1, <2>3, <3>1
    <2>4. CASE ~ (s = t.on /\ phase[s] = "open")
        BY <1>6, <2>4
    <2> QED BY <2>2, <2>3, <2>4
<1> HIDE DEF m, chunks, complete, error, file, chunk
<1>8. Responds(r, answers)
    BY <1>1, <1>4, <1>5, <1>6, <1>7 DEF Responds
<1> QED BY <1>5, <1>8

LEMMA AskNowSends ==
    ASSUME Types, Sockets, NEW r \in Requests, AskNow(r)
    PROVE  SendStep
<1> DEFINE c == ClientFor(r)
<1>1. c \in Requests /\ ~Made(r)
    BY ClientForTypes DEF AskNow, NextRequest, Made
<1>2. /\ SendAll(c, {r}, current[c], "open") /\ current[c] # None
      /\ UNCHANGED <<owner, down, task>>
    BY DEF AskNow
<1>3. current[c] \in Requests /\ owner[current[c]] = c
    BY <1>1, <1>2 DEF Types, Clients, Sockets
<1> HIDE DEF c
<1>4. current[c] \in Clients /\ {r} \in SUBSET Requests /\ "open" \in Phases
    BY <1>3 DEF Clients, Phases
<1>5. Sends(c, {r}, current[c], "open")
    BY <1>1, <1>2, <1>3 DEF Sends
<1> QED BY <1>1, <1>4, <1>5 DEF SendStep

LEMMA OpenSends ==
    ASSUME Types, Types', Sockets, NEW s \in Requests, SocketOpens(s)
    PROVE  SendStep
<1> DEFINE c == owner[s]
           state == IF current[c] = None THEN "none" ELSE phase'[current[c]]
<1>1. /\ Waiters(s) \in SUBSET Requests /\ SendAll(c, Waiters(s), current[c], state)
      /\ UNCHANGED <<owner, down, task>> /\ phase[s] = "connecting"
    BY DEF Waiters, SocketOpens
<1>2. c \in Requests
    BY <1>1, Owner
<1>3. current[c] \in Clients /\ (current[c] # None => current[c] \in Requests /\ owner[current[c]] = c)
    BY <1>2 DEF Types, Clients, Sockets
<1>4. state = "open" => current[c] \in Requests /\ owner[current[c]] = c
    BY <1>3
<1>5. state \in Phases
    BY <1>3 DEF Types, Phases
<1>6. \A r \in Waiters(s) : ~Made(r)
    BY DEF Waiters, Made
<1> HIDE DEF c, state
<1>7. Sends(c, Waiters(s), current[c], state)
    BY <1>1, <1>4, <1>6 DEF Sends
<1> QED BY <1>1, <1>2, <1>3, <1>5, <1>7 DEF SendStep

\* A connection in the making: nothing of the new socket is anybody's yet.
LEMMA AskIds ==
    ASSUME Types, Types', Sockets, NEW r \in Requests, AskNow(r) \/ AskAndConnect(r)
    PROVE  OldIds \/ SendStep
<1> DEFINE c == ClientFor(r)
<1>1. CASE AskNow(r)
    BY <1>1, AskNowSends
<1>2. CASE AskAndConnect(r)
    <2>1. /\ UNCHANGED <<nextId, pending, up, down, task>>
          /\ owner' = owner \/ owner' = [owner EXCEPT ![r] = c]
          /\ phase[r] = "none"
        BY <1>2 DEF AskAndConnect, NextRequest, Sockets
    <2>2. \A s \in Requests : s # r => owner'[s] = owner[s]
        BY <2>1 DEF Types
    <2>3. up[r] = <<>> /\ down[r] = <<>> /\ \A q \in Requests : task[q].pc # "none" => task[q].on \in Requests \ {r}
        BY <2>1 DEF Sockets
    <2>4. ASSUME NEW d \in Requests, NEW q \in Requests, NEW i \in Nat, Issued(d, i, q)'
          PROVE  Issued(d, i, q)
        <3>1. UNCHANGED <<pending, up, down, task>>
            BY <2>1
        <3> HIDE DEF c
        <3> QED BY <2>2, <2>3, <2>4, <3>1 DEF Issued
    <2> QED BY <2>1, <2>4 DEF OldIds
<1> QED BY <1>1, <1>2

LEMMA SocketIds ==
    ASSUME Types, Types', Sockets, NEW s \in Requests,
           SocketOpens(s) \/ SocketFails(s) \/ SocketCloses(s) \/ SocketClosed(s)
    PROVE  OldIds \/ SendStep
<1>1. CASE SocketOpens(s)
    BY <1>1, OpenSends
<1>2. ASSUME NEW waiters, HandleClose(s, waiters) PROVE OldIds
    <2>1. /\ pending' = [pending EXCEPT ![owner[s]] = {}] /\ down' = [down EXCEPT ![s] = <<>>]
          /\ UNCHANGED <<nextId, owner, up, task>>
        BY <1>2 DEF HandleClose
    <2>2. /\ \A d \in Requests : pending'[d] \subseteq pending[d]
          /\ \A t \in Requests : down'[t] = down[t] \/ down'[t] = <<>>
        BY <2>1 DEF Types
    <2>3. ASSUME NEW d \in Requests, NEW q \in Requests, NEW i \in Nat, Issued(d, i, q)'
          PROVE  Issued(d, i, q)
        <3>1. UNCHANGED <<owner, up, task>>
            BY <2>1
        <3> QED BY <2>2, <2>3, <3>1 DEF Issued
    <2> QED BY <2>1, <2>3 DEF OldIds
<1>3. CASE SocketCloses(s)
    <2>1. UNCHANGED <<nextId, pending, owner, up, down, task>>
        BY <1>3 DEF SocketCloses, clientVars
    <2> QED BY <2>1 DEF OldIds, Issued
<1> QED BY <1>1, <1>2, <1>3 DEF SocketFails, SocketClosed

\* The entries that are left when one is forgotten.
LEMMA Forgotten ==
    ASSUME Types, NEW c \in Requests, NEW i, pending' = [pending EXCEPT ![c] = {x \in @ : x.id # i}]
    PROVE  \A d \in Requests : /\ pending'[d] \subseteq pending[d] /\ (d # c => pending'[d] = pending[d])
                               /\ \A x \in pending[d] : x \in pending'[d] \/ (d = c /\ x.id = i)
BY DEF Types

LEMMA RestIds ==
    ASSUME Types, Types', Sockets, NEW s \in Requests,
           \/ Receive(s) \/ Accept(s) \/ Respond(s) \/ Fetched(s)
           \/ \E e \in pending[s] : TimesOut(s, e)
    PROVE  OldIds
<1>1. UNCHANGED <<nextId, owner>>
    BY DEF Receive, Accept, Respond, Fetched, TimesOut, clientVars, wireVars
<1>2. CASE Receive(s)
    <2>1. /\ down' = [down EXCEPT ![s] = Tail(down[s])] /\ UNCHANGED <<up, task>>
          /\ down[s] \in Seq(Answers) /\ down[s] # <<>>
          /\ UNCHANGED pending \/ pending' = [pending EXCEPT ![owner[s]] = {x \in @ : x.id # Head(down[s]).id}]
        BY <1>2, Received DEF Taken
    <2>2. \A d \in Requests : pending'[d] \subseteq pending[d]
        <3>1. owner[s] \in Requests
            BY <1>2, Received
        <3>2. CASE pending' = [pending EXCEPT ![owner[s]] = {x \in @ : x.id # Head(down[s]).id}]
            BY <3>1, <3>2, Forgotten
        <3> QED BY <2>1, <3>2
    <2>3. \A t \in Requests : \A k \in DOMAIN down'[t] : \E l \in DOMAIN down[t] : down'[t][k] = down[t][l]
        <3>1. \A k \in DOMAIN Tail(down[s]) : k + 1 \in DOMAIN down[s] /\ Tail(down[s])[k] = down[s][k + 1]
            BY <2>1
        <3>2. \A t \in Requests : down'[t] = IF t = s THEN Tail(down[s]) ELSE down[t]
            BY <2>1 DEF Types
        <3> QED BY <3>1, <3>2
    <2>4. ASSUME NEW d \in Requests, NEW q \in Requests, NEW i \in Nat, Issued(d, i, q)'
          PROVE  Issued(d, i, q)
        <3>1. UNCHANGED <<owner, up, task>>
            BY <1>1, <2>1
        <3> QED BY <2>2, <2>3, <2>4, <3>1 DEF Issued
    <2> QED BY <1>1, <2>4 DEF OldIds
<1>3. CASE Accept(s)
    <2> DEFINE m == Head(up[s])
    <2>1. /\ task' = [task EXCEPT ![m.for] = [pc |-> "running", on |-> s, id |-> m.id]]
          /\ up' = [up EXCEPT ![s] = Tail(up[s])] /\ UNCHANGED <<pending, down>>
          /\ up[s] \in Seq(Commands) /\ up[s] # <<>>
        BY <1>3 DEF Accept, clientVars, Types
    <2>2. m \in Commands /\ m = up[s][1] /\ 1 \in DOMAIN up[s]
        BY <2>1
    <2> HIDE DEF m
    <2>3. \A t \in Requests : \A k \in DOMAIN up'[t] : \E l \in DOMAIN up[t] : up'[t][k] = up[t][l]
        <3>1. \A k \in DOMAIN Tail(up[s]) : k + 1 \in DOMAIN up[s] /\ Tail(up[s])[k] = up[s][k + 1]
            BY <2>1
        <3>2. \A t \in Requests : up'[t] = IF t = s THEN Tail(up[s]) ELSE up[t]
            BY <2>1 DEF Types
        <3> QED BY <3>1, <3>2
    <2>4. \A q \in Requests : task'[q] = IF q = m.for THEN [pc |-> "running", on |-> s, id |-> m.id] ELSE task[q]
        BY <2>1 DEF Types
    <2>5. ASSUME NEW d \in Requests, NEW q \in Requests, NEW i \in Nat, Issued(d, i, q)'
          PROVE  Issued(d, i, q)
        <3>1. UNCHANGED <<owner, pending, down>>
            BY <1>1, <2>1
        <3>2. CASE task'[q].pc # "none" /\ owner'[task'[q].on] = d /\ task'[q].id = i
            <4>1. CASE q = m.for
                <5>1. owner[s] = d /\ m.id = i
                    BY <2>4, <3>1, <3>2, <4>1
                <5>2. m = Command(i, q)
                    BY <2>2, <4>1, <5>1 DEF Commands, Command
                <5> QED BY <2>2, <5>1, <5>2 DEF Issued
            <4>2. CASE q # m.for
                BY <2>4, <3>1, <3>2, <4>2 DEF Issued
            <4> QED BY <4>1, <4>2
        <3> QED BY <2>3, <2>5, <3>1, <3>2 DEF Issued
    <2> QED BY <1>1, <2>5 DEF OldIds
<1>4. CASE Respond(s)
    <2>1. PICK answers \in Seq(Answers) : Responds(s, answers)
        BY <1>4, Responded
    <2>2. UNCHANGED <<pending, owner, up>> /\ down' \in [Requests -> Seq(Answers)]
        BY <1>1, <1>4 DEF Respond, clientVars, Types
    <2>4. TaskOver(s)
        BY <2>1 DEF Responds
    <2>3. ASSUME NEW d \in Requests, NEW q \in Requests, NEW i \in Nat, Issued(d, i, q)'
          PROVE  Issued(d, i, q)
        <3>1. CASE task'[q].pc # "none" /\ owner'[task'[q].on] = d /\ task'[q].id = i
            <4>1. task'[q].on = task[q].on /\ task'[q].id = task[q].id
                BY <2>4 DEF TaskOver
            <4>2. task[q].pc # "none"
                BY <2>4, <3>1 DEF TaskOver
            <4> QED BY <2>2, <3>1, <4>1, <4>2 DEF Issued
        <3>2. CASE \E t \in Requests : \E k \in DOMAIN down'[t] :
                      owner'[t] = d /\ down'[t][k].id = i /\ down'[t][k].for = q
            <4>1. PICK t \in Requests : \E k \in DOMAIN down'[t] :
                      owner'[t] = d /\ down'[t][k].id = i /\ down'[t][k].for = q
                BY <3>2
            <4>2. PICK k \in DOMAIN down'[t] : owner'[t] = d /\ down'[t][k].id = i /\ down'[t][k].for = q
                BY <4>1
            <4>3. CASE k \in DOMAIN down[t] /\ down'[t][k] = down[t][k]
                BY <2>2, <4>2, <4>3 DEF Issued
            <4>4. CASE t = task[s].on /\ \E l \in DOMAIN answers : down'[t][k] = answers[l]
                <5>1. \A l \in DOMAIN answers : answers[l].id = task[s].id /\ answers[l].for = s
                    BY <2>1 DEF Responds
                <5>2. i = task[s].id /\ q = s /\ owner[task[s].on] = d
                    BY <2>2, <4>2, <4>4, <5>1
                <5> QED BY <2>4, <5>2 DEF Issued, TaskOver
            <4> QED BY <2>1, <4>2, <4>3, <4>4 DEF Responds
        <3> QED BY <2>2, <2>3, <3>1, <3>2 DEF Issued
    <2> QED BY <1>1, <2>3 DEF OldIds
<1>5. CASE Fetched(s)
    BY <1>5 DEF Fetched, clientVars, wireVars, OldIds, Issued
<1>6. CASE \E e \in pending[s] : TimesOut(s, e)
    <2>1. PICK e \in pending[s] : TimesOut(s, e)
        BY <1>6
    <2>2. UNCHANGED <<owner, up, down, task>>
        BY <2>1 DEF TimesOut, wireVars
    <2>3. \A d \in Requests : pending'[d] \subseteq pending[d]
        BY <2>1, Forgotten DEF TimesOut, Forget
    <2>4. ASSUME NEW d \in Requests, NEW q \in Requests, NEW i \in Nat, Issued(d, i, q)'
          PROVE  Issued(d, i, q)
        BY <2>2, <2>3, <2>4 DEF Issued
    <2> QED BY <1>1, <2>4 DEF OldIds
<1> QED BY <1>2, <1>3, <1>4, <1>5, <1>6

LEMMA StepSends == ASSUME Types, Sockets, [Next]_vars PROVE OldIds \/ SendStep
<1>1. Types'
    BY StepTypes
<1>2. CASE Next
    <2>1. \/ \E r \in Requests : AskNow(r) \/ AskAndConnect(r)
          \/ \E s \in Requests : SocketOpens(s) \/ SocketFails(s) \/ SocketCloses(s) \/ SocketClosed(s)
          \/ \E s \in Requests : \/ Receive(s) \/ Accept(s) \/ Respond(s) \/ Fetched(s)
                                 \/ \E e \in pending[s] : TimesOut(s, e)
        BY <1>2, Steps
    <2> QED BY <1>1, <2>1, AskIds, SocketIds, RestIds
<1>3. CASE UNCHANGED vars
    BY <1>3 DEF vars, clientVars, wireVars, OldIds, Issued
<1> QED BY <1>2, <1>3

LEMMA StepIds == ASSUME Types, Sockets, Ids, [Next]_vars PROVE Ids'
<1>1. Types'
    BY StepTypes
<1>2. CASE OldIds
    <2>1. \A d \in Requests : nextId[d] <= nextId'[d]
        BY <1>2 DEF OldIds, Types
    <2> QED BY <1>1, <1>2, <2>1, NoNewIds DEF OldIds
<1>3. CASE SendStep
    BY <1>1, <1>3, NewIds DEF SendStep
<1> QED BY <1>2, <1>3, StepSends

-----------------------------------------------------------------------------
(* Answers                                                                 *)

\* The answer and the entry it finds bear one id, and one id is one request's.
LEMMA OwnEntry ==
    ASSUME Types, Sockets, Ids, NEW s \in Requests, Receive(s), NEW e \in pending[owner[s]], Taken(s, e)
    PROVE  Head(down[s]).for = e.for /\ e = Command(e.id, e.for)
<1> DEFINE m == Head(down[s])
           c == owner[s]
<1>1. c \in Requests /\ m \in Answers /\ m = down[s][1] /\ 1 \in DOMAIN down[s]
    BY Received
<1>2. e.id = m.id /\ e \in Commands
    BY <1>1 DEF Types, Taken
<1>3. e = Command(e.id, e.for) /\ e.for \in Requests /\ m.for \in Requests /\ m.id \in Nat
    BY <1>1, <1>2 DEF Command, Commands, Answers
<1> HIDE DEF m, c
<1>4. Issued(c, m.id, e.for)
    BY <1>1, <1>2, <1>3 DEF Issued, c
<1>5. Issued(c, m.id, m.for)
    BY <1>1, <1>3 DEF Issued, c
<1> QED BY <1>1, <1>3, <1>4, <1>5 DEF Ids, m

LEMMA StepOwn == ASSUME Types, Sockets, Ids, AnswerOwn, [Next]_vars PROVE AnswerOwn'
<1>1. CASE \E r \in Requests : AskNow(r)
    <2>1. PICK r \in Requests : AskNow(r)
        BY <1>1
    <2>2. ClientFor(r) \in Requests /\ SendAll(ClientFor(r), {r}, current[ClientFor(r)], "open")
        BY <2>1, ClientForTypes DEF AskNow
    <2>3. PICK id : SendsAs(ClientFor(r), {r}, current[ClientFor(r)], "open", id)
        BY <2>2, Sent
    <2>4. \A q \in Requests : req'[q].from = req[q].from
        BY <2>3, SentFields
    <2> QED BY <2>4 DEF AnswerOwn
<1>2. CASE \E r \in Requests : AskAndConnect(r)
    <2>1. PICK r \in Requests : AskAndConnect(r)
        BY <1>2
    <2>2. \A q \in Requests : req'[q].from = req[q].from
        <3> DEFINE s == IF ConnectPromise(ClientFor(r)) # None THEN ConnectPromise(ClientFor(r)) ELSE r
        <3>1. req' = [req EXCEPT ![r] = [@ EXCEPT !.pc = "connecting", !.client = ClientFor(r), !.on = s]]
            BY <2>1 DEF AskAndConnect
        <3> HIDE DEF s
        <3>2. req \in [Requests -> RequestType]
            BY DEF Types, RequestType
        <3> QED BY <3>1, <3>2 DEF RequestType
    <2> QED BY <2>2 DEF AnswerOwn
<1>3. CASE \E s \in Requests : SocketOpens(s)
    <2>1. PICK s \in Requests : SocketOpens(s)
        BY <1>3
    <2> DEFINE c == owner[s]
               state == IF current[c] = None THEN "none" ELSE phase'[current[c]]
    <2>2. /\ Waiters(s) \in SUBSET Requests /\ SendAll(c, Waiters(s), current[c], state)
          /\ c \in Requests
        BY <2>1, Owner DEF Waiters, SocketOpens
    <2> HIDE DEF c, state
    <2>3. PICK id : SendsAs(c, Waiters(s), current[c], state, id)
        BY <2>2, Sent
    <2>4. \A q \in Requests : req'[q].from = req[q].from
        BY <2>2, <2>3, SentFields
    <2> QED BY <2>4 DEF AnswerOwn
<1>4. CASE \E s \in Requests : SocketFails(s) \/ SocketClosed(s)
    <2>1. PICK rs : req' = Reject(rs)
        BY <1>4 DEF SocketFails, SocketClosed, HandleClose
    <2>2. \A q \in Requests : req'[q].from = req[q].from
        BY <2>1, RejectedFields
    <2> QED BY <2>2 DEF AnswerOwn
<1>5. CASE \E s \in Requests : Receive(s)
    <2>1. PICK s \in Requests : Receive(s)
        BY <1>5
    <2>2. ASSUME NEW e \in pending[owner[s]], Taken(s, e) PROVE AnswerOwn'
        <3>1. Head(down[s]).for = e.for /\ e.for \in Requests
            BY <2>1, <2>2, OwnEntry DEF Taken
        <3>2. UNCHANGED req \/ \E pc : Settle(e.for, pc, e.for)
            BY <2>2, <3>1 DEF Taken
        <3>3. \A q \in Requests : req'[q].from = req[q].from \/ (q = e.for /\ req'[q].from = q)
            BY <3>1, <3>2, SettledFields
        <3> QED BY <3>3 DEF AnswerOwn
    <2>3. CASE UNCHANGED req
        BY <2>3 DEF AnswerOwn
    <2> QED BY <2>1, <2>2, <2>3, Received
<1>6. CASE \E c \in Requests : \E e \in pending[c] : TimesOut(c, e)
    <2>0. PICK c \in Requests : \E e \in pending[c] : TimesOut(c, e)
        BY <1>6
    <2>1. PICK e \in pending[c] : TimesOut(c, e)
        BY <2>0
    <2>2. e.for \in Requests /\ Settle(e.for, Rejected(e.for), None)
        BY <2>1 DEF Types, Commands, TimesOut
    <2>3. \A q \in Requests : req'[q].from \in {req[q].from, None}
        BY <2>2, SettledFields
    <2> QED BY <2>3 DEF AnswerOwn
<1>7. CASE \E r \in Requests : Fetched(r)
    <2>1. PICK r \in Requests : Fetched(r)
        BY <1>7
    <2>2. req \in [Requests -> RequestType] /\ req' = [req EXCEPT ![r] = [@ EXCEPT !.pc = "failed"]]
        BY <2>1 DEF Types, RequestType, Fetched
    <2>3. \A q \in Requests : req'[q].from = req[q].from
        BY <2>2 DEF RequestType
    <2> QED BY <2>3 DEF AnswerOwn
<1>8. CASE UNCHANGED req
    BY <1>8 DEF AnswerOwn
<1>9. ASSUME NEW s \in Requests, SocketCloses(s) \/ Accept(s) \/ Respond(s) PROVE UNCHANGED req
    BY <1>9 DEF SocketCloses, Accept, Respond
<1> QED BY <1>1, <1>2, <1>3, <1>4, <1>5, <1>6, <1>7, <1>8, <1>9, Steps DEF vars

\* Every variable keeps its type; a socket has its client from the moment it is made, and
\* what a client or a task refers to was made.
THEOREM TypeCorrect == Spec => [](Types /\ Sockets)
<1>1. Init => Types /\ Sockets
    BY Start
<1>2. Types /\ Sockets /\ [Next]_vars => (Types /\ Sockets)'
    BY StepTypes, StepSockets
<1> QED BY <1>1, <1>2, PTL DEF Spec

LEMMA IdsHold == Spec => []Ids
<1>1. Init => Ids
    BY DEF Init, Ids, Issued
<1>2. Types /\ Sockets /\ Ids /\ [Next]_vars => Ids'
    BY StepIds
<1> QED BY <1>1, <1>2, TypeCorrect, PTL DEF Spec

\* The answer a promise settles with is the answer to its own command, whatever timed
\* out, closed or was reconnected before: one id of a client is one request's, in the
\* entries, on the wire and in the gateway's tasks.
THEOREM AnswersAreOwn == Spec => []AnswerOwn
<1>1. Init => AnswerOwn
    BY DEF Init, AnswerOwn
<1>2. Types /\ Sockets /\ Ids /\ AnswerOwn /\ [Next]_vars => AnswerOwn'
    BY StepOwn
<1> QED BY <1>1, <1>2, TypeCorrect, IdsHold, PTL DEF Spec

-----------------------------------------------------------------------------
(* Entries                                                                 *)

\* A send keeps the entries there are: its ids are new.
LEMMA SentEntries ==
    ASSUME Types, Ids, NEW c \in Requests, NEW rs \in SUBSET Requests, NEW s, NEW state, NEW id,
           SendsAs(c, rs, s, state, id)
    PROVE  /\ \A d \in Requests : pending[d] \subseteq pending'[d]
           /\ \A r \in rs : id[r] \in Nat /\ Command(id[r], r) \in pending'[c]
           /\ \A d \in Requests : \A e \in pending'[d] :
                 e \in pending[d] \/ (d = c /\ \E r \in rs : e = Command(id[r], r))
<1>1. \A r \in rs : id[r] \in Nat /\ nextId[c] <= id[r]
    BY DEF SendsAs
<1>2. ASSUME NEW e \in pending[c], NEW r \in rs PROVE id[r] # e.id
    <2>1. e \in Commands /\ e.id \in Nat /\ nextId[c] \in Nat
        BY DEF Types, Commands
    <2>2. Issued(c, e.id, e.for) /\ e.for \in Requests
        BY <2>1 DEF Issued, Command, Commands
    <2>3. e.id < nextId[c]
        BY <2>1, <2>2 DEF Ids
    <2> QED BY <1>1, <2>1, <2>3
<1>3. /\ pending'[c] = {e \in pending[c] : \A r \in rs : id[r] # e.id} \cup {Command(id[r], r) : r \in rs}
      /\ \A d \in Requests : d # c => pending'[d] = pending[d]
    BY DEF SendsAs
<1>4. pending[c] \subseteq pending'[c] /\ \A r \in rs : Command(id[r], r) \in pending'[c]
    BY <1>2, <1>3
<1>5. \A e \in pending'[c] : e \in pending[c] \/ \E r \in rs : e = Command(id[r], r)
    BY <1>3
<1> QED BY <1>1, <1>3, <1>4, <1>5

LEMMA SentKept ==
    ASSUME Types, Ids, Kept, NEW c \in Requests, NEW rs \in SUBSET Requests, NEW s, NEW state,
           SendAll(c, rs, s, state)
    PROVE  Kept'
<1>1. PICK id : SendsAs(c, rs, s, state, id)
    BY Sent
<1>2. ASSUME NEW r \in Requests, req'[r].pc = "pending"
      PROVE  req'[r].client \in Requests /\ \E i \in Nat : Command(i, r) \in pending'[req'[r].client]
    <2>1. CASE r \in rs
        <3>1. req'[r].client = c
            BY <1>1, <2>1, SentFields
        <3>2. id[r] \in Nat /\ Command(id[r], r) \in pending'[c]
            BY <1>1, <2>1, SentEntries
        <3> QED BY <3>1, <3>2
    <2>2. CASE r \notin rs
        <3>1. req'[r] = req[r]
            BY <1>1, <2>2, SentFields
        <3>2. req[r].client \in Requests /\ \E i \in Nat : Command(i, r) \in pending[req[r].client]
            BY <1>2, <3>1 DEF Kept
        <3> QED BY <1>1, <3>1, <3>2, SentEntries
    <2> QED BY <2>1, <2>2
<1> QED BY <1>2 DEF Kept

\* One entry is forgotten, and its request is settled.
LEMMA SettledKept ==
    ASSUME Types, Ids, Kept, NEW c \in Requests, NEW e \in pending[c], NEW pc, pc # "pending", NEW from,
           pending' = [pending EXCEPT ![c] = {x \in @ : x.id # e.id}], Settle(e.for, pc, from)
    PROVE  Kept'
<1>1. e \in Commands /\ e.for \in Requests /\ e.id \in Nat /\ e = Command(e.id, e.for)
    BY DEF Types, Commands, Command
<1>2. req'[e.for].pc # "pending"
    BY <1>1, SettledFields DEF Waiting
<1>3. ASSUME NEW r \in Requests, req'[r].pc = "pending"
      PROVE  req'[r].client \in Requests /\ \E i \in Nat : Command(i, r) \in pending'[req'[r].client]
    <2>1. r # e.for /\ req'[r] = req[r]
        BY <1>1, <1>2, <1>3, SettledFields
    <2>2. req[r].client \in Requests
        BY <1>3, <2>1 DEF Kept
    <2>3. PICK i \in Nat : Command(i, r) \in pending[req[r].client]
        BY <1>3, <2>1 DEF Kept
    <2>4. CASE Command(i, r) \in pending'[req[r].client]
        BY <2>1, <2>2, <2>4
    <2>5. CASE Command(i, r) \notin pending'[req[r].client]
        <3>1. req[r].client = c /\ Command(i, r).id = e.id
            BY <2>2, <2>3, <2>5, Forgotten
        <3>2. i = e.id
            BY <3>1 DEF Command
        <3>3. Issued(c, i, r) /\ Issued(c, i, e.for)
            BY <1>1, <2>3, <3>1, <3>2 DEF Issued
        <3> QED BY <1>1, <2>1, <3>3 DEF Ids
    <2> QED BY <2>4, <2>5
<1> QED BY <1>3 DEF Kept

\* What asking and closing do to the requests.
LEMMA Asked ==
    ASSUME Types, Sockets, NEW r \in Requests, AskAndConnect(r)
    PROVE  /\ UNCHANGED <<nextId, pending, up, down, task, faults>>
           /\ req[r].pc = "unused" /\ req'[r].pc = "connecting"
           /\ \A q \in Requests : q # r => req'[q] = req[q]
           /\ \A q \in Requests : req'[q] = req[q] \/ req'[q].pc = "connecting"
<1> DEFINE s == IF ConnectPromise(ClientFor(r)) # None THEN ConnectPromise(ClientFor(r)) ELSE r
<1>1. req' = [req EXCEPT ![r] = [@ EXCEPT !.pc = "connecting", !.client = ClientFor(r), !.on = s]]
    BY DEF AskAndConnect
<1> HIDE DEF s
<1>2. req \in [Requests -> RequestType]
    BY DEF Types, RequestType
<1>3. req'[r].pc = "connecting" /\ \A q \in Requests : q # r => req'[q] = req[q]
    BY <1>1, <1>2 DEF RequestType
<1>4. UNCHANGED <<nextId, pending, up, down, task, faults>> /\ req[r].pc = "unused"
    BY DEF AskAndConnect, NextRequest
<1> QED BY <1>3, <1>4

LEMMA Closed ==
    ASSUME Types, Sockets, Kept, NEW s \in Requests, owner[s] \in Requests, NEW waiters, HandleClose(s, waiters)
    PROVE  /\ pending'[owner[s]] = {} /\ \A d \in Requests : d # owner[s] => pending'[d] = pending[d]
           /\ \A r \in Requests : req'[r].pc = "pending" => req'[r] = req[r] /\ req[r].client # owner[s]
<1> DEFINE c == owner[s]
           told == {r \in Requests : req[r].pc = "pending" /\ \E e \in RejectPending(c) : e.for = r}
<1>1. pending' = [pending EXCEPT ![c] = {}] /\ req' = Reject(waiters \cup told)
    BY DEF HandleClose
<1>2. ASSUME NEW r \in Requests, req'[r].pc = "pending" PROVE req'[r] = req[r] /\ req[r].client # c
    <2>1. r \notin waiters \cup told
        <3> HIDE DEF told
        <3>1. req'[r].pc = IF r \in waiters \cup told THEN Rejected(r) ELSE req[r].pc
            BY <1>1, RejectedFields
        <3> QED BY <1>2, <3>1 DEF Rejected
    <2>2. req'[r] = req[r]
        <3> HIDE DEF told
        <3> QED BY <1>1, <2>1, RejectTypes
    <2>3. CASE req[r].client = c
        <3>1. PICK i \in Nat : Command(i, r) \in pending[c]
            BY <1>2, <2>2, <2>3 DEF Kept
        <3>2. Command(i, r).for = r
            BY DEF Command
        <3>3. r \in told
            BY <1>2, <2>2, <3>1, <3>2 DEF RejectPending
        <3> QED BY <2>1, <3>3
    <2> QED BY <2>2, <2>3
<1> QED BY <1>1, <1>2 DEF Types

LEMMA AskKept ==
    ASSUME Types, Sockets, Ids, Kept, NEW r \in Requests, AskNow(r) \/ AskAndConnect(r)
    PROVE  Kept'
<1>1. ClientFor(r) \in Requests
    BY ClientForTypes
<1>2. CASE AskNow(r)
    BY <1>1, <1>2, SentKept DEF AskNow
<1>3. CASE AskAndConnect(r)
    <2>1. UNCHANGED pending /\ \A q \in Requests : req'[q] = req[q] \/ req'[q].pc = "connecting"
        BY <1>3, Asked
    <2> QED BY <2>1 DEF Kept
<1> QED BY <1>2, <1>3

LEMMA SocketKept ==
    ASSUME Types, Sockets, Ids, Kept, NEW s \in Requests,
           SocketOpens(s) \/ SocketFails(s) \/ SocketCloses(s) \/ SocketClosed(s)
    PROVE  Kept'
<1>1. owner[s] \in Requests
    BY Owner DEF SocketOpens, SocketFails, SocketCloses, SocketClosed
<1>2. CASE SocketOpens(s)
    <2> DEFINE state == IF current[owner[s]] = None THEN "none" ELSE phase'[current[owner[s]]]
    <2>1. Waiters(s) \in SUBSET Requests /\ SendAll(owner[s], Waiters(s), current[owner[s]], state)
        BY <1>2 DEF Waiters, SocketOpens
    <2> HIDE DEF state
    <2> QED BY <1>1, <2>1, SentKept
<1>3. ASSUME NEW waiters, HandleClose(s, waiters) PROVE Kept'
    <2>1. /\ \A d \in Requests : d # owner[s] => pending'[d] = pending[d]
          /\ \A r \in Requests : req'[r].pc = "pending" => req'[r] = req[r] /\ req[r].client # owner[s]
        BY <1>1, <1>3, Closed
    <2> QED BY <2>1 DEF Kept
<1>4. CASE SocketCloses(s)
    BY <1>4 DEF SocketCloses, clientVars, Kept
<1> QED BY <1>2, <1>3, <1>4 DEF SocketFails, SocketClosed

LEMMA RestKept ==
    ASSUME Types, Sockets, Ids, Kept, NEW s \in Requests,
           \/ Receive(s) \/ Accept(s) \/ Respond(s) \/ Fetched(s)
           \/ \E e \in pending[s] : TimesOut(s, e)
    PROVE  Kept'
<1>1. CASE UNCHANGED <<pending, req>>
    BY <1>1 DEF Kept
<1>2. ASSUME Receive(s), NEW e \in pending[owner[s]], Taken(s, e) PROVE Kept'
    <2>1. owner[s] \in Requests
        BY <1>2, Received
    <2>2. CASE UNCHANGED <<pending, req>>
        BY <1>1, <2>2
    <2>3. CASE \E pc \in {"ok", Rejected(e.for)} :
                  /\ pending' = [pending EXCEPT ![owner[s]] = {x \in @ : x.id # e.id}]
                  /\ Settle(e.for, pc, Head(down[s]).for)
        BY <2>1, <2>3, SettledKept DEF Rejected
    <2> QED BY <1>2, <2>2, <2>3 DEF Taken
<1>3. CASE Receive(s)
    BY <1>1, <1>2, <1>3, Received
<1>4. CASE Fetched(s)
    <2>1. UNCHANGED pending /\ \A q \in Requests : req'[q] = req[q] \/ req'[q].pc = "failed"
        BY <1>4 DEF Fetched, clientVars, Types
    <2> QED BY <2>1 DEF Kept
<1>5. CASE \E e \in pending[s] : TimesOut(s, e)
    BY <1>5, SettledKept DEF TimesOut, Forget, Rejected
<1> QED BY <1>1, <1>3, <1>4, <1>5 DEF Accept, Respond, clientVars

LEMMA StepKept == ASSUME Types, Sockets, Ids, Kept, [Next]_vars PROVE Kept'
<1>1. CASE Next
    <2>1. \/ \E r \in Requests : AskNow(r) \/ AskAndConnect(r)
          \/ \E s \in Requests : SocketOpens(s) \/ SocketFails(s) \/ SocketCloses(s) \/ SocketClosed(s)
          \/ \E s \in Requests : \/ Receive(s) \/ Accept(s) \/ Respond(s) \/ Fetched(s)
                                 \/ \E e \in pending[s] : TimesOut(s, e)
        BY <1>1, Steps
    <2> QED BY <2>1, AskKept, SocketKept, RestKept
<1>2. CASE UNCHANGED vars
    BY <1>2 DEF vars, clientVars, Kept
<1> QED BY <1>1, <1>2

-----------------------------------------------------------------------------
(* One socket                                                              *)

\* The two halves of OneLive.
LEMMA OneIsLive ==
    ASSUME Types, Sockets, OneLive, ~raced, NEW s \in Requests, NEW t \in Requests,
           phase[s] \in Live, phase[t] \in Live
    PROVE  s = t
<1>1. registered = owner[s] /\ current[owner[s]] = s
    BY DEF OneLive
<1>2. registered = owner[t] /\ current[owner[t]] = t
    BY DEF OneLive
<1> QED BY <1>1, <1>2

\* What stays when the sockets do.
LEMMA SameSockets ==
    ASSUME OneLive, UNCHANGED <<registered, current, promise, phase, owner, raced>>,
           \A r \in Requests : req'[r].pc = "pending" =>
               req[r].pc = "pending" /\ req'[r].on = req[r].on /\ req'[r].client = req[r].client
    PROVE  OneLive'
BY DEF OneLive

LEMMA AskNowLive ==
    ASSUME Types, Types', Sockets, OneLive, NEW r \in Requests, AskNow(r)
    PROVE  OneLive'
<1> DEFINE c == ClientFor(r)
<1>1. c \in Requests /\ current[c] # None /\ phase[current[c]] = "open"
    BY ClientForTypes DEF AskNow
<1>2. current[c] \in Requests /\ owner[current[c]] = c
    BY <1>1 DEF Types, Clients, Sockets
<1>3. /\ UNCHANGED <<current, promise, phase, owner, raced>> /\ registered' = c
      /\ SendAll(c, {r}, current[c], "open")
    BY DEF AskNow
<1> HIDE DEF c
<1>4. PICK id : SendsAs(c, {r}, current[c], "open", id)
    BY <1>1, <1>3, Sent
<1>5. SUFFICES ASSUME ~raced PROVE OneLive'
    BY <1>3 DEF OneLive
<1>6. registered = c
    BY <1>1, <1>2, <1>5 DEF OneLive, Live
<1>7. \A q \in Requests : q # r => req'[q] = req[q]
    BY <1>4, SentFields
<1>8. req'[r].on = current[c] /\ req'[r].client = c
    BY <1>4, SentFields
<1>9. \A q \in Requests : req'[q].pc = "pending" =>
          req'[q].on \in Requests /\ phase[req'[q].on] \in Live /\ owner[req'[q].on] = req'[q].client
    <2>1. "open" \in Live
        BY DEF Live
    <2> QED BY <1>1, <1>2, <1>5, <1>7, <1>8, <2>1 DEF OneLive
<1> QED BY <1>3, <1>5, <1>6, <1>9 DEF OneLive

\* A connection is made only where there is no socket, or waited for where it is made.
LEMMA AskLive ==
    ASSUME Types, Types', Sockets, OneLive, NEW r \in Requests, AskAndConnect(r)
    PROVE  OneLive'
<1> DEFINE c == ClientFor(r)
           stale == current[c] # None /\ phase[current[c]] = "closing"
           s == IF promise[c] # None THEN promise[c] ELSE r
<1>1. c \in Requests /\ c # None /\ r # None /\ phase[r] = "none"
    BY ClientForTypes DEF AskAndConnect, NextRequest, Sockets, Requests, None
<1>2. /\ raced' = (raced \/ stale) /\ registered' = c
      /\ current[c] # None => phase[current[c]] # "open"
      /\ IF s = r
         THEN /\ current' = [current EXCEPT ![c] = r] /\ promise' = [promise EXCEPT ![c] = r]
              /\ phase' = [phase EXCEPT ![r] = "connecting"] /\ owner' = [owner EXCEPT ![r] = c]
         ELSE /\ current' = IF stale THEN [current EXCEPT ![c] = None] ELSE current
              /\ UNCHANGED <<promise, phase, owner>>
    BY DEF AskAndConnect, ConnectPromise
<1>3. /\ req[r].pc = "unused" /\ req'[r].pc = "connecting"
      /\ \A q \in Requests : req'[q] = req[q] \/ req'[q].pc = "connecting"
    BY Asked
<1>4. c = registered \/ (registered = None /\ c = r)
    BY DEF ClientFor
<1> HIDE DEF c, stale
<1>5. SUFFICES ASSUME ~raced, ~stale PROVE OneLive'
    BY <1>2 DEF OneLive
<1>6. /\ current[c] # None => current[c] \in Requests /\ owner[current[c]] = c
                              /\ phase[current[c]] = "connecting" /\ promise[c] = current[c]
      /\ promise[c] # None => promise[c] \in Requests /\ owner[promise[c]] = c
                              /\ phase[promise[c]] = "connecting"
    <2>1. promise[c] # None => promise[c] \in Requests /\ owner[promise[c]] = c
                               /\ phase[promise[c]] = "connecting"
        BY <1>1, <1>5 DEF Types, Clients, Sockets, OneLive
    <2>2. ASSUME current[c] # None
          PROVE  current[c] \in Requests /\ owner[current[c]] = c
                 /\ phase[current[c]] = "connecting" /\ promise[c] = current[c]
        <3>1. current[c] \in Requests /\ owner[current[c]] = c /\ phase[current[c]] \in Live
            BY <1>1, <1>5, <2>2 DEF Types, Clients, Sockets, OneLive
        <3>2. phase[current[c]] # "open" /\ phase[current[c]] # "closing"
            BY <1>2, <1>5, <2>2 DEF stale
        <3>3. phase[current[c]] = "connecting"
            BY <3>1, <3>2 DEF Live
        <3> QED BY <1>5, <3>1, <3>3 DEF OneLive
    <2> QED BY <2>1, <2>2
<1>7. CASE promise[c] # None
    <2>1. s # r /\ s = promise[c]
        BY <1>1, <1>6, <1>7
    <2>2. UNCHANGED <<current, promise, phase, owner>>
        BY <1>2, <1>5, <2>1
    <2>3. registered = c
        <3>1. phase[promise[c]] \in Live
            BY <1>6, <1>7 DEF Live
        <3> QED BY <1>5, <1>6, <1>7, <3>1 DEF OneLive
    <2>4. UNCHANGED <<registered, raced>>
        <3>1. raced = FALSE
            BY <1>5 DEF Types
        <3>2. raced' = FALSE
            <4>1. raced' \in BOOLEAN /\ raced' = (raced \/ stale)
                BY <1>2 DEF Types
            <4> QED BY <1>5, <4>1
        <3> QED BY <1>2, <2>3, <3>1, <3>2
    <2>5. \A q \in Requests : req'[q].pc = "pending" => req'[q] = req[q]
        BY <1>3
    <2> QED BY <2>2, <2>4, <2>5, SameSockets
<1>8. CASE promise[c] = None
    <2>1. s = r /\ current[c] = None
        BY <1>6, <1>8
    <2>2. ASSUME NEW t \in Requests, phase[t] \in Live PROVE FALSE
        <3>1. registered = owner[t] /\ current[owner[t]] = t
            BY <1>5, <2>2 DEF OneLive
        <3>2. owner[t] # None /\ t # None
            BY <2>2 DEF Sockets, Live, Requests, None
        <3> QED BY <1>4, <2>1, <3>1, <3>2
    <2>3. \A d \in Requests : current[d] = None /\ promise[d] = None
        <3>1. ASSUME NEW d \in Requests, current[d] # None PROVE FALSE
            <4>1. current[d] \in Requests /\ phase[current[d]] \in Live
                BY <1>5, <3>1 DEF Types, Clients, OneLive
            <4> QED BY <2>2, <4>1
        <3>2. ASSUME NEW d \in Requests, promise[d] # None PROVE FALSE
            <4>1. promise[d] \in Requests /\ phase[promise[d]] \in Live
                BY <1>5, <3>2 DEF Types, Clients, OneLive, Live
            <4> QED BY <2>2, <4>1
        <3> QED BY <3>1, <3>2
    <2>4. \A q \in Requests : req'[q].pc # "pending"
        <3>1. \A q \in Requests : req[q].pc # "pending"
            BY <1>5, <2>2 DEF OneLive
        <3> QED BY <1>3, <3>1
    <2>5. /\ phase'[r] = "connecting" /\ owner'[r] = c /\ current'[c] = r /\ promise'[c] = r
          /\ \A t \in Requests : t # r => phase'[t] = phase[t]
          /\ \A d \in Requests : d # c => current'[d] = None /\ promise'[d] = None
        <3>1. /\ current' = [current EXCEPT ![c] = r] /\ promise' = [promise EXCEPT ![c] = r]
              /\ phase' = [phase EXCEPT ![r] = "connecting"] /\ owner' = [owner EXCEPT ![r] = c]
            BY <1>2, <2>1
        <3> HIDE DEF s
        <3>2. /\ current' = [d \in Requests |-> IF d = c THEN r ELSE current[d]]
              /\ promise' = [d \in Requests |-> IF d = c THEN r ELSE promise[d]]
              /\ phase' = [t \in Requests |-> IF t = r THEN "connecting" ELSE phase[t]]
              /\ owner' = [t \in Requests |-> IF t = r THEN c ELSE owner[t]]
            BY <3>1 DEF Types
        <3> QED BY <1>1, <2>3, <3>2
    <2>6. \A t \in Requests : phase'[t] \in Live => t = r
        BY <2>2, <2>5
    <2> HIDE DEF s
    <2>7. \A t \in Requests : phase'[t] \in Live =>
              registered' = owner'[t] /\ current'[owner'[t]] = t /\ promise'[owner'[t]] = t
        BY <1>2, <2>5, <2>6
    <2>8. \A d \in Requests : (current'[d] # None => current'[d] = r) /\ (promise'[d] # None => promise'[d] = r)
        BY <2>5
    <2> QED BY <2>4, <2>5, <2>7, <2>8 DEF OneLive, Live
<1> QED BY <1>7, <1>8

LEMMA OpensLive ==
    ASSUME Types, Types', Sockets, OneLive, NEW s \in Requests, SocketOpens(s)
    PROVE  OneLive'
<1> DEFINE c == owner[s]
           state == IF current[c] = None THEN "none" ELSE phase'[current[c]]
<1>1. /\ phase[s] = "connecting" /\ phase' = [phase EXCEPT ![s] = "open"]
      /\ promise' = [promise EXCEPT ![c] = None] /\ UNCHANGED <<registered, current, owner, raced>>
      /\ Waiters(s) \in SUBSET Requests /\ SendAll(c, Waiters(s), current[c], state)
    BY DEF SocketOpens, Waiters
<1>2. c \in Requests
    BY <1>1, Owner
<1> HIDE DEF c, state
<1>3. PICK id : SendsAs(c, Waiters(s), current[c], state, id)
    BY <1>1, <1>2, Sent
<1>4. SUFFICES ASSUME ~raced PROVE OneLive'
    BY <1>1 DEF OneLive
<1>5. registered = c /\ current[c] = s /\ \A t \in Requests : phase[t] \in Live => t = s
    <2>1. phase[s] \in Live
        BY <1>1 DEF Live
    <2> QED BY <1>4, <2>1, OneIsLive DEF OneLive, c
<1>6. \A t \in Requests : phase'[t] = IF t = s THEN "open" ELSE phase[t]
    BY <1>1 DEF Types
<1>7. \A t \in Requests : phase'[t] \in Live => t = s /\ phase'[t] = "open"
    BY <1>5, <1>6
<1>8. \A d \in Requests : current'[d] # None => phase'[current'[d]] \in Live
    <2>1. \A d \in Requests : current[d] # None => current[d] \in Requests /\ phase[current[d]] \in Live
        BY <1>4 DEF Types, Clients, OneLive
    <2> QED BY <1>1, <1>5, <1>6, <2>1 DEF Live
<1>9. \A d \in Requests : promise'[d] = None
    <2>1. \A d \in Requests : promise[d] # None => promise[d] \in Requests /\ phase[promise[d]] \in Live
        BY <1>4 DEF Types, Clients, OneLive, Live
    <2>2. \A d \in Requests : promise[d] # None => owner[promise[d]] = d
        BY DEF Sockets
    <2>3. \A d \in Requests : promise[d] # None => d = c
        BY <1>5, <2>1, <2>2 DEF c
    <2> QED BY <1>1, <1>2, <2>3 DEF Types
<1>10. \A q \in Requests : req'[q].pc = "pending" =>
           req'[q].on \in Requests /\ phase'[req'[q].on] \in Live /\ owner[req'[q].on] = req'[q].client
    <2>1. SUFFICES ASSUME NEW q \in Requests, req'[q].pc = "pending"
                   PROVE  req'[q].on \in Requests /\ phase'[req'[q].on] \in Live
                          /\ owner[req'[q].on] = req'[q].client
        OBVIOUS
    <2>2. CASE q \in Waiters(s)
        <3>1. req'[q].on = s /\ req'[q].client = c
            BY <1>1, <1>3, <1>5, <2>2, SentFields
        <3> QED BY <1>6, <3>1 DEF Live, c
    <2>3. CASE q \notin Waiters(s)
        <3>1. req'[q] = req[q]
            BY <1>1, <1>3, <2>3, SentFields
        <3>2. req[q].on \in Requests /\ phase[req[q].on] \in Live /\ owner[req[q].on] = req[q].client
            BY <1>4, <2>1, <3>1 DEF OneLive
        <3> QED BY <1>6, <3>1, <3>2 DEF Live
    <2> QED BY <2>2, <2>3
<1>11. \A t \in Requests : phase'[t] \in Live =>
          registered' = owner'[t] /\ current'[owner'[t]] = t /\ phase'[t] # "connecting"
    BY <1>1, <1>5, <1>7 DEF c
<1> QED BY <1>1, <1>8, <1>9, <1>10, <1>11 DEF OneLive

\* When the socket is gone nothing is left of it, and everybody knows.
LEMMA CloseLive ==
    ASSUME Types, Types', Sockets, Kept, OneLive, NEW s \in Requests, phase[s] \in Live,
           NEW waiters, HandleClose(s, waiters)
    PROVE  OneLive'
<1> DEFINE c == owner[s]
<1>1. /\ phase' = [phase EXCEPT ![s] = "closed"] /\ promise' = [promise EXCEPT ![c] = None]
      /\ current' = [current EXCEPT ![c] = None] /\ raced' = raced
    BY DEF HandleClose, ClearSocket
<1>2. c \in Requests
    BY Owner DEF Live
<1>3. \A q \in Requests : req'[q].pc = "pending" => req'[q] = req[q] /\ req[q].client # c
    BY <1>2, Closed
<1> HIDE DEF c
<1>4. SUFFICES ASSUME ~raced PROVE OneLive'
    BY <1>1 DEF OneLive
<1>5. \A t \in Requests : phase[t] \in Live => t = s
    BY <1>4, OneIsLive
<1>6. \A t \in Requests : phase'[t] \notin Live
    BY <1>1, <1>5 DEF Types, Live
<1>7. \A d \in Requests : current'[d] = None /\ promise'[d] = None
    <2>1. \A d \in Requests : /\ current[d] # None => current[d] \in Requests /\ phase[current[d]] \in Live
                              /\ promise[d] # None => promise[d] \in Requests /\ phase[promise[d]] \in Live
        <3>1. \A d \in Requests : current[d] # None => current[d] \in Requests /\ phase[current[d]] \in Live
            BY <1>4 DEF Types, Clients, OneLive
        <3>2. \A d \in Requests : promise[d] # None => promise[d] \in Requests /\ phase[promise[d]] \in Live
            BY <1>4 DEF Types, Clients, OneLive, Live
        <3> QED BY <3>1, <3>2
    <2>2. \A d \in Requests : /\ current[d] # None => owner[current[d]] = d
                              /\ promise[d] # None => owner[promise[d]] = d
        BY DEF Sockets
    <2>3. \A d \in Requests : current[d] # None \/ promise[d] # None => d = c
        BY <1>5, <2>1, <2>2 DEF c
    <2> QED BY <1>1, <1>2, <2>3 DEF Types
<1>8. \A q \in Requests : req'[q].pc # "pending"
    <2>1. SUFFICES ASSUME NEW q \in Requests, req'[q].pc = "pending" PROVE FALSE
        OBVIOUS
    <2>2. req[q].pc = "pending" /\ req[q].client # c
        BY <1>3, <2>1
    <2>3. req[q].on \in Requests /\ phase[req[q].on] \in Live /\ owner[req[q].on] = req[q].client
        BY <1>4, <2>2 DEF OneLive
    <2> QED BY <1>5, <2>2, <2>3 DEF c
<1> QED BY <1>6, <1>7, <1>8 DEF OneLive

\* Answers, timers and the gateway make no request wait.
LEMMA RestRequests ==
    ASSUME Types, Sockets, NEW s \in Requests,
           \/ Receive(s) \/ Accept(s) \/ Respond(s) \/ Fetched(s)
           \/ \E e \in pending[s] : TimesOut(s, e)
    PROVE  \A q \in Requests :
               \/ req'[q] = req[q]
               \/ req'[q].pc = "fetching" /\ q \in Opens /\ req[q].pc \in Waiting
               \/ req'[q].pc \in {"ok", "failed"} /\ UnderWay(q)
<1>1. CASE UNCHANGED req
    BY <1>1
<1>2. ASSUME NEW r \in Requests, NEW pc \in {"ok", Rejected(r)}, NEW from, Settle(r, pc, from)
      PROVE  \A q \in Requests :
               \/ req'[q] = req[q]
               \/ req'[q].pc = "fetching" /\ q \in Opens /\ req[q].pc \in Waiting
               \/ req'[q].pc \in {"ok", "failed"} /\ UnderWay(q)
    BY <1>2, SettledFields DEF Rejected, UnderWay
<1>3. CASE Receive(s)
    <2>1. ASSUME NEW e \in pending[owner[s]], Taken(s, e)
          PROVE  UNCHANGED req \/ \E r \in Requests : \E pc \in {"ok", Rejected(r)} : \E from : Settle(r, pc, from)
        BY <2>1 DEF Taken
    <2> QED BY <1>1, <1>2, <1>3, <2>1, Received
<1>4. CASE Fetched(s)
    BY <1>4 DEF Fetched, Types, UnderWay
<1>5. CASE \E e \in pending[s] : TimesOut(s, e)
    <2>1. PICK e \in pending[s] : TimesOut(s, e)
        BY <1>5
    <2>2. e.for \in Requests /\ Settle(e.for, Rejected(e.for), None)
        BY <2>1 DEF Types, Commands, TimesOut
    <2> QED BY <1>2, <2>2
<1> QED BY <1>1, <1>3, <1>4, <1>5 DEF Accept, Respond

LEMMA StepLive == ASSUME Types, Sockets, Kept, OneLive, [Next]_vars PROVE OneLive'
<1>1. Types'
    BY StepTypes
<1>2. CASE \E r \in Requests : AskNow(r) \/ AskAndConnect(r)
    BY <1>1, <1>2, AskNowLive, AskLive
<1>3. CASE \E s \in Requests : SocketOpens(s)
    BY <1>1, <1>3, OpensLive
<1>4. CASE \E s \in Requests : SocketFails(s) \/ SocketClosed(s)
    BY <1>1, <1>4, CloseLive DEF SocketFails, SocketClosed, Live
<1>5. CASE \E s \in Requests : SocketCloses(s)
    <2>1. PICK s \in Requests : SocketCloses(s)
        BY <1>5
    <2>2. /\ phase[s] = "open" /\ phase' = [phase EXCEPT ![s] = "closing"]
          /\ UNCHANGED <<registered, current, promise, owner, req, raced>>
        BY <2>1 DEF SocketCloses, clientVars
    <2>3. \A t \in Requests : phase'[t] = IF t = s THEN "closing" ELSE phase[t]
        BY <2>2 DEF Types
    <2>4. \A t \in Requests : phase'[t] \in Live <=> phase[t] \in Live
        BY <2>2, <2>3 DEF Live
    <2>5. \A t \in Requests : phase'[t] = "connecting" <=> phase[t] = "connecting"
        BY <2>2, <2>3
    <2>6. \A d \in Requests : current[d] \in Clients /\ promise[d] \in Clients
        BY DEF Types
    <2> QED BY <2>2, <2>4, <2>5, <2>6 DEF OneLive, Clients
<1>6. ASSUME \E s \in Requests : \/ Receive(s) \/ Accept(s) \/ Respond(s) \/ Fetched(s)
                                 \/ \E e \in pending[s] : TimesOut(s, e)
      PROVE  OneLive'
    <2>1. PICK s \in Requests : \/ Receive(s) \/ Accept(s) \/ Respond(s) \/ Fetched(s)
                                \/ \E e \in pending[s] : TimesOut(s, e)
        BY <1>6
    <2>2. UNCHANGED <<registered, current, promise, phase, owner, raced>>
        BY <2>1 DEF Receive, Accept, Respond, Fetched, TimesOut, clientVars, wireVars
    <2>3. \A q \in Requests : req'[q].pc = "pending" => req'[q] = req[q]
        BY <2>1, RestRequests
    <2> QED BY <2>2, <2>3, SameSockets
<1>7. CASE UNCHANGED vars
    BY <1>7, SameSockets DEF vars, clientVars, wireVars
<1> QED BY <1>2, <1>3, <1>4, <1>5, <1>6, <1>7, Steps

LEMMA KeptHold == Spec => []Kept
<1>1. Init => Kept
    BY DEF Init, Kept
<1>2. Types /\ Sockets /\ Ids /\ Kept /\ [Next]_vars => Kept'
    BY StepKept
<1> QED BY <1>1, <1>2, TypeCorrect, IdsHold, PTL DEF Spec

LEMMA OneLiveHold == Spec => []OneLive
<1>1. Init => OneLive
    BY DEF Init, OneLive, Live
<1>2. Types /\ Sockets /\ Kept /\ OneLive /\ [Next]_vars => OneLive'
    BY StepLive
<1> QED BY <1>1, <1>2, TypeCorrect, KeptHold, PTL DEF Spec

\* A page has one socket for the session, however its requests overlap the making of the
\* connection, unless one was made while another was closing: a socket that lives is the
\* registered client's current one, and a connection in the making is its promise.
THEOREM OneSocketEver == Spec => []OneSocket
<1>1. Types /\ Sockets /\ OneLive => OneSocket
    <2>1. SUFFICES ASSUME Types, Sockets, OneLive, ~raced
                   PROVE  Cardinality({s \in Requests : phase[s] \in Live}) <= 1
        BY DEF OneSocket, Live
    <2> DEFINE S == {s \in Requests : phase[s] \in Live}
    <2>2. \A s, t \in S : s = t
        BY <2>1, OneIsLive
    <2>3. CASE S = {}
        BY <2>3, FS_EmptySet
    <2>4. CASE S # {}
        <3>1. PICK s : S = {s}
            BY <2>2, <2>4
        <3>2. Cardinality({s}) = 1
            BY FS_Singleton
        <3> QED BY <3>1, <3>2
    <2> QED BY <2>3, <2>4
<1> QED BY <1>1, TypeCorrect, OneLiveHold, PTL

\* With the same exception nobody waits for a socket that is closed: a request that
\* waits is on the socket that lives, and has the entry through which it is rejected.
THEOREM NobodyLeftWaiting == Spec => []ToldOfClose
<1>1. OneLive => ToldOfClose
    BY DEF OneLive, ToldOfClose, Live
<1> QED BY <1>1, OneLiveHold, PTL

-----------------------------------------------------------------------------
(* Commands                                                                *)

\* Those a closing socket rejects were waiting.
LEMMA Rejects ==
    ASSUME NEW s, NEW waiters \in {FailWaiters(s), {}}, HandleClose(s, waiters)
    PROVE  \E rs : req' = Reject(rs) /\ \A q \in rs : q \in Requests => req[q].pc \in Waiting
<1> DEFINE told == {r \in Requests : req[r].pc = "pending" /\ \E e \in RejectPending(owner[s]) : e.for = r}
           rs == waiters \cup told
<1>1. req' = Reject(rs)
    BY DEF HandleClose
<1>2. \A q \in rs : req[q].pc \in Waiting
    BY DEF FailWaiters, Waiters, Waiting
<1> HIDE DEF rs
<1> QED BY <1>1, <1>2

\* What a step may do to the promise of a request.
LEMMA StepRequests ==
    ASSUME Types, Sockets, [Next]_vars, NEW r \in Requests
    PROVE  \/ req'[r] = req[r]
           \/ req[r].pc = "unused" /\ req'[r].pc = "connecting"
           \/ ~Made(r) /\ req'[r].pc = "pending"
           \/ req'[r].pc = "fetching" /\ r \in Opens /\ (~Made(r) \/ req[r].pc = "pending")
           \/ req'[r].pc \in {"failed", "ok"} /\ (~Made(r) \/ UnderWay(r))
<1>1. CASE SendStep
    <2>1. PICK c \in Requests, rs \in SUBSET Requests, s \in Clients, state \in Phases : Sends(c, rs, s, state)
        BY <1>1 DEF SendStep
    <2>2. SendAll(c, rs, s, state) /\ \A q \in rs : ~Made(q)
        BY <2>1 DEF Sends
    <2>3. PICK id : SendsAs(c, rs, s, state, id)
        BY <2>2, Sent
    <2>4. r \notin rs => req'[r] = req[r]
        BY <2>3, SentFields
    <2>5. r \in rs => req'[r].pc \in {Rejected(r), "pending"}
        BY <2>3, SentFields
    <2> QED BY <2>2, <2>4, <2>5 DEF Rejected
<1>2. CASE \E q \in Requests : AskAndConnect(q)
    BY <1>2, Asked
<1>3. CASE \E s \in Requests : SocketFails(s) \/ SocketClosed(s)
    <2>1. PICK rs : req' = Reject(rs) /\ \A q \in rs : q \in Requests => req[q].pc \in Waiting
        BY <1>3, Rejects DEF SocketFails, SocketClosed
    <2>2. req'[r] = req[r] \/ (req'[r].pc = Rejected(r) /\ req[r].pc \in Waiting)
        <3>1. req'[r] = req[r] \/ r \in rs
            BY <2>1, RejectTypes
        <3> QED BY <2>1, <3>1, RejectedFields
    <2> QED BY <2>2 DEF Rejected, Waiting, Made, UnderWay
<1>4. CASE \E s \in Requests : SocketCloses(s)
    BY <1>4 DEF SocketCloses
<1>5. ASSUME \E s \in Requests : \/ Receive(s) \/ Accept(s) \/ Respond(s) \/ Fetched(s)
                                 \/ \E e \in pending[s] : TimesOut(s, e)
      PROVE  \/ req'[r] = req[r]
             \/ req'[r].pc = "fetching" /\ r \in Opens /\ (~Made(r) \/ req[r].pc = "pending")
             \/ req'[r].pc \in {"failed", "ok"} /\ (~Made(r) \/ UnderWay(r))
    BY <1>5, RestRequests DEF Waiting, Made
<1>6. CASE UNCHANGED vars
    BY <1>6 DEF vars
<1>7. CASE \E q \in Requests : AskNow(q)
    BY <1>1, <1>7, AskNowSends
<1>8. CASE \E s \in Requests : SocketOpens(s)
    BY <1>1, <1>8, StepTypes, OpenSends
<1> QED BY <1>2, <1>3, <1>4, <1>5, <1>6, <1>7, <1>8, Steps

LEMMA StepMade ==
    ASSUME Types, Sockets, [Next]_vars, NEW r \in Requests, Made(r)
    PROVE  Made(r)'
BY StepRequests DEF Made

LEMMA StepCommanded == ASSUME Types, Sockets, Commanded, [Next]_vars PROVE Commanded'
<1>1. Types'
    BY StepTypes
<1>2. CASE OldIds
    <2>1. SUFFICES ASSUME NEW c \in Requests, NEW r \in Requests, NEW i \in Nat, Issued(c, i, r)'
                   PROVE  Made(r)' /\ \A d \in Requests, j \in Nat : Issued(d, j, r)' => d = c /\ j = i
        BY DEF Commanded
    <2>2. Issued(c, i, r)
        BY <1>2, <2>1 DEF OldIds
    <2>3. Made(r) /\ \A d \in Requests, j \in Nat : Issued(d, j, r) => d = c /\ j = i
        BY <2>2 DEF Commanded
    <2>4. Made(r)'
        BY <2>3, StepMade
    <2> QED BY <1>2, <2>3, <2>4 DEF OldIds
<1>3. CASE SendStep
    <2>1. PICK c \in Requests, rs \in SUBSET Requests, s \in Clients, state \in Phases : Sends(c, rs, s, state)
        BY <1>3 DEF SendStep
    <2>2. SendAll(c, rs, s, state) /\ \A q \in rs : ~Made(q)
        BY <2>1 DEF Sends
    <2>3. PICK id : SendsAs(c, rs, s, state, id)
        BY <2>2, Sent
    <2>4. \A d, r \in Requests, i \in Nat :
              Issued(d, i, r)' => Issued(d, i, r) \/ (d = c /\ r \in rs /\ i = id[r])
        BY <1>1, <2>1, <2>3, SentIds
    <2>5. SUFFICES ASSUME NEW d \in Requests, NEW r \in Requests, NEW i \in Nat, Issued(d, i, r)'
                   PROVE  Made(r)' /\ \A b \in Requests, j \in Nat : Issued(b, j, r)' => b = d /\ j = i
        BY DEF Commanded
    <2>6. CASE r \in rs
        <3>1. req'[r].pc \in {Rejected(r), "pending"}
            BY <2>3, <2>6, SentFields
        <3>2. Made(r)'
            BY <3>1 DEF Made, Rejected
        <3>3. \A b \in Requests, j \in Nat : ~Issued(b, j, r)
            BY <2>2, <2>6 DEF Commanded
        <3> QED BY <2>4, <2>5, <3>2, <3>3
    <2>7. CASE r \notin rs
        <3>1. \A b \in Requests, j \in Nat : Issued(b, j, r)' => Issued(b, j, r)
            BY <2>4, <2>7
        <3>2. Issued(d, i, r)
            BY <2>5, <3>1
        <3>3. Made(r) /\ \A b \in Requests, j \in Nat : Issued(b, j, r) => b = d /\ j = i
            BY <3>2 DEF Commanded
        <3>4. Made(r)'
            BY <3>3, StepMade
        <3> QED BY <3>1, <3>3, <3>4
    <2> QED BY <2>6, <2>7
<1> QED BY <1>2, <1>3, StepSends

\* What is on the wire, and what a task works on, is a command that was issued.
LEMMA OnWire ==
    ASSUME Types, Sockets
    PROVE  /\ \A s \in Requests : \A k \in DOMAIN up[s] :
                 /\ owner[s] \in Requests /\ up[s][k] \in Commands
                 /\ Issued(owner[s], up[s][k].id, up[s][k].for)
           /\ \A s \in Requests : \A k \in DOMAIN down[s] :
                 /\ owner[s] \in Requests /\ down[s][k] \in Answers
                 /\ Issued(owner[s], down[s][k].id, down[s][k].for)
           /\ \A r \in Requests : task[r].pc # "none" =>
                 /\ owner[task[r].on] \in Requests /\ task[r].id \in Nat
                 /\ Issued(owner[task[r].on], task[r].id, r)
           /\ \A c \in Requests : \A e \in pending[c] :
                 e \in Commands /\ e = Command(e.id, e.for) /\ Issued(c, e.id, e.for)
<1>1. ASSUME NEW s \in Requests, NEW k \in DOMAIN up[s]
      PROVE  owner[s] \in Requests /\ up[s][k] \in Commands /\ Issued(owner[s], up[s][k].id, up[s][k].for)
    <2>1. up[s] \in Seq(Commands) /\ up[s] # <<>>
        BY <1>1 DEF Types
    <2>2. up[s][k] \in Commands /\ phase[s] # "none"
        BY <2>1 DEF Sockets
    <2>3. up[s][k] = Command(up[s][k].id, up[s][k].for)
        BY <2>2 DEF Command, Commands
    <2> QED BY <2>2, <2>3, Owner DEF Issued
<1>2. ASSUME NEW s \in Requests, NEW k \in DOMAIN down[s]
      PROVE  owner[s] \in Requests /\ down[s][k] \in Answers /\ Issued(owner[s], down[s][k].id, down[s][k].for)
    <2>1. down[s] \in Seq(Answers) /\ down[s] # <<>>
        BY <1>2 DEF Types
    <2>2. down[s][k] \in Answers /\ phase[s] # "none"
        BY <2>1 DEF Sockets
    <2> QED BY <2>2, Owner DEF Issued
<1>3. ASSUME NEW r \in Requests, task[r].pc # "none"
      PROVE  owner[task[r].on] \in Requests /\ task[r].id \in Nat /\ Issued(owner[task[r].on], task[r].id, r)
    <2>1. task[r].on \in Requests /\ phase[task[r].on] # "none"
        BY <1>3 DEF Sockets
    <2> QED BY <1>3, <2>1, Owner DEF Types, Issued
<1>4. ASSUME NEW c \in Requests, NEW e \in pending[c]
      PROVE  e \in Commands /\ e = Command(e.id, e.for) /\ Issued(c, e.id, e.for)
    <2>1. e \in Commands
        BY DEF Types
    <2>2. e = Command(e.id, e.for)
        BY <2>1 DEF Command, Commands
    <2> QED BY <2>1, <2>2 DEF Issued
<1> QED BY <1>1, <1>2, <1>3, <1>4

LEMMA NotMade ==
    ASSUME Types, Sockets, Commanded, NEW r \in Requests, ~Made(r)
    PROVE  /\ Unsent(r)
           /\ \A s \in Requests : \A k \in DOMAIN down[s] : down[s][k].for # r
           /\ \A c \in Requests : \A e \in pending[c] : e.for # r
<1>1. \A c \in Requests, i \in Nat : ~Issued(c, i, r)
    BY DEF Commanded
<1>2. Unsent(r)
    BY <1>1, OnWire DEF Unsent, Commands
<1>3. \A s \in Requests : \A k \in DOMAIN down[s] : down[s][k].for # r
    BY <1>1, OnWire DEF Answers
<1>4. \A c \in Requests : \A e \in pending[c] : e.for # r
    BY <1>1, OnWire DEF Commands
<1> QED BY <1>2, <1>3, <1>4

\* An element of a concatenation is an element of one of the parts.
LEMMA InConcat ==
    ASSUME NEW S, NEW a \in Seq(S), NEW b \in Seq(S), NEW k \in DOMAIN (a \o b)
    PROVE  \/ k \in DOMAIN a /\ (a \o b)[k] = a[k]
           \/ \E l \in DOMAIN b : k = Len(a) + l /\ (a \o b)[k] = b[l]
<1>1. Len(a) \in Nat /\ Len(b) \in Nat /\ Len(a \o b) = Len(a) + Len(b) /\ k \in 1..(Len(a) + Len(b))
    OBVIOUS
<1>2. CASE k <= Len(a)
    BY <1>1, <1>2
<1>3. CASE k > Len(a)
    <2>1. k - Len(a) \in DOMAIN b /\ k = Len(a) + (k - Len(a)) /\ (a \o b)[k] = b[k - Len(a)]
        BY <1>1, <1>3
    <2> QED BY <2>1
<1> QED BY <1>1, <1>2, <1>3

\* The queues after a send: what was there, then commands of requests that had none.
Queued(q, rs, s) ==
    /\ \A k \in DOMAIN q : q[k].for \in rs
    /\ \A k, l \in DOMAIN q : q[k].for = q[l].for => k = l
    /\ \A t \in Requests : \A k \in DOMAIN up'[t] :
          \/ k \in DOMAIN up[t] /\ up'[t][k] = up[t][k]
          \/ t = s /\ \E l \in DOMAIN q : k = Len(up[t]) + l /\ up'[t][k] = q[l]

LEMMA SentQueues ==
    ASSUME Types, NEW c \in Requests, NEW rs \in SUBSET Requests, NEW s \in Clients, NEW state,
           Sends(c, rs, s, state)
    PROVE  \E q \in Seq(Commands) : Queued(q, rs, s)
<1>1. SendAll(c, rs, s, state) /\ (state = "open" => s \in Requests)
    BY DEF Sends
<1>2. PICK id : SendsAs(c, rs, s, state, id)
    BY <1>1, Sent
<1>3. CASE state # "open"
    <2>1. up' = up
        BY <1>2, <1>3 DEF SendsAs
    <2>2. <<>> \in Seq(Commands) /\ DOMAIN <<>> = {}
        OBVIOUS
    <2>3. Queued(<<>>, rs, s)
        BY <2>1, <2>2 DEF Queued
    <2> QED BY <2>2, <2>3
<1>4. CASE state = "open"
    <2>1. PICK q \in Seq(Commands) :
              /\ up' = [up EXCEPT ![s] = @ \o q]
              /\ \A k \in DOMAIN q : \E r \in rs : q[k] = Command(id[r], r)
              /\ \A k, l \in DOMAIN q : q[k].for = q[l].for => k = l
        BY <1>2, <1>4 DEF SendsAs
    <2>2. \A k \in DOMAIN q : q[k].for \in rs
        <3>1. \A r \in rs : Command(id[r], r).for = r
            BY DEF Command
        <3> QED BY <2>1, <3>1
    <2>3. up[s] \in Seq(Commands) /\ \A t \in Requests : up'[t] = IF t = s THEN up[s] \o q ELSE up[t]
        BY <1>1, <1>4, <2>1 DEF Types
    <2>4. ASSUME NEW t \in Requests, NEW k \in DOMAIN up'[t]
          PROVE  \/ k \in DOMAIN up[t] /\ up'[t][k] = up[t][k]
                 \/ t = s /\ \E l \in DOMAIN q : k = Len(up[t]) + l /\ up'[t][k] = q[l]
        <3>1. CASE t # s
            BY <2>3, <3>1
        <3>2. CASE t = s
            <4>1. k \in DOMAIN (up[s] \o q) /\ up'[t] = up[s] \o q
                BY <2>3, <2>4, <3>2
            <4>2. \/ k \in DOMAIN up[s] /\ (up[s] \o q)[k] = up[s][k]
                  \/ \E l \in DOMAIN q : k = Len(up[s]) + l /\ (up[s] \o q)[k] = q[l]
                BY <2>3, <4>1, InConcat
            <4> QED BY <3>2, <4>1, <4>2
        <3> QED BY <3>1, <3>2
    <2>5. Queued(q, rs, s)
        BY <2>1, <2>2, <2>4 DEF Queued
    <2> QED BY <2>5
<1> QED BY <1>3, <1>4

LEMMA SendOnce ==
    ASSUME Types, Types', Sockets, Commanded, Once, NEW c \in Requests, NEW rs \in SUBSET Requests,
           NEW s \in Clients, NEW state, Sends(c, rs, s, state)
    PROVE  Once'
<1>0. PICK q \in Seq(Commands) : Queued(q, rs, s)
    BY SentQueues
<1>1. /\ \A k \in DOMAIN q : q[k].for \in rs
      /\ \A k, l \in DOMAIN q : q[k].for = q[l].for => k = l
      /\ \A t \in Requests : \A k \in DOMAIN up'[t] :
            \/ k \in DOMAIN up[t] /\ up'[t][k] = up[t][k]
            \/ t = s /\ \E l \in DOMAIN q : k = Len(up[t]) + l /\ up'[t][k] = q[l]
    BY <1>0 DEF Queued
<1>2. UNCHANGED <<down, task>> /\ \A r \in rs : ~Made(r)
    BY DEF Sends
<1>3. \A r \in rs : Unsent(r)
    BY <1>2, NotMade
<1>4. ASSUME NEW t \in Requests, NEW k \in DOMAIN up'[t] PROVE task[up'[t][k].for].pc = "none"
    <2>1. CASE k \in DOMAIN up[t] /\ up'[t][k] = up[t][k]
        BY <2>1 DEF Once
    <2>2. CASE \E l \in DOMAIN q : up'[t][k] = q[l]
        BY <1>1, <1>3, <2>2 DEF Unsent
    <2> QED BY <1>1, <2>1, <2>2
<1>5. ASSUME NEW t \in Requests, NEW k \in DOMAIN up'[t], NEW u \in Requests, NEW l \in DOMAIN up'[u],
             up'[u][l].for = up'[t][k].for
      PROVE  u = t /\ l = k
    <2>1. CASE /\ k \in DOMAIN up[t] /\ up'[t][k] = up[t][k]
               /\ l \in DOMAIN up[u] /\ up'[u][l] = up[u][l]
        BY <1>5, <2>1 DEF Once
    <2>2. CASE /\ t = s /\ \E i \in DOMAIN q : k = Len(up[t]) + i /\ up'[t][k] = q[i]
               /\ u = s /\ \E i \in DOMAIN q : l = Len(up[u]) + i /\ up'[u][l] = q[i]
        BY <1>1, <1>5, <2>2
    <2>3. CASE /\ k \in DOMAIN up[t] /\ up'[t][k] = up[t][k]
               /\ \E i \in DOMAIN q : up'[u][l] = q[i]
        BY <1>1, <1>3, <1>5, <2>3 DEF Unsent
    <2>4. CASE /\ l \in DOMAIN up[u] /\ up'[u][l] = up[u][l]
               /\ \E i \in DOMAIN q : up'[t][k] = q[i]
        BY <1>1, <1>3, <1>5, <2>4 DEF Unsent
    <2> QED BY <1>1, <2>1, <2>2, <2>3, <2>4
<1>6. /\ \A t \in Requests : \A k \in DOMAIN up'[t] : task'[up'[t][k].for].pc = "none"
      /\ \A t \in Requests : \A k \in DOMAIN up'[t] : \A u \in Requests : \A l \in DOMAIN up'[u] :
            up'[u][l].for = up'[t][k].for => u = t /\ l = k
    BY <1>2, <1>4, <1>5
<1> QED BY <1>2, <1>6 DEF Once

\* The answers there are after one is taken, or the socket is closed.
LEMMA FewerOnce ==
    ASSUME Once, UNCHANGED <<up, task>>,
           \A t \in Requests : \A k \in DOMAIN down'[t] : \E l \in DOMAIN down[t] : down'[t][k] = down[t][l]
    PROVE  Once'
<1>1. \A t \in Requests : \A k \in DOMAIN down'[t] :
          /\ task[down'[t][k].for].pc = "over" /\ task[down'[t][k].for].on = t
          /\ down'[t][k].what = "chunk" => down'[t][k].for \in Opens
    BY DEF Once
<1> QED BY <1>1 DEF Once

LEMMA AcceptOnce ==
    ASSUME Types, Types', Sockets, Once, NEW s \in Requests, Accept(s)
    PROVE  Once'
<1> DEFINE m == Head(up[s])
<1>1. /\ task' = [task EXCEPT ![m.for] = [pc |-> "running", on |-> s, id |-> m.id]]
      /\ up' = [up EXCEPT ![s] = Tail(up[s])] /\ UNCHANGED down
      /\ up[s] \in Seq(Commands) /\ up[s] # <<>>
    BY DEF Accept, Types
<1>2. m \in Commands /\ m = up[s][1] /\ 1 \in DOMAIN up[s] /\ m.for \in Requests
    <2>1. m \in Commands /\ m = up[s][1] /\ 1 \in DOMAIN up[s]
        BY <1>1
    <2> QED BY <2>1 DEF Commands
<1>3. \A r \in Requests : r # m.for => task'[r] = task[r]
    BY <1>1 DEF Types
<1> HIDE DEF m
<1>4. \A t \in Requests : \A k \in DOMAIN up'[t] :
          \E l \in DOMAIN up[t] : up'[t][k] = up[t][l] /\ l = IF t = s THEN k + 1 ELSE k
    <2>1. \A k \in DOMAIN Tail(up[s]) : k + 1 \in DOMAIN up[s] /\ Tail(up[s])[k] = up[s][k + 1]
        BY <1>1
    <2>2. \A t \in Requests : up'[t] = IF t = s THEN Tail(up[s]) ELSE up[t]
        BY <1>1 DEF Types
    <2> QED BY <2>1, <2>2
<1>5. \A t \in Requests : \A k \in DOMAIN up'[t] : k \in Nat \ {0}
    <2>1. \A t \in Requests : up'[t] \in Seq(Commands)
        BY DEF Types
    <2> QED BY <2>1
<1>6. ASSUME NEW t \in Requests, NEW k \in DOMAIN up'[t] PROVE task'[up'[t][k].for].pc = "none"
    <2>1. PICK l \in DOMAIN up[t] : up'[t][k] = up[t][l] /\ l = IF t = s THEN k + 1 ELSE k
        BY <1>4
    <2>2. up[t][l].for # m.for
        <3>1. l # 1 \/ t # s
            BY <1>5, <2>1
        <3> QED BY <1>2, <3>1 DEF Once
    <2>3. up[t][l].for \in Requests
        BY OnWire DEF Commands
    <2> QED BY <1>3, <2>1, <2>2, <2>3 DEF Once
<1>7. ASSUME NEW t \in Requests, NEW k \in DOMAIN up'[t], NEW u \in Requests, NEW l \in DOMAIN up'[u],
             up'[u][l].for = up'[t][k].for
      PROVE  u = t /\ l = k
    <2>1. PICK i \in DOMAIN up[t] : up'[t][k] = up[t][i] /\ i = IF t = s THEN k + 1 ELSE k
        BY <1>4
    <2>2. PICK j \in DOMAIN up[u] : up'[u][l] = up[u][j] /\ j = IF u = s THEN l + 1 ELSE l
        BY <1>4
    <2>3. u = t /\ i = j
        BY <1>7, <2>1, <2>2 DEF Once
    <2> QED BY <1>5, <2>1, <2>2, <2>3
<1>8. ASSUME NEW t \in Requests, NEW k \in DOMAIN down[t]
      PROVE  task'[down[t][k].for] = task[down[t][k].for]
    <2>1. task[down[t][k].for].pc = "over" /\ task[m.for].pc = "none"
        BY <1>2 DEF Once
    <2>2. down[t][k].for \in Requests
        BY OnWire DEF Answers
    <2> QED BY <1>3, <2>1, <2>2
<1>9. /\ \A t \in Requests : \A k \in DOMAIN up'[t] : task'[up'[t][k].for].pc = "none"
      /\ \A t \in Requests : \A k \in DOMAIN up'[t] : \A u \in Requests : \A l \in DOMAIN up'[u] :
            up'[u][l].for = up'[t][k].for => u = t /\ l = k
    BY <1>6, <1>7
<1> QED BY <1>1, <1>8, <1>9 DEF Once

LEMMA RespondOnce ==
    ASSUME Types, Types', Sockets, Once, NEW r \in Requests, Respond(r)
    PROVE  Once'
<1>1. PICK answers \in Seq(Answers) : Responds(r, answers)
    BY Responded
<1>2. UNCHANGED up
    BY DEF Respond
<1>3. TaskOver(r)
    BY <1>1 DEF Responds
<1>4. \A q \in Requests : task[q].pc \in {"none", "over"} => task'[q].pc = task[q].pc /\ task'[q].on = task[q].on
    BY <1>3 DEF TaskOver
<1>5. \A s \in Requests : \A k \in DOMAIN up[s] : task'[up[s][k].for].pc = "none"
    <2>1. \A s \in Requests : \A k \in DOMAIN up[s] : up[s][k].for \in Requests
        BY OnWire DEF Commands
    <2> QED BY <1>4, <2>1 DEF Once
<1>6. ASSUME NEW s \in Requests, NEW k \in DOMAIN down'[s]
      PROVE  /\ task'[down'[s][k].for].pc = "over" /\ task'[down'[s][k].for].on = s
             /\ down'[s][k].what = "chunk" => down'[s][k].for \in Opens
    <2>1. CASE k \in DOMAIN down[s] /\ down'[s][k] = down[s][k]
        <3>1. down[s][k].for \in Requests
            BY <2>1, OnWire DEF Answers
        <3> QED BY <1>4, <2>1, <3>1 DEF Once
    <2>2. CASE s = task[r].on /\ \E l \in DOMAIN answers : down'[s][k] = answers[l]
        <3>1. PICK l \in DOMAIN answers : down'[s][k] = answers[l]
            BY <2>2
        <3>2. answers[l].for = r /\ (answers[l].what = "chunk" => r \in Opens)
            <4>1. \A i \in DOMAIN answers : answers[i].for = r
                BY <1>1 DEF Responds
            <4>2. r \notin Opens => Len(answers) = 1 /\ answers[1].what # "chunk"
                BY <1>1 DEF Responds
            <4>3. l \in 1..Len(answers)
                OBVIOUS
            <4>4. r \notin Opens => l = 1
                BY <4>2, <4>3
            <4> QED BY <4>1, <4>2, <4>4
        <3>3. task'[r].pc = "over" /\ task'[r].on = task[r].on
            BY <1>3 DEF TaskOver
        <3> QED BY <2>2, <3>1, <3>2, <3>3
    <2> QED BY <1>1, <2>1, <2>2 DEF Responds
<1>7. /\ \A s \in Requests : \A k \in DOMAIN down'[s] :
            /\ task'[down'[s][k].for].pc = "over" /\ task'[down'[s][k].for].on = s
            /\ down'[s][k].what = "chunk" => down'[s][k].for \in Opens
    BY <1>6
<1> QED BY <1>2, <1>5, <1>7 DEF Once

LEMMA StepOnce == ASSUME Types, Sockets, Commanded, Once, [Next]_vars PROVE Once'
<1>1. Types'
    BY StepTypes
<1>2. CASE SendStep
    BY <1>1, <1>2, SendOnce DEF SendStep
<1>3. CASE UNCHANGED <<up, down, task>>
    BY <1>3 DEF Once
<1>4. CASE \E s \in Requests : Receive(s)
    <2>1. PICK s \in Requests : Receive(s)
        BY <1>4
    <2>2. /\ down' = [down EXCEPT ![s] = Tail(down[s])] /\ UNCHANGED <<up, task>>
          /\ down[s] \in Seq(Answers) /\ down[s] # <<>>
        BY <2>1, Received
    <2>3. \A k \in DOMAIN Tail(down[s]) : k + 1 \in DOMAIN down[s] /\ Tail(down[s])[k] = down[s][k + 1]
        BY <2>2
    <2>4. \A t \in Requests : down'[t] = IF t = s THEN Tail(down[s]) ELSE down[t]
        BY <2>2 DEF Types
    <2>5. \A t \in Requests : \A k \in DOMAIN down'[t] : \E l \in DOMAIN down[t] : down'[t][k] = down[t][l]
        BY <2>3, <2>4
    <2> QED BY <2>2, <2>5, FewerOnce
<1>5. CASE \E s \in Requests : SocketFails(s) \/ SocketClosed(s)
    <2>1. PICK s \in Requests : \E waiters : HandleClose(s, waiters)
        BY <1>5 DEF SocketFails, SocketClosed
    <2>2. UNCHANGED <<up, task>> /\ \A t \in Requests : down'[t] \in {down[t], <<>>}
        BY <2>1 DEF HandleClose, Types
    <2>3. \A t \in Requests : \A k \in DOMAIN down'[t] : \E l \in DOMAIN down[t] : down'[t][k] = down[t][l]
        BY <2>2
    <2> QED BY <2>2, <2>3, FewerOnce
<1>6. ASSUME NEW s \in Requests, SocketCloses(s) \/ Fetched(s) \/ AskAndConnect(s)
                                 \/ \E e \in pending[s] : TimesOut(s, e)
      PROVE  UNCHANGED <<up, down, task>>
    BY <1>6 DEF SocketCloses, Fetched, AskAndConnect, TimesOut, wireVars
<1> QED BY <1>1, <1>2, <1>3, <1>4, <1>5, <1>6, AcceptOnce, RespondOnce, AskNowSends, OpenSends, Steps
        DEF vars, wireVars

\* An entry's request, and the entry of a request, are each other's only one.
LEMMA OneEntry ==
    ASSUME Types, Sockets, Commanded, NEW c \in Requests, NEW e \in pending[c]
    PROVE  /\ e.for \in Requests /\ Made(e.for)
           /\ \A d \in Requests : \A f \in pending[d] : f.for = e.for => d = c /\ f = e
           /\ \A s \in Requests : \A k \in DOMAIN down[s] : down[s][k].for = e.for =>
                 owner[s] = c /\ down[s][k].id = e.id
<1>1. e \in Commands /\ Issued(c, e.id, e.for)
    BY OnWire
<1>2. e.for \in Requests /\ e.id \in Nat
    BY <1>1 DEF Commands
<1>3. Made(e.for) /\ \A d \in Requests, j \in Nat : Issued(d, j, e.for) => d = c /\ j = e.id
    BY <1>1, <1>2 DEF Commanded
<1>4. ASSUME NEW d \in Requests, NEW f \in pending[d], f.for = e.for PROVE d = c /\ f = e
    <2>1. f \in Commands /\ f = Command(f.id, f.for) /\ Issued(d, f.id, e.for) /\ e = Command(e.id, e.for)
        BY <1>4, OnWire
    <2> QED BY <1>3, <1>4, <2>1 DEF Commands
<1>5. ASSUME NEW s \in Requests, NEW k \in DOMAIN down[s], down[s][k].for = e.for
      PROVE  owner[s] = c /\ down[s][k].id = e.id
    <2>1. owner[s] \in Requests /\ down[s][k] \in Answers /\ Issued(owner[s], down[s][k].id, e.for)
        BY <1>5, OnWire
    <2> QED BY <1>3, <2>1 DEF Answers
<1> QED BY <1>2, <1>3, <1>4, <1>5

LEMMA SendEntries ==
    ASSUME Types, Types', Sockets, Ids, Commanded, Entries, NEW c \in Requests, NEW rs \in SUBSET Requests,
           NEW s \in Clients, NEW state, Sends(c, rs, s, state)
    PROVE  Entries'
<1>1. /\ SendAll(c, rs, s, state) /\ (state = "open" => s \in Requests)
      /\ UNCHANGED task /\ \A r \in rs : ~Made(r)
    BY DEF Sends
<1>2. PICK id : SendsAs(c, rs, s, state, id)
    BY <1>1, Sent
<1>3. PICK q \in Seq(Commands) : Queued(q, rs, s)
    BY SentQueues
<1>4. \A r \in Requests : Unsent(r) /\ r \notin rs => Unsent(r)'
    BY <1>1, <1>3 DEF Unsent, Queued
<1>5. ASSUME NEW d \in Requests, NEW e \in pending'[d]
      PROVE  req'[e.for].pc = "pending" \/ Unsent(e.for)'
    <2>1. CASE e \in pending[d]
        <3>1. e.for \in Requests /\ Made(e.for) /\ e.for \notin rs
            BY <1>1, <2>1, OneEntry
        <3>2. req'[e.for] = req[e.for]
            BY <1>2, <3>1, SentFields
        <3> QED BY <1>4, <2>1, <3>1, <3>2 DEF Entries
    <2>2. CASE \E r \in rs : e = Command(id[r], r)
        <3>1. PICK r \in rs : e = Command(id[r], r)
            BY <2>2
        <3>2. e.for = r
            BY <3>1 DEF Command
        <3>3. req'[r].pc = IF s = None \/ state = "connecting" THEN Rejected(r) ELSE "pending"
            BY <1>2, SentFields
        <3>4. CASE state = "open"
            <4>1. s # None
                BY <1>1, <3>4 DEF Requests, None
            <4> QED BY <3>2, <3>3, <3>4, <4>1
        <3>5. CASE state # "open"
            <4>1. up' = up
                BY <1>2, <3>5 DEF SendsAs
            <4>2. Unsent(r)
                BY <1>1, NotMade
            <4>3. Unsent(r)'
                BY <1>1, <4>1, <4>2 DEF Unsent
            <4> QED BY <3>2, <4>3
        <3> QED BY <3>4, <3>5
    <2>3. /\ \A b \in Requests : b # c => pending'[b] = pending[b]
          /\ \A x \in pending'[c] : x \in pending[c] \/ \E r \in rs : x = Command(id[r], r)
        BY <1>2 DEF SendsAs
    <2>4. e \in pending[d] \/ \E r \in rs : e = Command(id[r], r)
        BY <2>3
    <2> QED BY <2>1, <2>2, <2>4
<1> QED BY <1>5 DEF Entries

\* An entry is forgotten, and nothing but the promise of its request changes.
LEMMA SettledEntries ==
    ASSUME Types, Sockets, Commanded, Entries, NEW c \in Requests, NEW e \in pending[c], NEW pc, NEW from,
           pending' = [pending EXCEPT ![c] = {x \in @ : x.id # e.id}], Settle(e.for, pc, from),
           UNCHANGED <<up, task>>
    PROVE  Entries'
<1>1. ASSUME NEW d \in Requests, NEW f \in pending'[d]
      PROVE  req'[f.for].pc = "pending" \/ Unsent(f.for)'
    <2>1. f \in pending[d] /\ (d = c => f # e)
        BY <1>1 DEF Types
    <2>2. f.for \in Requests /\ e.for \in Requests /\ f.for # e.for
        BY <2>1, OneEntry
    <2>3. req'[f.for] = req[f.for]
        BY <2>2, SettledFields
    <2> QED BY <2>1, <2>3 DEF Entries, Unsent
<1> QED BY <1>1 DEF Entries

LEMMA CloseEntries ==
    ASSUME Types, Sockets, Commanded, Entries, NEW s \in Requests, owner[s] \in Requests,
           NEW waiters, \A r \in waiters : ~Made(r), HandleClose(s, waiters)
    PROVE  Entries'
<1> DEFINE c == owner[s]
           told == {r \in Requests : req[r].pc = "pending" /\ \E e \in RejectPending(c) : e.for = r}
<1>1. /\ pending' = [pending EXCEPT ![c] = {}] /\ req' = Reject(waiters \cup told)
      /\ UNCHANGED <<up, task>>
    BY DEF HandleClose
<1>2. ASSUME NEW d \in Requests, NEW f \in pending'[d]
      PROVE  req'[f.for].pc = "pending" \/ Unsent(f.for)'
    <2>1. d # c /\ f \in pending[d]
        BY <1>1, <1>2 DEF Types
    <2>2. f.for \in Requests /\ Made(f.for) /\ \A e \in pending[c] : e.for # f.for
        BY <2>1, OneEntry
    <2>3. f.for \notin waiters \cup told
        BY <2>2 DEF RejectPending
    <2> HIDE DEF told, c
    <2>4. req'[f.for] = req[f.for]
        BY <1>1, <2>2, <2>3, RejectTypes
    <2> QED BY <1>1, <2>1, <2>4 DEF Entries, Unsent
<1> QED BY <1>2 DEF Entries

LEMMA GatewayEntries ==
    ASSUME Types, Types', Sockets, Commanded, Once, Entries, NEW s \in Requests, Accept(s) \/ Respond(s)
    PROVE  Entries'
<1>1. UNCHANGED <<pending, req>>
    BY DEF Accept, Respond, clientVars
<1>2. SUFFICES \A r \in Requests : Unsent(r) => Unsent(r)'
    <2>1. \A c \in Requests : \A e \in pending[c] : e.for \in Requests
        BY OneEntry
    <2> QED BY <1>1, <2>1 DEF Entries
<1>3. CASE Accept(s)
    <2> DEFINE m == Head(up[s])
    <2>1. /\ task' = [task EXCEPT ![m.for] = [pc |-> "running", on |-> s, id |-> m.id]]
          /\ up' = [up EXCEPT ![s] = Tail(up[s])]
          /\ up[s] \in Seq(Commands) /\ up[s] # <<>>
        BY <1>3 DEF Accept, Types
    <2>2. m = up[s][1] /\ 1 \in DOMAIN up[s]
        BY <2>1
    <2> HIDE DEF m
    <2>3. \A r \in Requests : r # m.for => task'[r] = task[r]
        BY <2>1 DEF Types
    <2>4. \A t \in Requests : \A k \in DOMAIN up'[t] : \E l \in DOMAIN up[t] : up'[t][k] = up[t][l]
        <3>1. \A k \in DOMAIN Tail(up[s]) : k + 1 \in DOMAIN up[s] /\ Tail(up[s])[k] = up[s][k + 1]
            BY <2>1
        <3>2. \A t \in Requests : up'[t] = IF t = s THEN Tail(up[s]) ELSE up[t]
            BY <2>1 DEF Types
        <3> QED BY <3>1, <3>2
    <2>5. ASSUME NEW r \in Requests, Unsent(r) PROVE Unsent(r)'
        <3>1. r # m.for
            BY <2>2, <2>5 DEF Unsent
        <3> QED BY <2>3, <2>4, <2>5, <3>1 DEF Unsent
    <2> QED BY <2>5
<1>4. CASE Respond(s)
    <2>1. UNCHANGED up
        BY <1>4 DEF Respond
    <2>2. PICK answers \in Seq(Answers) : Responds(s, answers)
        BY <1>4, Responded
    <2>3. TaskOver(s)
        BY <2>2 DEF Responds
    <2>4. \A r \in Requests : task[r].pc = "none" => task'[r].pc = "none"
        BY <2>3 DEF TaskOver
    <2> QED BY <2>1, <2>4 DEF Unsent
<1> QED BY <1>3, <1>4

LEMMA StepEntries == ASSUME Types, Sockets, Ids, Commanded, Once, Entries, [Next]_vars PROVE Entries'
<1>1. Types'
    BY StepTypes
<1>2. CASE SendStep
    BY <1>1, <1>2, SendEntries DEF SendStep
<1>3. CASE \E r \in Requests : AskAndConnect(r)
    <2>1. PICK r \in Requests : AskAndConnect(r)
        BY <1>3
    <2>2. UNCHANGED <<pending, up, task>> /\ ~Made(r) /\ \A q \in Requests : q # r => req'[q] = req[q]
        BY <2>1, Asked DEF Made
    <2>3. \A c \in Requests : \A e \in pending[c] : req'[e.for] = req[e.for]
        BY <2>2, OneEntry
    <2> QED BY <2>2, <2>3 DEF Entries, Unsent
<1>4. CASE \E s \in Requests : SocketFails(s) \/ SocketClosed(s)
    <2>1. PICK s \in Requests : SocketFails(s) \/ SocketClosed(s)
        BY <1>4
    <2>2. owner[s] \in Requests
        BY <2>1, Owner DEF SocketFails, SocketClosed
    <2>3. \A r \in FailWaiters(s) : ~Made(r)
        BY DEF FailWaiters, Waiters, Made
    <2> QED BY <2>1, <2>2, <2>3, CloseEntries DEF SocketFails, SocketClosed
<1>5. CASE \E s \in Requests : Receive(s)
    <2>1. PICK s \in Requests : Receive(s)
        BY <1>5
    <2>2. owner[s] \in Requests /\ UNCHANGED <<up, task>>
        BY <2>1, Received
    <2>3. CASE UNCHANGED <<pending, req>>
        BY <2>2, <2>3 DEF Entries, Unsent
    <2>4. ASSUME NEW e \in pending[owner[s]], Taken(s, e) PROVE Entries'
        <3>1. CASE UNCHANGED <<pending, req>>
            BY <2>3, <3>1
        <3>2. CASE \E pc \in {"ok", Rejected(e.for)} :
                      /\ pending' = [pending EXCEPT ![owner[s]] = {x \in @ : x.id # e.id}]
                      /\ Settle(e.for, pc, Head(down[s]).for)
            BY <2>2, <3>2, SettledEntries
        <3> QED BY <2>4, <3>1, <3>2 DEF Taken
    <2> QED BY <2>1, <2>3, <2>4, Received
<1>6. CASE \E c \in Requests : \E e \in pending[c] : TimesOut(c, e)
    BY <1>6, SettledEntries DEF TimesOut, Forget, wireVars
<1>7. CASE \E r \in Requests : Fetched(r)
    <2>1. PICK r \in Requests : Fetched(r)
        BY <1>7
    <2>2. UNCHANGED <<pending, up, task>> /\ req[r].pc = "fetching" /\ \A q \in Requests : q # r => req'[q] = req[q]
        BY <2>1 DEF Fetched, clientVars, wireVars, Types
    <2>3. \A c \in Requests : \A e \in pending[c] : e.for \in Requests
        BY OneEntry
    <2> QED BY <2>2, <2>3 DEF Entries, Unsent
<1>8. CASE UNCHANGED <<pending, up, req, task>>
    BY <1>8 DEF Entries, Unsent
<1>9. ASSUME NEW s \in Requests, SocketCloses(s) PROVE UNCHANGED <<pending, up, req, task>>
    BY <1>9 DEF SocketCloses, clientVars
<1> QED BY <1>1, <1>2, <1>3, <1>4, <1>5, <1>6, <1>7, <1>8, <1>9, GatewayEntries, AskNowSends, OpenSends, Steps
        DEF vars, clientVars, wireVars

-----------------------------------------------------------------------------
(* The chunks of the file                                                  *)

LEMMA FollowEnd ==
    ASSUME NEW c \in Seq(Nat), NEW q, NEW r, Follow(c, q, r, 1)
    PROVE  c = File
<1>1. Len(c) \in Nat /\ Chunks \in Nat
    BY CommandAssumption
<1>2. c = [x \in 1..Len(c) |-> x]
    BY DEF Follow
<1>3. Len(c) <= Chunks /\ Chunks - Len(c) < 1
    BY DEF Follow
<1>4. Len(c) = Chunks
    BY <1>1, <1>3
<1> QED BY <1>2, <1>4 DEF File

\* An answer to another request is taken.
LEMMA FollowTail ==
    ASSUME NEW c \in Seq(Nat), NEW q \in Seq(Answers), NEW r, NEW i \in DOMAIN Tail(q), q # <<>>,
           Follow(c, q, r, i + 1), q[1].for # r
    PROVE  Follow(c, Tail(q), r, i)
<1> DEFINE n == Chunks - Len(c)
<1>1. /\ Len(c) \in Nat /\ Chunks \in Nat /\ n \in Int /\ i \in Nat \ {0}
      /\ \A j \in DOMAIN Tail(q) : j \in Nat /\ j + 1 \in DOMAIN q /\ Tail(q)[j] = q[j + 1]
      /\ \A j \in Nat \ {0} : j <= i => j \in DOMAIN Tail(q)
    BY CommandAssumption
<1>2. /\ Len(c) <= Chunks /\ n < i + 1 /\ n \in Nat /\ c = [x \in 1..Len(c) |-> x]
      /\ \A j \in DOMAIN q : q[j].for = r => j \in ((i + 1) - n)..(i + 1)
      /\ \A j \in 1..n : /\ q[(i + 1) - j].for = r /\ q[(i + 1) - j].what = "chunk"
                         /\ q[(i + 1) - j].chunk = Chunks + 1 - j
    BY <1>1 DEF Follow
<1> HIDE DEF n
<1>3. n < i
    <2>1. n = i => n \in 1..n /\ (i + 1) - n = 1
        BY <1>2
    <2>2. n # i
        BY <1>2, <2>1
    <2> QED BY <1>2, <2>2
<1>4. \A j \in DOMAIN Tail(q) : Tail(q)[j].for = r => j \in (i - n)..i
    BY <1>1, <1>2
<1>5. ASSUME NEW j \in 1..n
      PROVE  Tail(q)[i - j].for = r /\ Tail(q)[i - j].what = "chunk" /\ Tail(q)[i - j].chunk = Chunks + 1 - j
    <2>1. q[(i + 1) - j].for = r /\ q[(i + 1) - j].what = "chunk" /\ q[(i + 1) - j].chunk = Chunks + 1 - j
        BY <1>2
    <2>2. Tail(q)[i - j] = q[(i + 1) - j]
        <3>1. i - j \in Nat \ {0} /\ i - j <= i /\ (i - j) + 1 = (i + 1) - j
            BY <1>1, <1>2, <1>3
        <3> QED BY <1>1, <3>1
    <2> QED BY <2>1, <2>2
<1> QED BY <1>2, <1>3, <1>4, <1>5 DEF Follow, n

\* The next chunk of the request is taken.
LEMMA FollowChunk ==
    ASSUME NEW c \in Seq(Nat), NEW q \in Seq(Answers), NEW r, NEW i \in DOMAIN Tail(q), q # <<>>,
           Follow(c, q, r, i + 1), q[1].for = r
    PROVE  q[1].what = "chunk" /\ Follow(Append(c, q[1].chunk), Tail(q), r, i)
<1> DEFINE n == Chunks - Len(c)
           d == Append(c, q[1].chunk)
<1>1. /\ Len(c) \in Nat /\ Chunks \in Nat /\ n \in Int /\ i \in Nat \ {0} /\ 1 \in DOMAIN q
      /\ \A j \in DOMAIN Tail(q) : j \in Nat \ {0} /\ j + 1 \in DOMAIN q /\ Tail(q)[j] = q[j + 1]
      /\ \A j \in Nat \ {0} : j <= i => j \in DOMAIN Tail(q)
    BY CommandAssumption
<1>2. /\ Len(c) <= Chunks /\ n < i + 1 /\ n \in Nat /\ c = [x \in 1..Len(c) |-> x]
      /\ \A j \in DOMAIN q : q[j].for = r => j \in ((i + 1) - n)..(i + 1)
      /\ \A j \in 1..n : /\ q[(i + 1) - j].for = r /\ q[(i + 1) - j].what = "chunk"
                         /\ q[(i + 1) - j].chunk = Chunks + 1 - j
    BY <1>1 DEF Follow
<1>3. n = Chunks - Len(c)
    OBVIOUS
<1> HIDE DEF n
<1>4. n = i
    BY <1>1, <1>2
<1>5. q[1].what = "chunk" /\ q[1].chunk = Len(c) + 1
    <2>1. n \in 1..n /\ (i + 1) - n = 1 /\ Chunks + 1 - n = Len(c) + 1
        BY <1>1, <1>2, <1>3, <1>4
    <2> QED BY <1>2, <2>1
<1>6. /\ Len(d) = Len(c) + 1 /\ d \in Seq(Nat)
      /\ d = [x \in 1..Len(d) |-> x]
    <2>1. d = Append(c, Len(c) + 1)
        BY <1>5
    <2> HIDE DEF d
    <2>2. d \in Seq(Nat) /\ Len(d) = Len(c) + 1 /\ \A x \in 1..Len(d) : d[x] = IF x <= Len(c) THEN c[x] ELSE Len(c) + 1
        BY <1>1, <2>1
    <2>3. \A x \in 1..Len(c) : c[x] = x
        BY <1>2
    <2>4. \A x \in 1..Len(d) : d[x] = x
        BY <1>1, <2>2, <2>3
    <2>5. d = [x \in 1..Len(d) |-> d[x]]
        BY <2>2
    <2> QED BY <2>2, <2>4, <2>5
<1> HIDE DEF d
<1>7. Chunks - Len(d) = n - 1 /\ Len(d) <= Chunks /\ n - 1 < i
    BY <1>1, <1>2, <1>3, <1>4, <1>6
<1>8. \A j \in DOMAIN Tail(q) : Tail(q)[j].for = r => j \in (i - (n - 1))..i
    BY <1>1, <1>2, <1>4
<1>9. ASSUME NEW j \in 1..(n - 1)
      PROVE  Tail(q)[i - j].for = r /\ Tail(q)[i - j].what = "chunk" /\ Tail(q)[i - j].chunk = Chunks + 1 - j
    <2>1. j \in 1..n
        BY <1>1, <1>4
    <2>2. q[(i + 1) - j].for = r /\ q[(i + 1) - j].what = "chunk" /\ q[(i + 1) - j].chunk = Chunks + 1 - j
        BY <1>2, <2>1
    <2>3. i - j \in Nat \ {0} /\ i - j <= i /\ (i - j) + 1 = (i + 1) - j
        BY <1>1, <1>4
    <2>4. Tail(q)[i - j] = q[(i + 1) - j]
        BY <1>1, <2>3
    <2> QED BY <2>2, <2>4
<1>10. Follow(d, Tail(q), r, i)
    BY <1>6, <1>7, <1>8, <1>9 DEF Follow
<1> QED BY <1>5, <1>10 DEF d

\* Answers to another request are put behind.
LEMMA FollowMore ==
    ASSUME NEW c \in Seq(Nat), NEW q \in Seq(Answers), NEW a \in Seq(Answers), NEW r, NEW i \in DOMAIN q,
           Follow(c, q, r, i), \A l \in DOMAIN a : a[l].for # r
    PROVE  Follow(c, q \o a, r, i)
<1> DEFINE n == Chunks - Len(c)
<1>1. n \in Int /\ i \in Nat \ {0} /\ i <= Len(q) /\ Len(q) \in Nat /\ DOMAIN q = 1..Len(q)
    BY CommandAssumption
<1>2. \A j \in DOMAIN q : (q \o a)[j] = q[j]
    OBVIOUS
<1>3. /\ Len(c) <= Chunks /\ n < i /\ c = [x \in 1..Len(c) |-> x]
      /\ \A j \in DOMAIN q : q[j].for = r => j \in (i - n)..i
      /\ \A j \in 1..n : q[i - j].for = r /\ q[i - j].what = "chunk" /\ q[i - j].chunk = Chunks + 1 - j
    BY DEF Follow
<1>4. \A j \in DOMAIN (q \o a) : (q \o a)[j].for = r => j \in (i - n)..i
    <2>1. ASSUME NEW j \in DOMAIN (q \o a), (q \o a)[j].for = r PROVE j \in (i - n)..i
        <3>1. \/ j \in DOMAIN q /\ (q \o a)[j] = q[j]
              \/ \E l \in DOMAIN a : j = Len(q) + l /\ (q \o a)[j] = a[l]
            BY InConcat
        <3> QED BY <1>3, <2>1, <3>1
    <2> QED BY <2>1
<1> HIDE DEF n
<1>5. \A j \in 1..n : i - j \in DOMAIN q
    BY <1>1, <1>3
<1>6. \A j \in 1..n : /\ (q \o a)[i - j].for = r /\ (q \o a)[i - j].what = "chunk"
                      /\ (q \o a)[i - j].chunk = Chunks + 1 - j
    BY <1>2, <1>3, <1>5
<1> QED BY <1>3, <1>4, <1>6 DEF Follow, n

\* The whole file comes at once.
LEMMA FollowAll ==
    ASSUME NEW q \in Seq(Answers), NEW a \in Seq(Answers), NEW r, \A j \in DOMAIN q : q[j].for # r,
           Len(a) = Chunks + 1, \A l \in DOMAIN a : a[l].for = r,
           \A l \in 1..Chunks : a[l].what = "chunk" /\ a[l].chunk = l
    PROVE  Follow(<<>>, q \o a, r, Len(q) + (Chunks + 1))
<1> DEFINE i == Len(q) + (Chunks + 1)
<1>1. Chunks \in Nat /\ Len(q) \in Nat /\ i \in Nat /\ Len(<<>>) = 0 /\ Chunks < i
    BY CommandAssumption
<1>2. <<>> = [x \in 1..0 |-> x]
    OBVIOUS
<1>3. ASSUME NEW j \in DOMAIN (q \o a), (q \o a)[j].for = r PROVE j \in (i - Chunks)..i
    <2>1. \/ j \in DOMAIN q /\ (q \o a)[j] = q[j]
          \/ \E l \in DOMAIN a : j = Len(q) + l /\ (q \o a)[j] = a[l]
        BY InConcat
    <2>2. PICK l \in DOMAIN a : j = Len(q) + l
        BY <1>3, <2>1
    <2> QED BY <1>1, <2>2
<1>4. ASSUME NEW j \in 1..Chunks
      PROVE  /\ (q \o a)[i - j].for = r /\ (q \o a)[i - j].what = "chunk"
             /\ (q \o a)[i - j].chunk = Chunks + 1 - j
    <2>1. Chunks + 1 - j \in 1..Chunks /\ i - j = Len(q) + (Chunks + 1 - j)
        BY <1>1
    <2>2. \A l \in 1..Chunks : l \in DOMAIN a /\ (q \o a)[Len(q) + l] = a[l]
        BY <1>1
    <2> HIDE DEF i
    <2> QED BY <2>1, <2>2
<1> HIDE DEF i
<1>5. Chunks - Len(<<>>) = Chunks /\ Len(<<>>) <= Chunks
    BY <1>1
<1>6. Follow(<<>>, q \o a, r, i)
    BY <1>1, <1>2, <1>3, <1>4, <1>5 DEF Follow
<1> QED BY <1>6 DEF i

LEMMA StepFetches == ASSUME Types, Sockets, Fetches, [Next]_vars PROVE Fetches'
<1>1. ASSUME NEW r \in Requests, req'[r].pc = "fetching" PROVE r \in Opens
    BY <1>1, StepRequests DEF Fetches
<1> QED BY <1>1 DEF Fetches

\* What a request changes when it is made.
LEMMA AskRequests ==
    ASSUME Types, Sockets, NEW r \in Requests, AskNow(r) \/ AskAndConnect(r)
    PROVE  /\ req[r].pc = "unused" /\ \A q \in Requests : q # r => req'[q] = req[q]
           /\ StartLoading(r) /\ UNCHANGED <<down, task>>
<1>1. CASE AskAndConnect(r)
    BY <1>1, Asked DEF AskAndConnect
<1>2. CASE AskNow(r)
    <2>1. /\ r \in NextRequest /\ StartLoading(r) /\ UNCHANGED <<down, task>>
          /\ SendAll(ClientFor(r), {r}, current[ClientFor(r)], "open")
        BY <1>2 DEF AskNow
    <2>2. \A q \in Requests : q # r => req'[q] = req[q]
        BY <2>1 DEF SendAll
    <2> QED BY <2>1, <2>2 DEF NextRequest
<1> QED BY <1>1, <1>2

\* A request is under way from the moment it is made and never again.
LEMMA NewLoad ==
    ASSUME Types, Sockets, [Next]_vars, NEW r \in Requests, UnderWay(r)', ~UnderWay(r)
    PROVE  AskNow(r) \/ AskAndConnect(r)
<1>1. req'[r] # req[r]
    BY DEF UnderWay
<1>2. CASE \E q \in Requests : AskNow(q) \/ AskAndConnect(q)
    BY <1>1, <1>2, AskRequests
<1>3. ASSUME NEW s \in Requests, SocketOpens(s) PROVE FALSE
    <2> DEFINE c == owner[s]
               state == IF current[c] = None THEN "none" ELSE phase'[current[c]]
    <2>1. SendAll(c, Waiters(s), current[c], state) /\ phase[s] = "connecting"
        BY <1>3 DEF SocketOpens
    <2>2. c \in Requests /\ Waiters(s) \in SUBSET Requests
        BY <2>1, Owner DEF Waiters
    <2> HIDE DEF state, c
    <2>3. r \in Waiters(s)
        BY <1>1, <2>1 DEF SendAll
    <2> QED BY <2>3 DEF Waiters, UnderWay, Waiting
<1>4. ASSUME NEW s \in Requests, SocketFails(s) \/ SocketClosed(s) PROVE FALSE
    <2>1. PICK waiters \in {FailWaiters(s), {}} : HandleClose(s, waiters)
        BY <1>4 DEF SocketFails, SocketClosed
    <2>2. PICK rs : req' = Reject(rs) /\ \A q \in rs : q \in Requests => req[q].pc \in Waiting
        BY <2>1, Rejects
    <2>3. r \notin rs
        BY <2>2 DEF UnderWay
    <2> QED BY <1>1, <2>2, <2>3, RejectTypes
<1>5. ASSUME NEW s \in Requests,
             \/ Receive(s) \/ Accept(s) \/ Respond(s) \/ Fetched(s)
             \/ \E e \in pending[s] : TimesOut(s, e)
      PROVE  FALSE
    <2>1. \/ req'[r] = req[r]
          \/ req'[r].pc = "fetching" /\ r \in Opens /\ req[r].pc \in Waiting
          \/ req'[r].pc \in {"ok", "failed"} /\ UnderWay(r)
        BY <1>5, RestRequests
    <2> QED BY <1>1, <2>1 DEF UnderWay
<1>6. ASSUME NEW s \in Requests, SocketCloses(s) PROVE FALSE
    BY <1>1, <1>6 DEF SocketCloses
<1>7. ~ UNCHANGED vars
    BY <1>1 DEF vars
<1> QED BY <1>2, <1>3, <1>4, <1>5, <1>6, <1>7, Steps

\* While a file is opened nothing opens it again.
LEMMA AskAlone ==
    ASSUME Types, Sockets, ~Again, NEW r \in Opens, AskNow(r) \/ AskAndConnect(r)
    PROVE  /\ text' = [chunks |-> <<>>, loaded |-> FALSE]
           /\ \A q \in Opens : UnderWay(q)' => q = r
<1>1. r \in Requests /\ Opens \subseteq Requests
    BY CommandAssumption DEF Requests
<1>2. /\ text' = [chunks |-> <<>>, loaded |-> FALSE]
      /\ \A q \in Opens : ~UnderWay(q)
    BY <1>1, AskRequests DEF StartLoading
<1>3. \A q \in Opens : q # r => req'[q] = req[q]
    BY <1>1, AskRequests
<1> QED BY <1>2, <1>3 DEF UnderWay

LEMMA StepOneLoad == ASSUME Types, Sockets, OneLoad, ~Again, [Next]_vars PROVE OneLoad'
<1>1. SUFFICES ASSUME NEW q \in Opens, NEW r \in Opens, UnderWay(q)', UnderWay(r)' PROVE q = r
    BY DEF OneLoad
<1>2. q \in Requests /\ r \in Requests
    BY CommandAssumption DEF Requests
<1>3. CASE UnderWay(q) /\ UnderWay(r)
    BY <1>3 DEF OneLoad
<1>4. CASE ~UnderWay(q)
    BY <1>1, <1>2, <1>4, NewLoad, AskAlone
<1>5. CASE ~UnderWay(r)
    BY <1>1, <1>2, <1>5, NewLoad, AskAlone
<1> QED BY <1>3, <1>4, <1>5

LEMMA StepOver ==
    ASSUME Types, Types', Sockets, Once, [Next]_vars, NEW r \in Requests, task[r].pc = "over"
    PROVE  task'[r].pc = "over"
<1>1. CASE UNCHANGED task
    BY <1>1
<1>2. ASSUME NEW s \in Requests, Accept(s) PROVE task'[r].pc = "over"
    <2> DEFINE m == Head(up[s])
    <2>1. /\ task' = [task EXCEPT ![m.for] = [pc |-> "running", on |-> s, id |-> m.id]]
          /\ up[s] \in Seq(Commands) /\ up[s] # <<>>
        BY <1>2 DEF Accept, Types
    <2>2. m = up[s][1] /\ 1 \in DOMAIN up[s]
        BY <2>1
    <2> HIDE DEF m
    <2>3. m.for # r
        BY <2>2 DEF Once
    <2> QED BY <2>1, <2>3 DEF Types
<1>3. ASSUME NEW q \in Requests, Respond(q) PROVE task'[r].pc = "over"
    <2>1. PICK answers \in Seq(Answers) : Responds(q, answers)
        BY <1>3, Responded
    <2> QED BY <2>1 DEF Responds, TaskOver
<1>4. ASSUME NEW s \in Requests,
             \/ AskNow(s) \/ AskAndConnect(s) \/ SocketOpens(s) \/ SocketFails(s) \/ SocketCloses(s)
             \/ SocketClosed(s) \/ Receive(s) \/ Fetched(s) \/ \E e \in pending[s] : TimesOut(s, e)
      PROVE  UNCHANGED task
    BY <1>4 DEF AskNow, AskAndConnect, SocketOpens, SocketFails, SocketCloses, SocketClosed, HandleClose,
                Receive, Fetched, TimesOut
<1> QED BY <1>1, <1>2, <1>3, <1>4, Steps DEF vars

\* The answer that is taken is one to the request that waits for it.
LEMMA OwnTurn ==
    ASSUME Types, Sockets, Ids, Once, Entries, NEW s \in Requests, Receive(s),
           NEW e \in pending[owner[s]], Taken(s, e)
    PROVE  /\ e.for \in Requests /\ Head(down[s]).for = e.for /\ req[e.for].pc = "pending"
           /\ task[e.for].pc = "over" /\ task[e.for].on = s
           /\ Head(down[s]).what = "chunk" => e.for \in Opens
<1>1. Head(down[s]).for = e.for /\ e.for \in Requests
    BY OwnEntry DEF Taken
<1>2. owner[s] \in Requests /\ Head(down[s]) = down[s][1] /\ 1 \in DOMAIN down[s]
    <2>1. owner[s] \in Requests /\ Head(down[s]) = down[s][1] /\ down[s] \in Seq(Answers) /\ down[s] # <<>>
        BY Received
    <2> QED BY <2>1
<1>3. /\ task[e.for].pc = "over" /\ task[e.for].on = s
      /\ Head(down[s]).what = "chunk" => e.for \in Opens
    BY <1>1, <1>2 DEF Once
<1>4. req[e.for].pc = "pending"
    BY <1>2, <1>3 DEF Entries, Unsent
<1> QED BY <1>1, <1>3, <1>4

\* What an answer does to the text.
LEMMA TakenText ==
    ASSUME Types, NEW s \in Requests, NEW e, Taken(s, e)
    PROVE  /\ Head(down[s]).what # "chunk" => text'.chunks = text.chunks
           /\ Head(down[s]).what = "chunk" =>
                 text'.chunks = Append(text.chunks, Head(down[s]).chunk) /\ text'.loaded = FALSE
           /\ text'.loaded /\ ~text.loaded =>
                 Head(down[s]).what = "complete" /\ e.for \in Opens /\ text'.chunks = text.chunks
           /\ text'.loaded => text'.chunks = text.chunks
<1>1. text \in [chunks : Seq(Nat), loaded : BOOLEAN]
    BY DEF Types
<1>2. CASE text' = [chunks |-> Append(text.chunks, Head(down[s]).chunk), loaded |-> FALSE] /\ Head(down[s]).what = "chunk"
    BY <1>2
<1>3. ASSUME Head(down[s]).what = "complete",
             text' = [text EXCEPT !.loaded = @ \/ (e.for \in Opens /\ req[e.for].pc = "pending")]
      PROVE  /\ text'.chunks = text.chunks
             /\ text'.loaded = (text.loaded \/ (e.for \in Opens /\ req[e.for].pc = "pending"))
    BY <1>1, <1>3
<1>4. CASE Head(down[s]).what = "complete"
           /\ text' = [text EXCEPT !.loaded = @ \/ (e.for \in Opens /\ req[e.for].pc = "pending")]
    BY <1>3, <1>4
<1>5. CASE Head(down[s]).what = "error" /\ text' = text
    BY <1>5
<1> QED BY <1>2, <1>4, <1>5 DEF Taken

\* Where the working copy comes from.
LEMMA StepText ==
    ASSUME Types, Sockets, Fetches, ~Again, [Next]_vars
    PROVE  \/ text' = text
           \/ \E r \in Opens : /\ AskNow(r) \/ AskAndConnect(r)
                               /\ text' = [chunks |-> <<>>, loaded |-> FALSE]
           \/ \E r \in Opens : req[r].pc = "fetching" /\ Fetched(r) /\ text' = [chunks |-> File, loaded |-> TRUE]
           \/ \E s \in Requests : Receive(s) /\ \E e \in pending[owner[s]] : Taken(s, e)
<1>1. ASSUME NEW r \in Requests, AskNow(r) \/ AskAndConnect(r)
      PROVE  \/ text' = text
             \/ r \in Opens /\ text' = [chunks |-> <<>>, loaded |-> FALSE]
    BY <1>1, AskRequests DEF StartLoading
<1>2. ASSUME NEW r \in Requests, Fetched(r)
      PROVE  \/ text' = text
             \/ r \in Opens /\ req[r].pc = "fetching" /\ text' = [chunks |-> File, loaded |-> TRUE]
    BY <1>2 DEF Fetched, Fetches
<1>3. ASSUME NEW s \in Requests, Receive(s)
      PROVE  text' = text \/ \E e \in pending[owner[s]] : Taken(s, e)
    BY <1>3, Received
<1>4. ASSUME NEW s \in Requests,
             \/ SocketOpens(s) \/ SocketFails(s) \/ SocketCloses(s) \/ SocketClosed(s)
             \/ Accept(s) \/ Respond(s) \/ \E e \in pending[s] : TimesOut(s, e)
      PROVE  text' = text
    BY <1>4 DEF SocketOpens, SocketFails, SocketCloses, SocketClosed, HandleClose, Accept, Respond, TimesOut
<1>5. ASSUME UNCHANGED vars PROVE text' = text
    BY <1>5 DEF vars
<1> QED BY <1>1, <1>2, <1>3, <1>4, <1>5, Steps

LEMMA StepBefore ==
    ASSUME Types, Types', Sockets, Once, [Next]_vars, NEW r \in Requests, Before(r)'
    PROVE  Before(r) \/ AskNow(r) \/ AskAndConnect(r)
<1>1. UnderWay(r)'
    BY DEF Before, UnderWay, Waiting
<1>2. task[r].pc = "over" => task'[r].pc = "over"
    BY StepOver
<1>3. CASE UnderWay(r)
    <2>1. req'[r].pc = "connecting" \/ (req'[r].pc = "pending" /\ task'[r].pc # "over")
        BY DEF Before
    <2>2. req[r].pc \in {"connecting", "pending", "fetching"}
        BY <1>3 DEF UnderWay, Waiting
    <2>3. req'[r] = req[r] \/ req[r].pc \in {"unused", "connecting"}
        BY <2>1, StepRequests DEF Made
    <2> QED BY <1>2, <2>1, <2>2, <2>3 DEF Before
<1>4. CASE ~UnderWay(r)
    BY <1>1, <1>4, NewLoad
<1> QED BY <1>3, <1>4

\* The text of an open that nothing answered yet is not touched by another's answers.
LEMMA StepBlank ==
    ASSUME Types, Types', Sockets, Ids, Once, Entries, Loading, ~Again, [Next]_vars
    PROVE  Blank'
<1>1. SUFFICES ASSUME NEW r \in Opens, Before(r)' PROVE text'.chunks = <<>>
    BY DEF Blank
<1>2. Opens \subseteq Requests
    BY CommandAssumption DEF Requests
<1>3. CASE AskNow(r) \/ AskAndConnect(r)
    BY <1>3, AskAlone
<1>4. CASE Before(r)
    <2>1. text.chunks = <<>> /\ UnderWay(r)
        BY <1>4 DEF Loading, Blank, Before, UnderWay, Waiting
    <2>2. \A q \in Opens : UnderWay(q) => q = r
        BY <2>1 DEF Loading, OneLoad
    <2>3. ASSUME NEW q \in Opens, req[q].pc = "fetching" PROVE FALSE
        BY <1>4, <2>2, <2>3 DEF UnderWay, Before
    <2>4. ASSUME NEW s \in Requests, Receive(s), NEW e \in pending[owner[s]], Taken(s, e)
          PROVE  text'.chunks = text.chunks
        <3>1. Head(down[s]).what # "chunk"
            <4>1. /\ e.for \in Requests /\ req[e.for].pc = "pending" /\ task[e.for].pc = "over"
                  /\ Head(down[s]).what = "chunk" => e.for \in Opens
                BY <2>4, OwnTurn
            <4>2. Head(down[s]).what = "chunk" => e.for = r
                BY <2>2, <4>1 DEF UnderWay, Waiting
            <4> QED BY <1>4, <4>1, <4>2 DEF Before
        <3> QED BY <2>4, <3>1, TakenText
    <2>5. Fetches
        BY DEF Loading
    <2> QED BY <2>1, <2>3, <2>4, <2>5, StepText
<1> QED BY <1>1, <1>2, <1>3, <1>4, StepBefore

\* The complete that marks the file as loaded is the one after its last chunk.
LEMMA StepWhole ==
    ASSUME Types, Types', Sockets, Ids, Once, Entries, Loading, ~Again, [Next]_vars
    PROVE  LoadedWhole'
<1>1. CASE text' = text
    BY <1>1 DEF Loading, LoadedWhole
<1>2. CASE text'.loaded = FALSE \/ text'.chunks = File
    BY <1>2 DEF LoadedWhole
<1>3. ASSUME NEW s \in Requests, Receive(s), NEW e \in pending[owner[s]], Taken(s, e), text'.loaded, ~text.loaded
      PROVE  text'.chunks = File
    <2>1. Head(down[s]).what = "complete" /\ e.for \in Opens /\ text'.chunks = text.chunks
        BY <1>3, TakenText
    <2>2. /\ down[s] \in Seq(Answers) /\ down[s] # <<>> /\ Head(down[s]) = down[s][1]
          /\ Head(down[s]).for = e.for /\ req[e.for].pc = "pending"
        BY <1>3, OwnTurn, Received
    <2>3. Rest(e.for, s, 1)
        <3>1. 1 \in DOMAIN down[s]
            BY <2>2
        <3> QED BY <2>1, <2>2, <3>1 DEF Loading, Coming
    <2>4. text.chunks \in Seq(Nat)
        BY DEF Types
    <2> QED BY <2>1, <2>3, <2>4, FollowEnd DEF Rest
<1>4. ASSUME NEW s \in Requests, Receive(s), NEW e \in pending[owner[s]], Taken(s, e), text'.loaded, text.loaded
      PROVE  text'.chunks = File
    BY <1>4, TakenText DEF Loading, LoadedWhole
<1>5. Fetches /\ text' \in [chunks : Seq(Nat), loaded : BOOLEAN] /\ text \in [chunks : Seq(Nat), loaded : BOOLEAN]
    BY DEF Loading, Types
<1> QED BY <1>1, <1>2, <1>3, <1>4, <1>5, StepText DEF LoadedWhole

\* The place of the complete of an open, and what is before it, when an answer is taken.
LEMMA ReceiveComing ==
    ASSUME Types, Types', Sockets, Ids, Commanded, Once, Entries, Kept, Loading,
           NEW t \in Requests, Receive(t), NEW r \in Opens, req[r].pc = "pending", NEW s \in Requests,
           NEW i \in DOMAIN down'[s], down'[s][i].for = r, down'[s][i].what = "complete"
    PROVE  Rest(r, s, i)'
<1> DEFINE m == Head(down[t])
<1>1. /\ owner[t] \in Requests /\ down[t] \in Seq(Answers) /\ down[t] # <<>> /\ m = down[t][1]
      /\ 1 \in DOMAIN down[t]
      /\ \A u \in Requests : down'[u] = IF u = t THEN Tail(down[t]) ELSE down[u]
    <2>1. /\ owner[t] \in Requests /\ down[t] \in Seq(Answers) /\ down[t] # <<>> /\ m = down[t][1]
          /\ down' = [down EXCEPT ![t] = Tail(@)]
        BY Received
    <2>2. 1 \in DOMAIN down[t]
        BY <2>1
    <2> QED BY <2>1, <2>2 DEF Types
<1>2. r \in Requests /\ text.chunks \in Seq(Nat) /\ \A q \in Opens : UnderWay(q) => q = r
    BY CommandAssumption DEF Requests, Types, Loading, OneLoad, UnderWay, Waiting
<1> HIDE DEF m
\* Only a chunk of r itself changes the text.
<1>3. text'.chunks = text.chunks \/ (m.for = r /\ task[r].on = t)
    <2>1. CASE UNCHANGED text
        BY <2>1
    <2>2. ASSUME NEW e \in pending[owner[t]], Taken(t, e), text'.chunks # text.chunks
          PROVE  m.for = r /\ task[r].on = t
        <3>1. m.what = "chunk"
            BY <2>2, TakenText DEF m
        <3>2. /\ m.for = e.for /\ req[e.for].pc = "pending" /\ task[e.for].on = t /\ e.for \in Opens
            BY <2>2, <3>1, OwnTurn DEF m
        <3> QED BY <1>2, <3>2 DEF UnderWay, Waiting
    <2> QED BY <2>1, <2>2, Received
<1>4. CASE s # t
    <2>1. down'[s] = down[s] /\ i \in DOMAIN down[s]
        BY <1>1, <1>4
    <2>2. Rest(r, s, i)
        BY <2>1 DEF Loading, Coming
    <2>3. task[r].on = s
        BY <2>1 DEF Once
    <2>4. text'.chunks = text.chunks
        BY <1>3, <1>4, <2>3
    <2> QED BY <2>1, <2>2, <2>4 DEF Rest
<1>5. CASE s = t
    <2>1. down'[s] = Tail(down[s]) /\ i \in DOMAIN Tail(down[s]) /\ down[s] \in Seq(Answers) /\ down[s] # <<>>
        BY <1>1, <1>5
    <2>2. i + 1 \in DOMAIN down[s] /\ Tail(down[s])[i] = down[s][i + 1]
        BY <2>1
    <2>3. Follow(text.chunks, down[s], r, i + 1)
        BY <2>1, <2>2 DEF Loading, Coming, Rest
    <2>4. CASE down[s][1].for # r
        <3>1. text'.chunks = text.chunks
            BY <1>1, <1>3, <1>5, <2>4
        <3>2. Follow(text.chunks, Tail(down[s]), r, i)
            BY <1>2, <2>1, <2>3, <2>4, FollowTail
        <3> QED BY <2>1, <3>1, <3>2 DEF Rest
    <2>5. CASE down[s][1].for = r
        <3>1. down[s][1].what = "chunk" /\ Follow(Append(text.chunks, down[s][1].chunk), Tail(down[s]), r, i)
            BY <1>2, <2>1, <2>3, <2>5, FollowChunk
        <3>2. PICK j \in Nat : Command(j, r) \in pending[req[r].client]
            BY <1>2 DEF Kept
        <3>3. req[r].client = owner[t] /\ m.id = j
            <4>1. req[r].client \in Requests
                BY <1>2 DEF Kept
            <4>2. Command(j, r).for = r /\ Command(j, r).id = j
                BY DEF Command
            <4> QED BY <1>1, <1>5, <2>5, <3>2, <4>1, <4>2, OneEntry
        <3>4. PICK e \in pending[owner[t]] : Taken(t, e)
            <4>1. ~ (\A e \in pending[owner[t]] : e.id # m.id)
                <5>1. Command(j, r).id = j
                    BY DEF Command
                <5> QED BY <3>2, <3>3, <5>1
            <4> QED BY <4>1, Received DEF m
        <3>5. text'.chunks = Append(text.chunks, down[s][1].chunk)
            BY <1>1, <1>5, <3>1, <3>4, TakenText DEF m
        <3> QED BY <2>1, <3>1, <3>5 DEF Rest
    <2> QED BY <2>4, <2>5
<1> QED BY <1>4, <1>5

\* The same when answers are put behind.
LEMMA RespondComing ==
    ASSUME Types, Types', Sockets, Once, Loading,
           NEW q \in Requests, Respond(q), NEW r \in Opens, req[r].pc = "pending", NEW s \in Requests,
           NEW i \in DOMAIN down'[s], down'[s][i].for = r, down'[s][i].what = "complete"
    PROVE  Rest(r, s, i)'
<1>1. PICK a \in Seq(Answers) : Responds(q, a)
    BY Responded
<1>2. /\ task[q].pc = "running" /\ \A l \in DOMAIN a : a[l].for = q
      /\ \/ /\ Len(a) = 1 /\ a[1].what = "error"
         \/ /\ q \notin Opens /\ Len(a) = 1 /\ a[1].what = "complete"
         \/ /\ q \in Opens /\ Len(a) = Chunks + 1 /\ a[Chunks + 1].what = "complete"
            /\ \A k \in 1..Chunks : a[k].what = "chunk" /\ a[k].chunk = k
      /\ down'[s] \in {down[s], down[s] \o a}
    BY <1>1 DEF Responds, TaskOver
<1>3. text' = text /\ down[s] \in Seq(Answers) /\ text.chunks \in Seq(Nat) /\ Chunks \in Nat
    BY CommandAssumption DEF Respond, Types
<1>4. \A k \in DOMAIN down[s] : down[s][k].for # q
    BY <1>2 DEF Once
<1>5. CASE i \in DOMAIN down[s] /\ down'[s][i] = down[s][i]
    <2>1. Rest(r, s, i) /\ q # r
        BY <1>4, <1>5 DEF Loading, Coming
    <2>2. CASE down'[s] = down[s]
        BY <1>3, <2>1, <2>2 DEF Rest
    <2>3. CASE down'[s] = down[s] \o a
        <3>1. \A l \in DOMAIN a : a[l].for # r
            BY <1>2, <2>1
        <3>2. Follow(text.chunks, down[s] \o a, r, i)
            BY <1>3, <1>5, <2>1, <3>1, FollowMore DEF Rest
        <3> QED BY <1>3, <2>3, <3>2 DEF Rest
    <2> QED BY <1>2, <2>2, <2>3
<1>6. CASE down'[s] = down[s] \o a /\ \E l \in DOMAIN a : i = Len(down[s]) + l /\ down'[s][i] = a[l]
    <2>1. PICK l \in DOMAIN a : i = Len(down[s]) + l /\ down'[s][i] = a[l]
        BY <1>6
    <2>2. q = r
        BY <1>2, <2>1
    <2>3. l \in 1..Len(a)
        OBVIOUS
    <2>4. /\ Len(a) = Chunks + 1 /\ l = Chunks + 1
          /\ \A k \in 1..Chunks : a[k].what = "chunk" /\ a[k].chunk = k
        <3>1. l = 1 => a[l].what = a[1].what
            OBVIOUS
        <3>2. ~ (Len(a) = 1 /\ a[1].what = "error")
            BY <2>1, <2>3
        <3>3. \A k \in 1..Chunks : l # k \/ a[k].what # "chunk"
            BY <2>1
        <3> QED BY <1>2, <1>3, <2>2, <2>3, <3>2, <3>3
    <2>5. text.chunks = <<>>
        BY <1>2, <2>2 DEF Loading, Blank, Before
    <2>6. \A k \in DOMAIN down[s] : down[s][k].for # r
        BY <1>4, <2>2
    <2>7. \A k \in DOMAIN a : a[k].for = r
        BY <1>2, <2>2
    <2>8. Follow(<<>>, down[s] \o a, r, Len(down[s]) + (Chunks + 1))
        BY <1>3, <2>4, <2>6, <2>7, FollowAll
    <2> QED BY <1>3, <1>6, <2>1, <2>4, <2>5, <2>8 DEF Rest
<1>7. \/ i \in DOMAIN down[s] /\ down'[s][i] = down[s][i]
      \/ down'[s] = down[s] \o a /\ \E l \in DOMAIN a : i = Len(down[s]) + l /\ down'[s][i] = a[l]
    <2>1. CASE down'[s] = down[s]
        BY <2>1
    <2>2. CASE down'[s] = down[s] \o a
        <3>1. i \in DOMAIN (down[s] \o a)
            BY <2>2
        <3>2. \/ i \in DOMAIN down[s] /\ (down[s] \o a)[i] = down[s][i]
              \/ \E l \in DOMAIN a : i = Len(down[s]) + l /\ (down[s] \o a)[i] = a[l]
            BY <1>3, <3>1, InConcat
        <3> QED BY <2>2, <3>2
    <2> QED BY <1>2, <2>1, <2>2
<1> QED BY <1>5, <1>6, <1>7

LEMMA StepComing ==
    ASSUME Types, Types', Sockets, Ids, Commanded, Once, Entries, Kept, Loading, ~Again, [Next]_vars
    PROVE  Coming'
<1>1. SUFFICES ASSUME NEW r \in Opens, NEW s \in Requests, req'[r].pc = "pending", NEW i \in DOMAIN down'[s],
                      down'[s][i].for = r, down'[s][i].what = "complete"
               PROVE  Rest(r, s, i)'
    BY DEF Coming
<1>2. r \in Requests
    BY CommandAssumption DEF Requests
<1>3. CASE down'[s] = down[s] \/ down'[s] = <<>>
    <2>1. down'[s] = down[s] /\ i \in DOMAIN down[s]
        BY <1>3
    <2>2. req[r].pc = "pending"
        <3>1. req'[r] = req[r] \/ ~Made(r)
            BY <1>1, <1>2, StepRequests
        <3>2. Made(r)
            BY <1>1, <1>2, <2>1, NotMade
        <3> QED BY <1>1, <3>1, <3>2
    <2>3. Rest(r, s, i)
        BY <1>1, <2>1, <2>2 DEF Loading, Coming
    <2>4. CASE text' = text
        BY <2>1, <2>3, <2>4 DEF Rest
    <2>5. ASSUME NEW q \in Opens, AskNow(q) \/ AskAndConnect(q) PROVE FALSE
        <3>1. q \in Requests /\ ~UnderWay(r) 
            <4>1. q \in Requests
                BY CommandAssumption DEF Requests
            <4>2. StartLoading(q)
                BY <2>5, <4>1, AskRequests
            <4> QED BY <4>1, <4>2 DEF StartLoading
        <3> QED BY <2>2, <3>1 DEF UnderWay, Waiting
    <2>6. ASSUME NEW q \in Opens, req[q].pc = "fetching" PROVE FALSE
        BY <2>2, <2>6 DEF Loading, OneLoad, UnderWay, Waiting
    <2>7. ASSUME NEW t \in Requests, Receive(t) PROVE Rest(r, s, i)'
        BY <1>1, <2>2, <2>7, ReceiveComing
    <2>8. Fetches
        BY DEF Loading
    <2> QED BY <2>4, <2>5, <2>6, <2>7, <2>8, StepText
<1>4. ASSUME NEW t \in Requests, Receive(t) PROVE Rest(r, s, i)'
    <2>1. \/ req'[r] = req[r]
          \/ req'[r].pc = "fetching"
          \/ req'[r].pc \in {"ok", "failed"}
        BY <1>2, <1>4, RestRequests
    <2> QED BY <1>1, <1>4, <2>1, ReceiveComing
<1>5. ASSUME NEW q \in Requests, Respond(q) PROVE Rest(r, s, i)'
    <2>1. req' = req
        BY <1>5 DEF Respond
    <2> QED BY <1>1, <1>5, <2>1, RespondComing
<1>6. ASSUME NEW t \in Requests, SocketFails(t) \/ SocketClosed(t) PROVE down'[s] = down[s] \/ down'[s] = <<>>
    <2>1. down' = [down EXCEPT ![t] = <<>>]
        BY <1>6 DEF SocketFails, SocketClosed, HandleClose
    <2> QED BY <2>1 DEF Types
<1>7. ASSUME NEW t \in Requests,
             \/ AskNow(t) \/ AskAndConnect(t) \/ SocketOpens(t) \/ SocketCloses(t)
             \/ Accept(t) \/ Fetched(t) \/ \E e \in pending[t] : TimesOut(t, e)
      PROVE  down' = down
    BY <1>7 DEF AskNow, AskAndConnect, SocketOpens, SocketCloses, Accept, Fetched, TimesOut, wireVars
<1> QED BY <1>3, <1>4, <1>5, <1>6, <1>7, Steps DEF vars, wireVars

LEMMA StepLoading ==
    ASSUME Types, Sockets, Ids, Commanded, Once, Entries, Kept, Loading, ~Again, [Next]_vars
    PROVE  Loading'
<1>1. Types'
    BY StepTypes
<1>2. Fetches /\ OneLoad
    BY DEF Loading
<1> QED BY <1>1, <1>2, StepFetches, StepOneLoad, StepWhole, StepBlank, StepComing DEF Loading

LEMMA CommandsHold == Spec => [](Commanded /\ Once /\ Entries)
<1> DEFINE All == Commanded /\ Once /\ Entries
<1>1. Init => All
    BY DEF Init, Commanded, Once, Entries, Issued
<1>2. Types /\ Sockets /\ Ids /\ All /\ [Next]_vars => All'
    BY StepCommanded, StepOnce, StepEntries
<1> QED BY <1>1, <1>2, TypeCorrect, IdsHold, PTL DEF Spec

\* A file that counts as loaded is the file, whole and once, whatever was lost, late or
\* fetched over HTTP, as long as it is not opened again while it is being opened (openFile,
\* appendChunk, finishLoading).
THEOREM LoadedIsWhole == ASSUME ~Again PROVE Spec => []LoadedWhole
<1>1. Init => Loading
    <2>1. ASSUME Init, NEW r \in Opens
          PROVE  req[r].pc = "unused" /\ text.chunks = <<>>
        BY <2>1, CommandAssumption DEF Init, Requests
    <2>2. ASSUME Init, NEW s \in Requests PROVE DOMAIN down[s] = {}
        BY <2>2 DEF Init
    <2>3. Init => ~text.loaded /\ \A r \in Requests : req[r].pc = "unused"
        BY DEF Init
    <2> QED BY <2>1, <2>2, <2>3 DEF Loading, Fetches, OneLoad, LoadedWhole, Blank, Coming, Before, UnderWay, Waiting
<1>2. Types /\ Sockets /\ Ids /\ Commanded /\ Once /\ Entries /\ Kept /\ Loading /\ [Next]_vars => Loading'
    BY StepLoading
<1>3. Loading => LoadedWhole
    BY DEF Loading
<1> QED BY <1>1, <1>2, <1>3, TypeCorrect, IdsHold, KeptHold, CommandsHold, PTL DEF Spec
=============================================================================
