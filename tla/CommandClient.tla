---------------------------- MODULE CommandClient ----------------------------
(***************************************************************************)
(* The command WebSocket of a session: the clients of one page             *)
(* (sessionCommandClient.js), the gateway's end, which carries out each    *)
(* command in a task of its own (commands.rs), and openFile, which puts    *)
(* the chunks of buffer.open together and turns to HTTP when the command   *)
(* fails (useRemoteWorkspace.js, bufferRuntime.js).                        *)
(*                                                                         *)
(* JavaScript runs a callback and the promise reactions it causes to their *)
(* end, so each callback is one action.  Requests are numbered as they are *)
(* made; a client and a socket bear the number of the request that created *)
(* them, 0 is none.                                                        *)
(***************************************************************************)
EXTENDS Naturals, Sequences, FiniteSets

CONSTANTS
    MaxRequests,    \* bound: requests of the page
    Opens,          \* those of them that open the file; the others are saves, syncs, trees
    Chunks,         \* chunks of the file
    MaxFaults,      \* bound: sockets that close once they were open
    Again           \* the file may be opened while it is still being opened

ASSUME CommandAssumption ==
    /\ MaxRequests \in Nat \ {0} /\ Opens \subseteq 1..MaxRequests
    /\ Chunks \in Nat /\ MaxFaults \in Nat /\ Again \in BOOLEAN

VARIABLES
    registered,                         \* commandClients: the session's client
    current, promise, nextId, pending,  \* socket, connectPromise, nextId, pending of a client
    phase, owner,                       \* readyState of a socket, and its client
    up, down,                           \* commands and answers on the way
    req,                                \* the promise of each request
    task,                               \* the gateway's task for each request
    text,                               \* the working copy of the file
    faults,                             \* counter of the bound
    raced                               \* history: a socket was created while one was closing

clientVars == <<registered, current, promise, nextId, pending>>
wireVars == <<phase, owner, up, down>>
vars == <<clientVars, wireVars, req, task, text, faults, raced>>

None == 0
Requests == 1..MaxRequests
File == [i \in 1..Chunks |-> i]

\* A command envelope; "for" is history, the request it was made for.
Command(i, r) == [id |-> i, for |-> r]
Answer(m, what, n) == [id |-> m.id, for |-> m.for, what |-> what, chunk |-> n]

Waiting == {"connecting", "pending"}
UnderWay(r) == req[r].pc \in Waiting \cup {"fetching"}

Init ==
    /\ registered = None
    /\ current = [c \in Requests |-> None] /\ promise = [c \in Requests |-> None]
    /\ nextId = [c \in Requests |-> 1] /\ pending = [c \in Requests |-> {}]
    /\ phase = [s \in Requests |-> "none"] /\ owner = [s \in Requests |-> None]
    /\ up = [s \in Requests |-> <<>>] /\ down = [s \in Requests |-> <<>>]
    /\ req = [r \in Requests |-> [pc |-> "unused", client |-> None, on |-> None, from |-> None]]
    /\ task = [r \in Requests |-> [pc |-> "none", on |-> None, id |-> 0]]
    /\ text = [chunks |-> <<>>, loaded |-> FALSE]
    /\ faults = 0 /\ raced = FALSE

-----------------------------------------------------------------------------
(* Requests                                                                *)

\* A promise is rejected; openFile then asks for the file over HTTP.
Rejected(r) == IF r \in Opens THEN "fetching" ELSE "failed"
Reject(rs) == [r \in Requests |-> IF r \in rs THEN [req[r] EXCEPT !.pc = Rejected(r)] ELSE req[r]]

\* Mutant: ids are given again once their entries are gone
FreeId(c) == CHOOSE i \in 1..(Cardinality(pending[c]) + 1) : \A e \in pending[c] : e.id # i

FirstId(c) == nextId[c]

\* send, after connect: the requests rs of client c get socket s, whose readyState is
\* state.  The entry is made before socket.send, which throws when there is no socket or
\* it is still connecting, and discards the command when it is closing.
SendAll(c, rs, s, state) ==
    LET place(r) == Cardinality({q \in rs : q < r})
        new == {Command(FirstId(c) + place(r), r) : r \in rs}
        throws == s = None \/ state = "connecting"
    IN /\ nextId' = [nextId EXCEPT ![c] = @ + Cardinality(rs)]
       /\ pending' = [pending EXCEPT ![c] =
                         {e \in @ : \A m \in new : m.id # e.id} \cup new]
       /\ req' = [r \in Requests |->
                     IF r \notin rs THEN req[r]
                     ELSE [req[r] EXCEPT !.pc = IF throws THEN Rejected(r) ELSE "pending",
                                         !.client = c, !.on = s]]
       /\ up' = IF state # "open" THEN up
                ELSE [up EXCEPT ![s] = @ \o [i \in 1..Cardinality(rs) |->
                         CHOOSE m \in new : place(m.for) = i - 1]]

\* Requests are made in order.
NextRequest == {r \in Requests : req[r].pc = "unused" /\ \A q \in 1..(r - 1) : req[q].pc # "unused"}

\* startLoading, when the request opens the file
StartLoading(r) ==
    IF r \in Opens
    THEN /\ Again \/ \A q \in Opens : ~UnderWay(q)
         /\ text' = [chunks |-> <<>>, loaded |-> FALSE]
    ELSE UNCHANGED text

\* Mutant: connect does not look for a connection that is being made
NotShared(c) == None

ConnectPromise(c) == promise[c]

ClientFor(r) == IF registered = None THEN r ELSE registered

\* getSessionCommandClient, connect and send: the socket is open
AskNow(r) ==
    LET c == ClientFor(r) IN
    /\ r \in NextRequest
    /\ StartLoading(r)
    /\ current[c] # None /\ phase[current[c]] = "open"
    /\ registered' = c
    /\ SendAll(c, {r}, current[c], "open")
    /\ UNCHANGED <<current, promise, phase, owner, down, task, faults, raced>>

\* The same when it is not: wait for the connection that is being made, or make one.
AskAndConnect(r) ==
    LET c == ClientFor(r)
        s == IF ConnectPromise(c) # None THEN ConnectPromise(c) ELSE r
        stale == current[c] # None /\ phase[current[c]] = "closing"
    IN
    /\ r \in NextRequest
    /\ StartLoading(r)
    /\ current[c] # None => phase[current[c]] # "open"
    /\ registered' = c
    /\ req' = [req EXCEPT ![r] = [@ EXCEPT !.pc = "connecting", !.client = c, !.on = s]]
    /\ IF s = r
       THEN /\ current' = [current EXCEPT ![c] = r]
            /\ promise' = [promise EXCEPT ![c] = r]
            /\ phase' = [phase EXCEPT ![r] = "connecting"]
            /\ owner' = [owner EXCEPT ![r] = c]
       ELSE /\ current' = IF stale THEN [current EXCEPT ![c] = None] ELSE current
            /\ UNCHANGED <<promise, phase, owner>>
    /\ raced' = (raced \/ stale)
    /\ UNCHANGED <<nextId, pending, up, down, task, faults>>

Waiters(s) == {r \in Requests : req[r].pc = "connecting" /\ req[r].on = s}

\* onopen resolves with what the variable socket holds by then.
SocketOpens(s) ==
    LET c == owner[s] IN
    /\ phase[s] = "connecting"
    /\ phase' = [phase EXCEPT ![s] = "open"]
    /\ promise' = [promise EXCEPT ![c] = None]
    /\ SendAll(c, Waiters(s), current[c],
               IF current[c] = None THEN "none" ELSE phase'[current[c]])
    /\ UNCHANGED <<registered, current, owner, down, task, text, faults, raced>>

\* Mutant: those who wait for the connection are forgotten
FailNobody(s) == {}

FailWaiters(s) == Waiters(s)

\* Mutant: the requests already sent are left to their timers
RejectNone(c) == {}

RejectPending(c) == pending[c]

ClearSocket(c) == current' = [current EXCEPT ![c] = None]

\* onclose, whichever socket of the client it is; waiters are those whom onerror rejects.
\* Only a promise that has not settled is rejected.
HandleClose(s, waiters) ==
    LET c == owner[s] IN
    /\ phase' = [phase EXCEPT ![s] = "closed"]
    /\ promise' = [promise EXCEPT ![c] = None]
    /\ ClearSocket(c)
    /\ req' = Reject(waiters \cup {r \in Requests :
                        req[r].pc = "pending" /\ \E e \in RejectPending(c) : e.for = r})
    /\ pending' = [pending EXCEPT ![c] = {}]
    /\ registered' = None
    /\ down' = [down EXCEPT ![s] = <<>>]
    /\ UNCHANGED <<nextId, owner, up, task, text, raced>>

\* onerror and onclose of a socket that never opened
SocketFails(s) ==
    /\ phase[s] = "connecting"
    /\ HandleClose(s, FailWaiters(s))
    /\ UNCHANGED faults

\* A close frame came; onclose follows when the connection is down.
SocketCloses(s) ==
    /\ phase[s] = "open" /\ faults < MaxFaults
    /\ phase' = [phase EXCEPT ![s] = "closing"]
    /\ faults' = faults + 1
    /\ UNCHANGED <<clientVars, owner, up, down, req, task, text, raced>>

SocketClosed(s) ==
    \/ phase[s] = "closing" /\ HandleClose(s, {}) /\ UNCHANGED faults
    \/ phase[s] = "open" /\ faults < MaxFaults /\ HandleClose(s, {}) /\ faults' = faults + 1

-----------------------------------------------------------------------------
(* Answers                                                                 *)

\* Mutant: the entry outlives its request
KeepEntry(c, i) == UNCHANGED pending

Forget(c, i) == pending' = [pending EXCEPT ![c] = {e \in @ : e.id # i}]

Settle(r, pc, from) ==
    req' = IF req[r].pc \notin Waiting THEN req
           ELSE [req EXCEPT ![r] = [@ EXCEPT !.pc = pc, !.from = from]]

\* onmessage: an answer without an entry is dropped.  appendChunk takes the file for
\* partly loaded again; finishLoading, after complete, takes what there is for its content.
Receive(s) ==
    LET m == Head(down[s])
        c == owner[s]
        entry == {e \in pending[c] : e.id = m.id}
    IN
    /\ phase[s] = "open" /\ down[s] # <<>>
    /\ down' = [down EXCEPT ![s] = Tail(@)]
    /\ IF entry = {} THEN UNCHANGED <<pending, req, text>>
       ELSE LET r == (CHOOSE e \in entry : TRUE).for IN
            CASE m.what = "chunk" ->
                   /\ text' = [chunks |-> Append(text.chunks, m.chunk), loaded |-> FALSE]
                   /\ UNCHANGED <<pending, req>>
              [] m.what = "complete" ->
                   /\ pending' = [pending EXCEPT ![c] = @ \ entry]
                   /\ Settle(r, "ok", m.for)
                   /\ text' = [text EXCEPT !.loaded = @ \/ (r \in Opens /\ req[r].pc = "pending")]
              [] m.what = "error" ->
                   /\ pending' = [pending EXCEPT ![c] = @ \ entry]
                   /\ Settle(r, Rejected(r), m.for)
                   /\ UNCHANGED text
    /\ UNCHANGED <<registered, current, promise, nextId, phase, owner, up, task, faults, raced>>

\* The timer of an entry: 30 s, or 120 s for an open
TimesOut(c, e) ==
    /\ e \in pending[c]
    /\ Forget(c, e.id)
    /\ Settle(e.for, Rejected(e.for), None)
    /\ UNCHANGED <<registered, current, promise, nextId, wireVars, task, text, faults, raced>>

\* openFile's catch: GET /file, then setContent and markSaved, or failLoading
Fetched(r) ==
    /\ req[r].pc = "fetching"
    /\ req' = [req EXCEPT ![r] = [@ EXCEPT !.pc = "failed"]]
    /\ text' \in {text, [chunks |-> File, loaded |-> TRUE]}
    /\ UNCHANGED <<clientVars, wireVars, task, faults, raced>>

-----------------------------------------------------------------------------
(* The gateway                                                             *)

\* command_socket reads a command and spawns its task.
Accept(s) ==
    /\ phase[s] = "open" /\ up[s] # <<>>
    /\ LET m == Head(up[s]) IN
       task' = [task EXCEPT ![m.for] = [pc |-> "running", on |-> s, id |-> m.id]]
    /\ up' = [up EXCEPT ![s] = Tail(@)]
    /\ UNCHANGED <<clientVars, phase, owner, down, req, text, faults, raced>>

\* The answers of a command go into the queue of its socket together; when the socket's
\* loop has ended they go nowhere.
Respond(r) ==
    LET t == task[r]
        m == Command(t.id, r)
        chunks == IF r \in Opens THEN [i \in 1..Chunks |-> Answer(m, "chunk", i)] ELSE <<>>
    IN
    /\ t.pc = "running"
    /\ task' = [task EXCEPT ![r].pc = "over"]
    /\ \E answers \in {Append(chunks, Answer(m, "complete", 0)), <<Answer(m, "error", 0)>>} :
          down' = IF phase[t.on] # "open" THEN down
                  ELSE [down EXCEPT ![t.on] = @ \o answers]
    /\ UNCHANGED <<clientVars, phase, owner, up, req, text, faults, raced>>

-----------------------------------------------------------------------------
Next ==
    \/ \E r \in Requests : AskNow(r) \/ AskAndConnect(r) \/ Fetched(r) \/ Respond(r)
    \/ \E s \in Requests : SocketOpens(s) \/ SocketFails(s) \/ SocketCloses(s)
                           \/ SocketClosed(s) \/ Receive(s) \/ Accept(s)
    \/ \E c \in Requests : \E e \in pending[c] : TimesOut(c, e)

Spec == Init /\ [][Next]_vars

\* A connection is made or fails, and timers fire.
Fairness ==
    /\ \A s \in Requests : WF_vars(SocketOpens(s) \/ SocketFails(s))
    /\ \A c \in Requests : WF_vars(\E e \in pending[c] : TimesOut(c, e))

FairSpec == Spec /\ Fairness

-----------------------------------------------------------------------------
(* Properties                                                              *)

\* The answer a promise settles with is the one to its own command, whatever timed out,
\* closed or was reconnected before (nextId, pending).
AnswerOwn == \A r \in Requests : req[r].from \in {None, r}

\* A page has one socket for the session, however its requests overlap the making of the
\* connection (connectPromise, commandClients), unless one was made while another was
\* closing.
OneSocket ==
    ~raced => Cardinality({s \in Requests : phase[s] \in {"connecting", "open", "closing"}}) <= 1

\* With the same exception a request learns at once that its socket is closed and is not
\* left to its timer (rejectPending).
ToldOfClose ==
    ~raced => \A r \in Requests : req[r].pc = "pending" => phase[req[r].on] # "closed"

\* A file that counts as loaded is the file, whole and once, whether it came by chunks, by
\* HTTP after some of the chunks, or with chunks that are late (openFile, appendChunk).
LoadedWhole == text.loaded => text.chunks = File

\* Every promise settles (connectPromise, the timer of each entry).
Settles == \A r \in Requests : req[r].pc \in Waiting ~> req[r].pc \notin Waiting
=============================================================================
