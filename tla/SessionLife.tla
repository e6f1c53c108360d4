----------------------------- MODULE SessionLife -----------------------------
(***************************************************************************)
(* The life of one session: SessionHandle creates it, starts and stops the *)
(* proxy process and reconnects (gateway-web, registry/handle.rs), sends   *)
(* its state to the event stream (routes.rs), and the browser follows it   *)
(* (useSessionEvents, useRemoteWorkspace).                                 *)
(*                                                                         *)
(* Every request runs in a task of its own on one of several threads; what *)
(* it does between two of its steps is open to all others.  Children are   *)
(* numbered as they are spawned; 0 is none.  Task 0 is the one that        *)
(* creates the session, the others are reconnects.                         *)
(***************************************************************************)
EXTENDS Naturals, Sequences, FiniteSets

CONSTANTS
    Calls,          \* calls over the proxy that run at a time
    MaxReconnects,  \* bound: reconnects
    MaxCalls,       \* bound: calls over the proxy, and saves over ssh
    MaxFaults,      \* bound: children that die, starts that fail, streams that break
    EventBuffer,    \* capacity of the broadcast channel
    Overlaps        \* a reconnect may begin while another one is under way: its answer
                    \* is late (30 s) or lost

ASSUME SessionAssumption ==
    /\ MaxReconnects \in Nat /\ MaxCalls \in Nat /\ MaxFaults \in Nat
    /\ EventBuffer \in Nat \ {0} /\ Overlaps \in BOOLEAN

VARIABLES
    state, active, worktree,    \* SessionState: connection_state, proxy.active, worktree_id
    slot, client,               \* the children of the slots proxy and zed_client
    alive, spawned,             \* running children, and how many there ever were (external)
    task, call,
    stream,                     \* the event stream: snapshot and events on the way
    asking, posted, view,       \* the browser: request it waits for, by POST, state shown
    spent                       \* counters of the bounds

sessionVars == <<state, active, worktree>>
slotVars == <<slot, client>>
childVars == <<alive, spawned>>
browserVars == <<asking, posted, view>>
vars == <<sessionVars, slotVars, childVars, task, call, stream, browserVars, spent>>

Tasks == 0..MaxReconnects
NoChild == 0
Children == 1..(MaxReconnects + 1)
States == {"connecting", "ready", "reconnecting"}

\* What a task does next.
Reconnecting == {"set reconnecting", "announce", "stop", "stop client"}
Starting == {"spawn", "initialize", "drain", "add worktree", "install child",
             "install client", "set ready", "announce ready", "snapshot"}
Ended == {"ok", "failed"}
UnderWay(t) == task[t].pc \in Reconnecting \cup Starting
Quiet == \A t \in Tasks : ~UnderWay(t)

Bound == [calls |-> MaxCalls, faults |-> MaxFaults]
Spend(b) == spent[b] < Bound[b] /\ spent' = [spent EXCEPT ![b] = @ + 1]

\* stop_proxy keeps the mutex of the slot proxy while it waits for that of zed_client,
\* which a call keeps while it waits for the remote server.
ProxyFree == \A t \in Tasks : task[t].pc # "stop client"

\* Mutant: a call unlocks the client while it waits
ClientUnlocked == TRUE

ClientFree == \A k \in Calls : call[k].pc # "await"

\* A child whose stdin is open: its client is in the slot, or a task's own still.
Connected(c) ==
    \/ client = c
    \/ \E t \in Tasks :
          /\ task[t].child = c
          /\ task[t].pc \in {"initialize", "drain", "add worktree", "install child",
                             "install client"}

TypeOK ==
    /\ state \in States /\ active \in BOOLEAN /\ worktree \in BOOLEAN
    /\ spawned \in 0..(MaxReconnects + 1) /\ alive \subseteq 1..spawned
    /\ {slot, client} \subseteq 0..spawned
    /\ \A t \in Tasks :
          /\ task[t].pc \in Reconnecting \cup Starting \cup Ended \cup {"unused"}
          /\ task[t].child \in 0..spawned
    /\ \A t, u \in Tasks :
          task[t].pc = "stop client" /\ task[u].pc = "stop client" => t = u
    /\ \A k \in Calls :
          /\ call[k].pc \in {"idle", "wait", "await", "saved"}
          /\ call[k].pc = "await" => call[k].on = client
    /\ \A k, l \in Calls : call[k].pc = "await" /\ call[l].pc = "await" => k = l
    /\ stream.phase \in {"none", "connecting", "subscribed", "live", "closed"}
    /\ Len(stream.queue) <= EventBuffer /\ Len(stream.snap) <= 1
    /\ asking \subseteq Tasks /\ Cardinality(asking) <= 1 /\ posted \in BOOLEAN
    /\ view \in States \cup {"idle", "disconnected"}
    /\ \A b \in DOMAIN Bound : spent[b] \in 0..Bound[b]

NoStream == [phase |-> "none", snap |-> <<>>, queue |-> <<>>]
Idle == [pc |-> "idle", on |-> NoChild, timed |-> FALSE]

\* SessionHandle::create up to start_proxy
Init ==
    /\ state = "connecting" /\ active = FALSE /\ worktree = FALSE
    /\ slot = NoChild /\ client = NoChild
    /\ alive = {} /\ spawned = 0
    /\ task = [t \in Tasks |-> [pc |-> IF t = 0 THEN "spawn" ELSE "unused",
                                child |-> NoChild, answer |-> "connecting"]]
    /\ call = [k \in Calls |-> Idle]
    /\ stream = NoStream
    /\ asking = {0} /\ posted = TRUE /\ view = "idle"
    /\ spent = [b \in DOMAIN Bound |-> 0]

-----------------------------------------------------------------------------
(* Events                                                                  *)

\* send_event, of a session_state; a receiver that is too far behind gets Lagged, which
\* ends its loop.  What a closed stream still delivers is left out: nothing depends on it.
Emit(s) ==
    stream' = IF stream.phase \notin {"subscribed", "live"} THEN stream
              ELSE IF Len(stream.queue) = EventBuffer
              THEN [stream EXCEPT !.phase = "closed", !.queue = <<>>]
              ELSE [stream EXCEPT !.queue = Append(@, s)]

\* Mutant: the snapshot first
SubscribeLast ==
    /\ stream.phase = "connecting"
    /\ stream' = IF stream.snap = <<>> THEN [stream EXCEPT !.snap = <<state>>]
                 ELSE [stream EXCEPT !.phase = "live"]

\* session_events: first subscribe, then the snapshot, which is sent first
OpenStream ==
    \/ /\ stream.phase = "connecting"
       /\ stream' = [stream EXCEPT !.phase = "subscribed"]
    \/ /\ stream.phase = "subscribed"
       /\ stream' = [stream EXCEPT !.phase = "live", !.snap = <<state>>]

Subscribe ==
    /\ OpenStream
    /\ UNCHANGED <<sessionVars, slotVars, childVars, task, call, browserVars, spent>>

\* onmessage
Hear ==
    /\ \/ stream.snap # <<>> /\ view' = Head(stream.snap)
          /\ stream' = [stream EXCEPT !.snap = <<>>]
       \/ stream.phase = "live" /\ stream.snap = <<>> /\ stream.queue # <<>>
          /\ view' = Head(stream.queue)
          /\ stream' = [stream EXCEPT !.queue = Tail(@)]
    /\ UNCHANGED <<sessionVars, slotVars, childVars, task, call, asking, posted, spent>>

StreamBreaks ==
    /\ Spend("faults")
    /\ stream.phase \in {"connecting", "subscribed", "live"}
    /\ stream' = [NoStream EXCEPT !.phase = "closed"]
    /\ UNCHANGED <<sessionVars, slotVars, childVars, task, call, browserVars>>

-----------------------------------------------------------------------------
(* reconnect, and stop_proxy                                               *)

Goto(t, pc) == task' = [task EXCEPT ![t].pc = pc]

SetReconnecting(t) ==
    /\ task[t].pc = "set reconnecting"
    /\ state' = "reconnecting"
    /\ Goto(t, "announce")
    /\ UNCHANGED <<active, worktree, slotVars, childVars, call, stream, browserVars, spent>>

Announce(t) ==
    /\ task[t].pc = "announce"
    /\ Emit("reconnecting")
    /\ Goto(t, "stop")
    /\ UNCHANGED <<sessionVars, slotVars, childVars, call, browserVars, spent>>

\* Mutant: the child is let go, not killed
LetGo == UNCHANGED alive

Kill == alive' = alive \ {slot}

Stop(t) ==
    /\ task[t].pc = "stop"
    /\ ProxyFree
    /\ Kill
    /\ slot' = NoChild
    /\ Goto(t, "stop client")
    /\ UNCHANGED <<sessionVars, client, spawned, call, stream, browserVars, spent>>

\* Mutant: the client stays
ClearChildOnly == client' = client /\ worktree' = FALSE /\ active' = FALSE

ClearClient == client' = NoChild /\ worktree' = FALSE /\ active' = FALSE

StopClient(t) ==
    /\ task[t].pc = "stop client"
    /\ ClientFree
    /\ ClearClient
    /\ Goto(t, "spawn")
    /\ UNCHANGED <<state, slot, childVars, call, stream, browserVars, spent>>

-----------------------------------------------------------------------------
(* start_proxy                                                             *)

FailStart(t, pcs) ==
    /\ Spend("faults")
    /\ task[t].pc \in pcs
    /\ Goto(t, "failed")
    /\ UNCHANGED <<sessionVars, slotVars, childVars, call, stream, browserVars>>

\* prepare_managed_remote_binary, probe_remote and spawn_proxy
Spawn(t) ==
    \/ /\ task[t].pc = "spawn"
       /\ spawned' = spawned + 1
       /\ alive' = alive \cup {spawned + 1}
       /\ task' = [task EXCEPT ![t].pc = "initialize", ![t].child = spawned + 1]
       /\ UNCHANGED <<sessionVars, slotVars, call, stream, browserVars, spent>>
    \/ FailStart(t, {"spawn"})

\* The remote server's stdout is at its end, or it says what the client cannot read;
\* either way stderr is read to its end first, with the client still in hand.
Initialize(t) ==
    /\ task[t].pc = "initialize"
    /\ \/ task[t].child \in alive /\ Goto(t, "add worktree") /\ UNCHANGED spent
       \/ task[t].child \notin alive /\ Goto(t, "drain") /\ UNCHANGED spent
       \/ task[t].child \in alive /\ Goto(t, "drain") /\ Spend("faults")
    /\ UNCHANGED <<sessionVars, slotVars, childVars, call, stream, browserVars>>

Drain(t) ==
    /\ task[t].pc = "drain"
    /\ task[t].child \notin alive
    /\ Goto(t, "failed")
    /\ UNCHANGED <<sessionVars, slotVars, childVars, call, stream, browserVars, spent>>

\* When it fails the child is dropped, which closes its stdin and does not kill it.
AddWorktree(t) ==
    \/ /\ task[t].pc = "add worktree"
       /\ Goto(t, IF task[t].child \in alive THEN "install child" ELSE "failed")
       /\ UNCHANGED <<sessionVars, slotVars, childVars, call, stream, browserVars, spent>>
    \/ FailStart(t, {"add worktree"})

InstallChild(t) ==
    /\ task[t].pc = "install child"
    /\ ProxyFree
    /\ slot' = task[t].child
    /\ Goto(t, "install client")
    /\ UNCHANGED <<sessionVars, client, childVars, call, stream, browserVars, spent>>

InstallClient(t) ==
    /\ task[t].pc = "install client"
    /\ ClientFree
    /\ client' = task[t].child
    /\ Goto(t, "set ready")
    /\ UNCHANGED <<sessionVars, slot, childVars, call, stream, browserVars, spent>>

SetReady(t) ==
    /\ task[t].pc = "set ready"
    /\ state' = "ready" /\ worktree' = TRUE /\ active' = TRUE
    /\ Goto(t, "announce ready")
    /\ UNCHANGED <<slotVars, childVars, call, stream, browserVars, spent>>

AnnounceReady(t) ==
    /\ task[t].pc = "announce ready"
    /\ Emit("ready")
    /\ Goto(t, "snapshot")
    /\ UNCHANGED <<sessionVars, slotVars, childVars, call, browserVars, spent>>

\* The answer of create and of reconnect
Snapshot(t) ==
    /\ task[t].pc = "snapshot"
    /\ task' = [task EXCEPT ![t].pc = "ok", ![t].answer = state]
    /\ UNCHANGED <<sessionVars, slotVars, childVars, call, stream, browserVars, spent>>

-----------------------------------------------------------------------------
(* Calls over the proxy, and saves                                         *)

\* The session can be used once the browser has the answer of create.
Open == 0 \notin asking /\ view # "disconnected"

\* The *_via_proxy functions read worktree_id first.  open_buffer, read_file and
\* save_file are timed, save_buffer and sync_buffers are not.
StartCall(k, timed) ==
    /\ Open
    /\ Spend("calls")
    /\ call[k].pc = "idle"
    /\ worktree
    /\ call' = [call EXCEPT ![k] = [Idle EXCEPT !.pc = "wait", !.timed = timed]]
    /\ UNCHANGED <<sessionVars, slotVars, childVars, task, stream, browserVars>>

TakeClient(k) ==
    /\ call[k].pc = "wait"
    /\ ClientFree
    /\ call' = [call EXCEPT ![k] = IF client = NoChild THEN Idle
                                   ELSE [@ EXCEPT !.pc = "await", !.on = client]]
    /\ UNCHANGED <<sessionVars, slotVars, childVars, task, stream, browserVars, spent>>

\* The remote server answers; a save goes on to send an event.
Answered(k) ==
    /\ call[k].pc = "await" /\ call[k].on \in alive
    /\ \E next \in {Idle, [Idle EXCEPT !.pc = "saved"]} : call' = [call EXCEPT ![k] = next]
    /\ UNCHANGED <<sessionVars, slotVars, childVars, task, stream, browserVars, spent>>

EndOfFile(k) ==
    /\ call[k].pc = "await" /\ call[k].on \notin alive
    /\ call' = [call EXCEPT ![k] = Idle]
    /\ UNCHANGED <<sessionVars, slotVars, childVars, task, stream, browserVars, spent>>

TimesOut(k) ==
    /\ call[k].pc \in {"wait", "await"} /\ call[k].timed
    /\ call' = [call EXCEPT ![k] = Idle]
    /\ UNCHANGED <<sessionVars, slotVars, childVars, task, stream, browserVars, spent>>

\* save_buffer and save_file say Ready after a save, whatever the state is
SavedEvent(k) ==
    /\ call[k].pc = "saved"
    /\ Emit("ready")
    /\ call' = [call EXCEPT ![k] = Idle]
    /\ UNCHANGED <<sessionVars, slotVars, childVars, task, browserVars, spent>>

SaveOverSsh ==
    /\ Open
    /\ Spend("calls")
    /\ Emit("ready")
    /\ UNCHANGED <<sessionVars, slotVars, childVars, task, call, browserVars>>

-----------------------------------------------------------------------------
(* Children (external)                                                     *)

Dies(c) ==
    /\ c \in alive
    /\ \/ Spend("faults")
       \/ ~Connected(c) /\ UNCHANGED spent      \* end of file on its stdin
    /\ alive' = alive \ {c}
    /\ UNCHANGED <<sessionVars, slotVars, spawned, task, call, stream, browserVars>>

-----------------------------------------------------------------------------
(* The browser                                                             *)

\* Requests are numbered in order.
NextRequest == {t \in Tasks : task[t].pc = "unused" /\ \A u \in 0..(t - 1) : task[u].pc # "unused"}

\* reconnect in useRemoteWorkspace, by command
Ask(t) ==
    /\ Open /\ asking = {}
    /\ Overlaps \/ Quiet
    /\ t \in NextRequest
    /\ Goto(t, "set reconnecting")
    /\ asking' = {t} /\ posted' = FALSE
    /\ UNCHANGED <<sessionVars, slotVars, childVars, call, stream, view, spent>>

\* The command failed, is late or lost its socket: POST
Retry(t, u) ==
    /\ t \in asking /\ ~posted
    /\ IF Overlaps THEN task[t].pc # "ok" ELSE task[t].pc = "failed"
    /\ u \in NextRequest
    /\ Goto(u, "set reconnecting")
    /\ asking' = {u} /\ posted' = TRUE
    /\ UNCHANGED <<sessionVars, slotVars, childVars, call, stream, view, spent>>

\* setSession: the effect closes the old stream and opens another one
Succeed(t) ==
    /\ t \in asking /\ task[t].pc = "ok"
    /\ asking' = {}
    /\ view' = task[t].answer
    /\ stream' = [NoStream EXCEPT !.phase = "connecting"]
    /\ UNCHANGED <<sessionVars, slotVars, childVars, task, call, posted, spent>>

\* POST /reconnect or POST /sessions fails, or its answer is lost
GiveUp(t) ==
    /\ t \in asking /\ posted
    /\ \/ task[t].pc = "failed" /\ UNCHANGED spent
       \/ task[t].pc # "failed" /\ Spend("faults")
    /\ asking' = {}
    /\ view' = IF t = 0 THEN "disconnected" ELSE view
    /\ UNCHANGED <<sessionVars, slotVars, childVars, task, call, stream, posted>>

-----------------------------------------------------------------------------
TaskStep(t) ==
    \/ SetReconnecting(t) \/ Announce(t) \/ Stop(t) \/ StopClient(t)
    \/ Spawn(t) \/ Initialize(t) \/ Drain(t) \/ AddWorktree(t)
    \/ InstallChild(t) \/ InstallClient(t) \/ SetReady(t) \/ AnnounceReady(t) \/ Snapshot(t)

CallStep(k) ==
    \/ \E timed \in BOOLEAN : StartCall(k, timed)
    \/ TakeClient(k) \/ Answered(k) \/ EndOfFile(k) \/ TimesOut(k) \/ SavedEvent(k)

BrowserStep ==
    \/ \E t \in Tasks : Ask(t) \/ Succeed(t) \/ GiveUp(t)
    \/ \E t, u \in Tasks : Retry(t, u)
    \/ Hear

Next ==
    \/ \E t \in Tasks : TaskStep(t)
    \/ \E k \in Calls : CallStep(k)
    \/ BrowserStep \/ Subscribe \/ StreamBreaks \/ SaveOverSsh
    \/ \E c \in Children : Dies(c)

Spec == Init /\ [][Next]_vars

\* Tasks are scheduled, the ssh commands they wait for end, and the mutexes are first
\* come, first served (strong fairness: a step that waits for one is enabled now and
\* then).  A new remote server answers initialize and add_worktree, or ends; after that
\* it may be silent for ever.
Fairness ==
    /\ \A t \in Tasks : SF_vars(TaskStep(t))
    /\ \A k \in Calls : WF_vars(EndOfFile(k) \/ TimesOut(k))

FairSpec == Spec /\ Fairness

-----------------------------------------------------------------------------
(* Properties                                                              *)

\* When nothing starts or stops, a session that says it is ready has its two slots
\* filled with one child, so that a reconnect can stop what the calls use; one that
\* does not has no client, and calls go over ssh at once (start_proxy, stop_proxy).
StatusTruthful ==
    Quiet =>
        IF state = "ready"
        THEN slot = client /\ client # NoChild /\ active /\ worktree
        ELSE slot = NoChild /\ client = NoChild /\ ~active /\ ~worktree

\* When nothing is on the way any more and the stream is up, a session that is ready is
\* shown as ready, wherever the browser subscribed between its events (session_events).
ViewNotBehind ==
    (/\ Quiet /\ asking = {} /\ \A k \in Calls : call[k].pc # "saved"
     /\ stream.phase = "live" /\ stream.snap = <<>> /\ stream.queue = <<>>)
    => (state = "ready" => view = "ready")

\* A reconnect comes to its end although calls without a timeout wait for a remote
\* server that is silent, unless its own new remote server neither starts nor exits
\* (stop_proxy kills the child before it waits for the client).
ReconnectEnds ==
    \A t \in Tasks : task[t].pc = "set reconnecting" ~> task[t].pc \in Ended \cup {"drain"}
=============================================================================
