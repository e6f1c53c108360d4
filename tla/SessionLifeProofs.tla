--------------------------- MODULE SessionLifeProofs ---------------------------
(***************************************************************************)
(* Proofs about SessionLife, for any number of reconnects, calls, faults   *)
(* and any capacity of the event channel: types and the mutexes whatever   *)
(* overlaps, and, when reconnects come one after another, that the status  *)
(* agrees with the slots and that the browser does not miss it.            *)
(***************************************************************************)
EXTENDS SessionLife, FiniteSetTheorems, SequenceTheorems, TLAPS

Pcs == Reconnecting \cup Starting \cup Ended \cup {"unused"}
CallPcs == {"idle", "wait", "await", "saved"}
Phases == {"none", "connecting", "subscribed", "live", "closed"}
Views == States \cup {"idle", "disconnected"}

TaskType(n) == [pc : Pcs, child : 0..n, answer : States]
CallType(n) == [pc : CallPcs, on : 0..n, timed : BOOLEAN]
StreamType == [phase : Phases, snap : Seq(States), queue : Seq(States)]

SlotTypes ==
    /\ state \in States /\ active \in BOOLEAN /\ worktree \in BOOLEAN
    /\ spawned \in Nat /\ alive \subseteq 1..spawned
    /\ slot \in 0..spawned /\ client \in 0..spawned
TaskTypes == task \in [Tasks -> TaskType(spawned)]
CallTypes == call \in [Calls -> CallType(spawned)]
StreamTypes ==
    /\ stream \in StreamType
    /\ Len(stream.queue) <= EventBuffer /\ Len(stream.snap) <= 1
BrowserTypes ==
    /\ asking = {} \/ \E t \in Tasks : asking = {t}
    /\ posted \in BOOLEAN /\ view \in Views
SpentTypes ==
    /\ spent \in [{"calls", "faults"} -> Nat]
    /\ spent["calls"] <= MaxCalls /\ spent["faults"] <= MaxFaults

Types == SlotTypes /\ TaskTypes /\ CallTypes /\ StreamTypes /\ BrowserTypes /\ SpentTypes

\* A task spawns one child and has none before.
Before == Reconnecting \cup {"spawn", "unused"}
Parents == {t \in Tasks : task[t].child # NoChild}
Spawns ==
    /\ spawned = Cardinality(Parents)
    /\ \A t \in Tasks : task[t].pc \in Before => task[t].child = NoChild
    /\ \A t \in Tasks : task[t].pc \in Starting \ {"spawn"} => task[t].child # NoChild

\* What the two mutexes guard: one task is between them, one call has the client, and the
\* client stays while it has it.
Locks ==
    /\ \A t, u \in Tasks : task[t].pc = "stop client" /\ task[u].pc = "stop client" => t = u
    /\ \A k \in Calls : call[k].pc = "await" => call[k].on = client
    /\ \A k, l \in Calls : call[k].pc = "await" /\ call[l].pc = "await" => k = l

\* Reconnects come one after another, also those whose answer nobody waits for.
OneTask ==
    /\ \A t, u \in Tasks : UnderWay(t) /\ UnderWay(u) => t = u
    /\ \A t, u \in Tasks : t \in asking /\ UnderWay(u) => u = t

Empty == slot = NoChild /\ client = NoChild /\ ~active /\ ~worktree
Full == slot = client /\ client # NoChild /\ active /\ worktree
Agree == IF state = "ready" THEN Full ELSE Empty

\* What the status and the slots are at each step of the task that is under way.
Stage(t) ==
    CASE task[t].pc \in {"announce", "stop"} -> state = "reconnecting" /\ (Full \/ Empty)
      [] task[t].pc = "stop client" -> state = "reconnecting" /\ slot = NoChild
      [] task[t].pc \in {"spawn", "initialize", "drain", "add worktree", "install child"} ->
            state # "ready" /\ Empty
      [] task[t].pc = "install client" ->
            /\ state # "ready" /\ slot = task[t].child /\ client = NoChild
            /\ ~active /\ ~worktree
      [] task[t].pc = "set ready" -> state # "ready" /\ slot = task[t].child /\ client = slot
      [] task[t].pc \in {"announce ready", "snapshot"} -> state = "ready" /\ Full
      [] OTHER -> Agree

Status ==
    /\ \A t \in Tasks : UnderWay(t) => Stage(t)
    /\ Quiet => Agree

\* The last the browser hears of a session that is ready is that it is, unless the task
\* that made it so has yet to say it.
Announcing == \E t \in Tasks : task[t].pc = "announce ready"
Heard ==
    /\ 0 \in asking => stream.phase = "none"
    /\ task[0].pc # "unused"
    /\ stream.phase = "connecting" => stream.queue = <<>>
    /\ state = "ready" /\ ~Announcing =>
          /\ stream.phase \in {"subscribed", "live"} /\ stream.queue # <<>> =>
                stream.queue[Len(stream.queue)] = "ready"
          /\ stream.phase = "live" /\ stream.queue = <<>> =>
                IF stream.snap # <<>> THEN stream.snap = <<"ready">> ELSE view = "ready"

-----------------------------------------------------------------------------
(* Steps                                                                   *)

\* A task goes on; nothing else is told of it.
LEMMA GotoTask ==
    ASSUME TaskTypes, NEW t \in Tasks, NEW pc \in Pcs, Goto(t, pc)
    PROVE  /\ task' \in [Tasks -> TaskType(spawned)]
           /\ task'[t].pc = pc /\ task'[t].child = task[t].child /\ task'[t].answer = task[t].answer
           /\ \A u \in Tasks : u # t => task'[u] = task[u]
<1>1. task[t] \in TaskType(spawned) /\ task' = [task EXCEPT ![t].pc = pc]
    BY DEF TaskTypes, Goto
<1>2. task'[t] = [task[t] EXCEPT !.pc = pc]
    BY <1>1 DEF TaskTypes
<1>3. /\ task'[t] \in TaskType(spawned)
      /\ task'[t].pc = pc /\ task'[t].child = task[t].child /\ task'[t].answer = task[t].answer
    BY <1>1, <1>2 DEF TaskType
<1> QED BY <1>1, <1>3 DEF TaskTypes

LEMMA SpendOne ==
    ASSUME SpentTypes, NEW b \in {"calls", "faults"}, Spend(b)
    PROVE  SpentTypes'
<1>1. spent[b] < Bound[b] /\ spent' = [spent EXCEPT ![b] = @ + 1]
    BY DEF Spend
<1>2. Bound["calls"] = MaxCalls /\ Bound["faults"] = MaxFaults /\ MaxCalls \in Nat /\ MaxFaults \in Nat
    BY SessionAssumption DEF Bound
<1>3. spent' \in [{"calls", "faults"} -> Nat] /\ spent'[b] = spent[b] + 1
    BY <1>1 DEF SpentTypes
<1>4. CASE b = "calls"
    BY <1>1, <1>2, <1>3, <1>4 DEF SpentTypes
<1>5. CASE b = "faults"
    BY <1>1, <1>2, <1>3, <1>5 DEF SpentTypes
<1> QED BY <1>4, <1>5

\* An event: behind the others, or the stream ends.
LEMMA EmitStream ==
    ASSUME StreamTypes, NEW s \in States, Emit(s)
    PROVE  /\ StreamTypes' /\ stream'.snap = stream.snap
           /\ \/ stream.phase \notin {"subscribed", "live"} /\ stream' = stream
              \/ stream'.phase = "closed"
              \/ /\ stream'.phase = stream.phase /\ stream'.queue # <<>>
                 /\ stream'.queue[Len(stream'.queue)] = s
<1>1. /\ stream.phase \in Phases /\ stream.snap \in Seq(States) /\ stream.queue \in Seq(States)
      /\ stream = [phase |-> stream.phase, snap |-> stream.snap, queue |-> stream.queue]
      /\ Len(stream.queue) <= EventBuffer /\ Len(stream.snap) <= 1 /\ EventBuffer \in Nat
    BY SessionAssumption DEF StreamTypes, StreamType
<1>2. CASE stream.phase \notin {"subscribed", "live"}
    BY <1>2 DEF Emit, StreamTypes
<1>3. CASE stream.phase \in {"subscribed", "live"} /\ Len(stream.queue) = EventBuffer
    <2>1. stream' = [phase |-> "closed", snap |-> stream.snap, queue |-> <<>>]
        BY <1>1, <1>3 DEF Emit
    <2>2. <<>> \in Seq(States) /\ Len(<<>>) = 0 /\ "closed" \in Phases
        BY DEF Phases
    <2> QED BY <1>1, <2>1, <2>2 DEF StreamTypes, StreamType
<1>4. CASE stream.phase \in {"subscribed", "live"} /\ Len(stream.queue) # EventBuffer
    <2> DEFINE q == Append(stream.queue, s)
    <2>1. stream' = [phase |-> stream.phase, snap |-> stream.snap, queue |-> q]
        BY <1>1, <1>4 DEF Emit
    <2>2. q \in Seq(States) /\ Len(q) = Len(stream.queue) + 1 /\ q # <<>> /\ q[Len(q)] = s
        BY <1>1
    <2>3. Len(q) <= EventBuffer
        BY <1>1, <1>4, <2>2
    <2> HIDE DEF q
    <2> QED BY <1>1, <2>1, <2>2, <2>3 DEF StreamTypes, StreamType
<1> QED BY <1>2, <1>3, <1>4

\* A start that fails, before it has put anything anywhere.
LEMMA FailedStart ==
    ASSUME Types, NEW t \in Tasks, NEW pcs, FailStart(t, pcs)
    PROVE  /\ SpentTypes' /\ task[t].pc \in pcs /\ Goto(t, "failed")
           /\ UNCHANGED <<sessionVars, slotVars, childVars, call, stream, browserVars>>
BY SpendOne DEF FailStart, Types

LEMMA TaskStepTypes ==
    ASSUME Types, NEW t \in Tasks, TaskStep(t)
    PROVE  Types'
<1> USE DEF Types, SlotTypes
<1>1. \A pc : pc \in Pcs <=> pc \in {"set reconnecting", "announce", "stop", "stop client", "spawn",
          "initialize", "drain", "add worktree", "install child", "install client", "set ready",
          "announce ready", "snapshot", "ok", "failed", "unused"}
    BY DEF Pcs, Reconnecting, Starting, Ended
<1>2. spawned' = spawned => (CallTypes /\ call' = call => CallTypes') /\ (stream' = stream => StreamTypes')
          /\ (browserVars' = browserVars => BrowserTypes') /\ (spent' = spent => SpentTypes')
    BY DEF CallTypes, StreamTypes, BrowserTypes, browserVars, SpentTypes
<1>3. ASSUME NEW pc \in Pcs, Goto(t, pc), spawned' = spawned PROVE TaskTypes'
    BY <1>3, GotoTask DEF TaskTypes
<1>4. task[t].child \in 0..spawned /\ "ready" \in States /\ "reconnecting" \in States
    BY DEF TaskTypes, TaskType, States
<1>5. CASE SetReconnecting(t)
    BY <1>1, <1>2, <1>3, <1>4, <1>5 DEF SetReconnecting, slotVars, childVars
<1>6. CASE Announce(t)
    BY <1>1, <1>2, <1>3, <1>4, <1>6, EmitStream DEF Announce, sessionVars, slotVars, childVars
<1>7. CASE Stop(t)
    <2>1. SlotTypes'
        <3>1. /\ UNCHANGED <<state, active, worktree, client, spawned>>
              /\ slot' = 0 /\ alive' = alive \ {slot}
            BY <1>7 DEF Stop, Kill, sessionVars, NoChild
        <3>2. 0 \in 0..spawned /\ alive \ {slot} \subseteq 1..spawned
            OBVIOUS
        <3> QED BY <3>1, <3>2
    <2> QED BY <1>1, <1>2, <1>3, <1>7, <2>1 DEF Stop
<1>8. CASE StopClient(t)
    <2>1. SlotTypes'
        <3>1. /\ UNCHANGED <<state, slot, alive, spawned>>
              /\ client' = 0 /\ worktree' = FALSE /\ active' = FALSE
            BY <1>8 DEF StopClient, ClearClient, childVars, NoChild
        <3>2. 0 \in 0..spawned
            OBVIOUS
        <3> QED BY <3>1, <3>2
    <2> QED BY <1>1, <1>2, <1>3, <1>8, <2>1 DEF StopClient, childVars
<1>9. CASE Spawn(t)
    <2>1. CASE FailStart(t, {"spawn"})
        BY <1>1, <1>2, <1>3, <2>1, FailedStart DEF sessionVars, slotVars, childVars
    <2>2. CASE /\ task[t].pc = "spawn"
               /\ spawned' = spawned + 1 /\ alive' = alive \cup {spawned + 1}
               /\ task' = [task EXCEPT ![t].pc = "initialize", ![t].child = spawned + 1]
               /\ UNCHANGED <<sessionVars, slotVars, call, stream, browserVars, spent>>
        <3>1. \A x \in 0..spawned : x \in 0..spawned'
            BY <2>2
        <3>2. SlotTypes'
            BY <2>2 DEF sessionVars, slotVars
        <3>3. TaskTypes'
            <4>1. \A u \in Tasks : task[u] \in TaskType(spawned')
                BY <3>1 DEF TaskTypes, TaskType
            <4>2. task' = [task EXCEPT ![t] = [task[t] EXCEPT !.pc = "initialize", !.child = spawned + 1]]
                BY <2>2 DEF TaskTypes
            <4>3. [task[t] EXCEPT !.pc = "initialize", !.child = spawned + 1] \in TaskType(spawned')
                <5>1. task[t] \in TaskType(spawned') /\ "initialize" \in Pcs /\ spawned + 1 \in 0..spawned'
                    <6>1. spawned + 1 \in 0..(spawned + 1)
                        OBVIOUS
                    <6> QED BY <1>1, <2>2, <4>1, <6>1
                <5> QED BY <5>1 DEF TaskType
            <4> QED BY <4>1, <4>2, <4>3 DEF TaskTypes
        <3>4. CallTypes'
            BY <2>2, <3>1 DEF CallTypes, CallType
        <3> QED BY <2>2, <3>2, <3>3, <3>4 DEF StreamTypes, BrowserTypes, browserVars, SpentTypes
    <2> QED BY <1>9, <2>1, <2>2 DEF Spawn
<1>10. CASE Initialize(t)
    <2>1. SpentTypes'
        BY <1>2, <1>10, SpendOne DEF Initialize, childVars
    <2> QED BY <1>1, <1>2, <1>3, <1>10, <2>1 DEF Initialize, sessionVars, slotVars, childVars
<1>11. CASE Drain(t)
    BY <1>1, <1>2, <1>3, <1>11 DEF Drain, sessionVars, slotVars, childVars
<1>12. CASE AddWorktree(t)
    <2>1. CASE FailStart(t, {"add worktree"})
        BY <1>1, <1>2, <1>3, <2>1, FailedStart DEF sessionVars, slotVars, childVars
    <2> QED BY <1>1, <1>2, <1>3, <1>12, <2>1 DEF AddWorktree, sessionVars, slotVars, childVars
<1>13. CASE InstallChild(t)
    BY <1>1, <1>2, <1>3, <1>4, <1>13 DEF InstallChild, sessionVars, childVars
<1>14. CASE InstallClient(t)
    BY <1>1, <1>2, <1>3, <1>4, <1>14 DEF InstallClient, sessionVars, childVars
<1>15. CASE SetReady(t)
    BY <1>1, <1>2, <1>3, <1>4, <1>15 DEF SetReady, slotVars, childVars
<1>16. CASE AnnounceReady(t)
    BY <1>1, <1>2, <1>3, <1>4, <1>16, EmitStream DEF AnnounceReady, sessionVars, slotVars, childVars
<1>17. CASE Snapshot(t)
    <2>1. task' = [task EXCEPT ![t] = [task[t] EXCEPT !.pc = "ok", !.answer = state]]
        BY <1>17 DEF Snapshot, TaskTypes
    <2>2. [task[t] EXCEPT !.pc = "ok", !.answer = state] \in TaskType(spawned)
        BY <1>1 DEF TaskTypes, TaskType
    <2>3. spawned' = spawned
        BY <1>17 DEF Snapshot, childVars
    <2>4. TaskTypes'
        BY <2>1, <2>2, <2>3 DEF TaskTypes
    <2> QED BY <1>2, <1>17, <2>4 DEF Snapshot, sessionVars, slotVars, childVars
<1> QED BY <1>5, <1>6, <1>7, <1>8, <1>9, <1>10, <1>11, <1>12, <1>13, <1>14, <1>15, <1>16, <1>17 DEF TaskStep

LEMMA CallStepTypes ==
    ASSUME Types, NEW k \in Calls, CallStep(k)
    PROVE  Types'
<1> USE DEF Types
<1>1. call[k] \in CallType(spawned) /\ spawned \in Nat /\ client \in 0..spawned /\ "ready" \in States
    BY DEF CallTypes, SlotTypes, States
<1>2. /\ Idle \in CallType(spawned)
      /\ \A b \in BOOLEAN : [Idle EXCEPT !.pc = "wait", !.timed = b] \in CallType(spawned)
      /\ [Idle EXCEPT !.pc = "saved"] \in CallType(spawned)
    <2>1. 0 \in 0..spawned
        BY <1>1
    <2> QED BY <2>1 DEF Idle, CallType, CallPcs, NoChild
<1>3. [call[k] EXCEPT !.pc = "await", !.on = client] \in CallType(spawned)
    BY <1>1 DEF CallType, CallPcs
<1>4. \A c \in CallType(spawned) : [call EXCEPT ![k] = c] \in [Calls -> CallType(spawned)]
    BY DEF CallTypes
<1>5. UNCHANGED <<sessionVars, slotVars, childVars, task, browserVars>>
    BY DEF CallStep, StartCall, TakeClient, Answered, EndOfFile, TimesOut, SavedEvent
<1>6. StreamTypes'
    <2>1. stream' = stream \/ Emit("ready")
        BY DEF CallStep, StartCall, TakeClient, Answered, EndOfFile, TimesOut, SavedEvent
    <2> QED BY <1>1, <2>1, EmitStream DEF StreamTypes
<1>7. SpentTypes'
    <2>1. spent' = spent \/ Spend("calls")
        BY DEF CallStep, StartCall, TakeClient, Answered, EndOfFile, TimesOut, SavedEvent
    <2> QED BY <2>1, SpendOne DEF SpentTypes
<1>8. call' \in [Calls -> CallType(spawned)]
    <2>1. ASSUME NEW c \in CallType(spawned), call' = [call EXCEPT ![k] = c] PROVE call' \in [Calls -> CallType(spawned)]
        BY <1>4, <2>1
    <2>2. CASE \E b \in BOOLEAN : StartCall(k, b)
        BY <1>2, <2>1, <2>2 DEF StartCall
    <2>3. CASE TakeClient(k)
        BY <1>2, <1>3, <2>1, <2>3 DEF TakeClient, CallTypes
    <2>4. CASE Answered(k) \/ EndOfFile(k) \/ TimesOut(k) \/ SavedEvent(k)
        BY <1>2, <2>1, <2>4 DEF Answered, EndOfFile, TimesOut, SavedEvent
    <2> QED BY <2>2, <2>3, <2>4 DEF CallStep
<1> QED BY <1>5, <1>6, <1>7, <1>8 DEF sessionVars, slotVars, childVars, browserVars, SlotTypes, TaskTypes,
        CallTypes, BrowserTypes

LEMMA StreamStepTypes ==
    ASSUME Types, Hear \/ Subscribe \/ StreamBreaks \/ SaveOverSsh
    PROVE  Types'
<1> USE DEF Types
<1>1. /\ UNCHANGED <<sessionVars, slotVars, childVars, task, call>>
      /\ asking' = asking /\ posted' = posted
    BY DEF Hear, Subscribe, StreamBreaks, SaveOverSsh, browserVars
<1>2. /\ stream = [phase |-> stream.phase, snap |-> stream.snap, queue |-> stream.queue]
      /\ stream.phase \in Phases /\ stream.snap \in Seq(States) /\ stream.queue \in Seq(States)
      /\ Len(stream.queue) <= EventBuffer /\ Len(stream.snap) <= 1
      /\ <<>> \in Seq(States) /\ Len(<<>>) = 0 /\ EventBuffer \in Nat /\ state \in States
      /\ \A s \in States : <<s>> \in Seq(States) /\ Len(<<s>>) = 1
      /\ "subscribed" \in Phases /\ "live" \in Phases /\ "closed" \in Phases /\ view \in Views
    BY SessionAssumption DEF StreamTypes, StreamType, SlotTypes, Phases, BrowserTypes
<1>3. \A q \in Seq(States) :
          q # <<>> => Head(q) \in Views /\ Tail(q) \in Seq(States) /\ Len(Tail(q)) <= Len(q)
    BY DEF Views
<1>4. Subscribe \/ StreamBreaks \/ SaveOverSsh => view' = view
    BY DEF Subscribe, StreamBreaks, SaveOverSsh, browserVars
<1>5. StreamTypes' /\ view' \in Views
    <2>1. CASE Hear
        <3>1. CASE stream.snap # <<>> /\ view' = Head(stream.snap) /\ stream' = [stream EXCEPT !.snap = <<>>]
            <4>1. stream' = [phase |-> stream.phase, snap |-> <<>>, queue |-> stream.queue]
                BY <1>2, <3>1
            <4>2. view' \in Views
                BY <1>2, <1>3, <3>1
            <4>3. StreamTypes'
                BY <1>2, <4>1, <4>2 DEF StreamTypes, StreamType
            <4> QED BY <4>2, <4>3
        <3>2. CASE stream.queue # <<>> /\ view' = Head(stream.queue) /\ stream' = [stream EXCEPT !.queue = Tail(@)]
            <4>1. stream' = [phase |-> stream.phase, snap |-> stream.snap, queue |-> Tail(stream.queue)]
                BY <1>2, <3>2
            <4>2. view' \in Views /\ Tail(stream.queue) \in Seq(States) /\ Len(Tail(stream.queue)) <= EventBuffer
                <5>1. Len(Tail(stream.queue)) \in Nat /\ Len(stream.queue) \in Nat
                    BY <1>2, <1>3, <3>2
                <5> QED BY <1>2, <1>3, <3>2, <5>1
            <4>3. StreamTypes'
                BY <1>2, <4>1, <4>2 DEF StreamTypes, StreamType
            <4> QED BY <4>2, <4>3
        <3> QED BY <2>1, <3>1, <3>2 DEF Hear
    <2>2. CASE Subscribe
        <3>1. CASE stream' = [stream EXCEPT !.phase = "subscribed"]
            <4>1. stream' = [phase |-> "subscribed", snap |-> stream.snap, queue |-> stream.queue]
                BY <1>2, <3>1
            <4>2. StreamTypes'
                BY <1>2, <4>1 DEF StreamTypes, StreamType
            <4> QED BY <1>2, <1>4, <2>2, <4>2
        <3>2. CASE stream' = [stream EXCEPT !.phase = "live", !.snap = <<state>>]
            <4>1. stream' = [phase |-> "live", snap |-> <<state>>, queue |-> stream.queue]
                BY <1>2, <3>2
            <4>2. StreamTypes'
                BY <1>2, <4>1 DEF StreamTypes, StreamType
            <4> QED BY <1>2, <1>4, <2>2, <4>2
        <3> QED BY <2>2, <3>1, <3>2 DEF Subscribe, OpenStream
    <2>3. CASE StreamBreaks
        <3>1. stream' = [phase |-> "closed", snap |-> <<>>, queue |-> <<>>]
            BY <2>3 DEF StreamBreaks, NoStream
        <3>2. StreamTypes'
            BY <1>2, <3>1 DEF StreamTypes, StreamType
        <3> QED BY <1>2, <1>4, <2>3, <3>2
    <2>4. CASE SaveOverSsh
        BY <1>2, <1>4, <2>4, EmitStream DEF SaveOverSsh, States
    <2> QED BY <2>1, <2>2, <2>3, <2>4
<1>6. SpentTypes'
    <2>1. spent' = spent \/ Spend("calls") \/ Spend("faults")
        BY DEF Hear, Subscribe, StreamBreaks, SaveOverSsh
    <2> QED BY <2>1, SpendOne DEF SpentTypes
<1> QED BY <1>1, <1>5, <1>6 DEF sessionVars, slotVars, childVars, SlotTypes, TaskTypes, CallTypes, BrowserTypes

\* What the browser asks next is a task of its own.
LEMMA BrowserStepTypes ==
    ASSUME Types, BrowserStep
    PROVE  Types'
<1> USE DEF Types
<1>1. CASE Hear
    BY <1>1, StreamStepTypes
<1>2. ASSUME UNCHANGED <<sessionVars, slotVars, childVars, call>>, TaskTypes', StreamTypes', BrowserTypes', SpentTypes'
      PROVE  Types'
    BY <1>2 DEF sessionVars, slotVars, childVars, SlotTypes, CallTypes
<1>3. ASSUME NEW u \in Tasks, Goto(u, "set reconnecting"), UNCHANGED childVars PROVE TaskTypes'
    <2>1. "set reconnecting" \in Pcs
        BY DEF Pcs, Reconnecting
    <2> QED BY <1>3, <2>1, GotoTask DEF TaskTypes, childVars
<1>4. ASSUME NEW t \in Tasks, Ask(t) PROVE Types'
    <2>1. TaskTypes' /\ BrowserTypes' /\ StreamTypes' /\ SpentTypes'
        BY <1>3, <1>4 DEF Ask, BrowserTypes, StreamTypes, SpentTypes
    <2> QED BY <1>2, <1>4, <2>1 DEF Ask
<1>5. ASSUME NEW t \in Tasks, NEW u \in Tasks, Retry(t, u) PROVE Types'
    <2>1. TaskTypes' /\ BrowserTypes' /\ StreamTypes' /\ SpentTypes'
        BY <1>3, <1>5 DEF Retry, BrowserTypes, StreamTypes, SpentTypes
    <2> QED BY <1>2, <1>5, <2>1 DEF Retry
<1>6. ASSUME NEW t \in Tasks, Succeed(t) PROVE Types'
    <2>1. StreamTypes'
        <3>1. <<>> \in Seq(States) /\ Len(<<>>) = 0 /\ EventBuffer \in Nat
            BY SessionAssumption
        <3>2. stream' = [phase |-> "connecting", snap |-> <<>>, queue |-> <<>>]
            BY <1>6 DEF Succeed, NoStream
        <3> QED BY <3>1, <3>2 DEF StreamTypes, StreamType, Phases
    <2>2. task[t].answer \in Views
        BY DEF TaskTypes, TaskType, Views
    <2>3. TaskTypes' /\ BrowserTypes' /\ SpentTypes'
        BY <1>6, <2>2 DEF Succeed, childVars, TaskTypes, BrowserTypes, SpentTypes
    <2> QED BY <1>2, <1>6, <2>1, <2>3 DEF Succeed
<1>7. ASSUME NEW t \in Tasks, GiveUp(t) PROVE Types'
    <2>1. SpentTypes'
        BY <1>7, SpendOne DEF GiveUp, SpentTypes
    <2>2. TaskTypes' /\ StreamTypes' /\ BrowserTypes'
        BY <1>7 DEF GiveUp, childVars, TaskTypes, StreamTypes, BrowserTypes, Views
    <2> QED BY <1>2, <1>7, <2>1, <2>2 DEF GiveUp
<1> QED BY <1>1, <1>4, <1>5, <1>6, <1>7 DEF BrowserStep

LEMMA DiesTypes ==
    ASSUME Types, NEW c \in Children, Dies(c)
    PROVE  Types'
<1>1. SpentTypes'
    BY SpendOne DEF Dies, Types, SpentTypes
<1> QED BY <1>1 DEF Dies, Types, sessionVars, slotVars, browserVars, SlotTypes, TaskTypes, CallTypes,
        StreamTypes, BrowserTypes

LEMMA StepTypes == ASSUME Types, [Next]_vars PROVE Types'
<1>1. CASE UNCHANGED vars
    BY <1>1 DEF vars, sessionVars, slotVars, childVars, browserVars, Types, SlotTypes, TaskTypes, CallTypes,
        StreamTypes, BrowserTypes, SpentTypes
<1>2. CASE \E t \in Tasks : TaskStep(t)
    BY <1>2, TaskStepTypes
<1>3. CASE \E k \in Calls : CallStep(k)
    BY <1>3, CallStepTypes
<1>4. CASE \E c \in Children : Dies(c)
    BY <1>4, DiesTypes
<1> QED BY <1>1, <1>2, <1>3, <1>4, StreamStepTypes, BrowserStepTypes DEF Next

LEMMA InitTypes == ASSUME Init PROVE Types
<1>1. /\ spawned = 0 /\ 0 \in 0..0 /\ 0 \in Tasks /\ <<>> \in Seq(States) /\ Len(<<>>) = 0
      /\ EventBuffer \in Nat /\ MaxCalls \in Nat /\ MaxFaults \in Nat
    BY SessionAssumption DEF Init, Tasks
<1>2. SlotTypes
    <2>1. spawned \in Nat /\ {} \subseteq 1..spawned /\ 0 \in 0..spawned
        BY <1>1
    <2> QED BY <1>1, <2>1 DEF Init, SlotTypes, NoChild, States
<1>3. TaskTypes
    BY <1>1 DEF Init, TaskTypes, TaskType, Pcs, Starting, States, NoChild
<1>4. CallTypes
    BY <1>1 DEF Init, CallTypes, CallType, CallPcs, Idle, NoChild
<1>5. StreamTypes
    BY <1>1 DEF Init, StreamTypes, StreamType, Phases, NoStream
<1>6. BrowserTypes
    BY <1>1 DEF Init, BrowserTypes, Views
<1>7. SpentTypes
    <2>1. DOMAIN Bound = {"calls", "faults"}
        BY DEF Bound
    <2> QED BY <1>1, <2>1 DEF Init, SpentTypes
<1> QED BY <1>2, <1>3, <1>4, <1>5, <1>6, <1>7 DEF Types

-----------------------------------------------------------------------------
(* Children, and what the two mutexes guard                                *)

LEMMA AllTasks ==
    /\ IsFiniteSet(Tasks) /\ Cardinality(Tasks) = MaxReconnects + 1 /\ 0 \in Tasks
<1>1. MaxReconnects \in Nat /\ 0 \in Int /\ MaxReconnects \in Int
    BY SessionAssumption
<1>2. IsFiniteSet(0..MaxReconnects) /\ Cardinality(0..MaxReconnects) = MaxReconnects - 0 + 1
    BY <1>1, FS_Interval
<1> QED BY <1>1, <1>2 DEF Tasks

\* At most one child for each task.
LEMMA FewChildren == ASSUME Types, Spawns PROVE spawned <= MaxReconnects + 1
<1>1. Parents \subseteq Tasks
    BY DEF Parents
<1>2. Cardinality(Parents) <= Cardinality(Tasks)
    BY <1>1, AllTasks, FS_Subset
<1> QED BY <1>2, AllTasks DEF Spawns

LEMMA SpawnsStay ==
    ASSUME Spawns, spawned' = spawned,
           \A u \in Tasks :
              /\ task'[u].child = task[u].child
              /\ task'[u].pc \in Before => task[u].pc \in Before
              /\ task'[u].pc \in Starting \ {"spawn"} => task[u].pc \in Starting \ {"spawn"}
    PROVE  Spawns'
<1>1. Parents' = Parents
    BY DEF Parents
<1> QED BY <1>1 DEF Spawns

\* The tasks when one of them goes on and spawns nothing.
LEMMA SpawnsGoto ==
    ASSUME Types, Spawns, spawned' = spawned, NEW t \in Tasks, NEW pc \in Pcs, Goto(t, pc),
           pc \in Before => task[t].pc \in Before,
           pc \in Starting \ {"spawn"} => task[t].pc \in Starting \ {"spawn"}
    PROVE  Spawns'
<1>1. \A u \in Tasks : task'[u].child = task[u].child /\ task'[u].pc = IF u = t THEN pc ELSE task[u].pc
    BY GotoTask DEF Types
<1> QED BY <1>1, SpawnsStay

LEMMA SpawnSpawns ==
    ASSUME Types, Spawns, NEW t \in Tasks, task[t].pc = "spawn", spawned' = spawned + 1,
           task' = [task EXCEPT ![t].pc = "initialize", ![t].child = spawned + 1]
    PROVE  Spawns'
<1>1. /\ task'[t].child = spawned + 1 /\ task'[t].pc = "initialize" /\ spawned \in Nat
      /\ \A u \in Tasks : u # t => task'[u] = task[u]
    BY DEF Types, TaskTypes, TaskType, SlotTypes
<1>2. task[t].child = NoChild /\ task'[t].child # NoChild
    BY <1>1 DEF Spawns, Before, NoChild
<1>3. t \notin Parents /\ Parents' = Parents \cup {t}
    BY <1>1, <1>2 DEF Parents
<1>4. IsFiniteSet(Parents)
    <2>1. Parents \subseteq Tasks
        BY DEF Parents
    <2> QED BY <2>1, AllTasks, FS_Subset
<1>5. Cardinality(Parents') = Cardinality(Parents) + 1
    BY <1>3, <1>4, FS_AddElement
<1>6. "initialize" \notin Before
    BY DEF Before, Reconnecting
<1>7. \A u \in Tasks : task'[u].pc \in Before => task'[u].child = NoChild
    BY <1>1, <1>6 DEF Spawns
<1>8. \A u \in Tasks : task'[u].pc \in Starting \ {"spawn"} => task'[u].child # NoChild
    BY <1>1, <1>2 DEF Spawns
<1>9. spawned' = Cardinality(Parents')
    BY <1>5 DEF Spawns
<1> QED BY <1>7, <1>8, <1>9 DEF Spawns

LEMMA SpawnsStep == ASSUME Types, Spawns, [Next]_vars PROVE Spawns'
<1> USE DEF Before, Reconnecting, Starting, Pcs, Ended
<1>1. ASSUME UNCHANGED <<task, spawned>> PROVE Spawns'
    BY <1>1, SpawnsStay
<1>2. ASSUME NEW t \in Tasks, TaskStep(t) PROVE Spawns'
    <2>1. CASE Spawn(t)
        <3>1. CASE FailStart(t, {"spawn"})
            <4>1. spawned' = spawned /\ task[t].pc = "spawn" /\ Goto(t, "failed")
                BY <3>1, FailedStart DEF childVars
            <4> QED BY <4>1, SpawnsGoto
        <3> QED BY <2>1, <3>1, SpawnSpawns DEF Spawn
    <2>2. CASE Snapshot(t)
        <3>1. /\ task[t].pc = "snapshot" /\ spawned' = spawned
              /\ task' = [task EXCEPT ![t] = [task[t] EXCEPT !.pc = "ok", !.answer = state]]
            BY <2>2 DEF Snapshot, childVars, Types, TaskTypes
        <3>2. /\ task'[t].pc = "ok" /\ task'[t].child = task[t].child
              /\ \A u \in Tasks : u # t => task'[u] = task[u]
            BY <3>1 DEF Types, TaskTypes, TaskType
        <3> QED BY <3>1, <3>2, SpawnsStay
    <2>3. CASE SetReconnecting(t)
        BY <2>3, SpawnsGoto DEF SetReconnecting, childVars
    <2>4. CASE Announce(t)
        BY <2>4, SpawnsGoto DEF Announce, childVars
    <2>5. CASE Stop(t)
        BY <2>5, SpawnsGoto DEF Stop, childVars
    <2>6. CASE StopClient(t)
        BY <2>6, SpawnsGoto DEF StopClient, childVars
    <2>7. CASE Initialize(t)
        BY <2>7, SpawnsGoto DEF Initialize, childVars
    <2>8. CASE Drain(t)
        BY <2>8, SpawnsGoto DEF Drain, childVars
    <2>9. CASE AddWorktree(t)
        <3>1. CASE FailStart(t, {"add worktree"})
            <4>1. spawned' = spawned /\ task[t].pc = "add worktree" /\ Goto(t, "failed")
                BY <3>1 DEF FailStart, childVars
            <4> QED BY <4>1, SpawnsGoto
        <3> QED BY <2>9, <3>1, SpawnsGoto DEF AddWorktree, childVars
    <2>10. CASE InstallChild(t)
        BY <2>10, SpawnsGoto DEF InstallChild, childVars
    <2>11. CASE InstallClient(t)
        BY <2>11, SpawnsGoto DEF InstallClient, childVars
    <2>12. CASE SetReady(t)
        BY <2>12, SpawnsGoto DEF SetReady, childVars
    <2>13. CASE AnnounceReady(t)
        BY <2>13, SpawnsGoto DEF AnnounceReady, childVars
    <2> QED BY <1>2, <2>1, <2>2, <2>3, <2>4, <2>5, <2>6, <2>7, <2>8, <2>9, <2>10, <2>11, <2>12, <2>13 DEF TaskStep
<1>3. CASE \E k \in Calls : CallStep(k)
    BY <1>1, <1>3 DEF CallStep, StartCall, TakeClient, Answered, EndOfFile, TimesOut, SavedEvent, childVars
<1>4. CASE BrowserStep
    <2>1. ASSUME NEW u \in Tasks, task[u].pc = "unused", Goto(u, "set reconnecting"), spawned' = spawned PROVE Spawns'
        BY <2>1, SpawnsGoto
    <2>2. CASE Hear \/ \E t \in Tasks : Succeed(t) \/ GiveUp(t)
        BY <1>1, <2>2 DEF Hear, Succeed, GiveUp, childVars
    <2> QED BY <1>4, <2>1, <2>2 DEF BrowserStep, Ask, Retry, NextRequest, childVars
<1>5. CASE Subscribe \/ StreamBreaks \/ SaveOverSsh \/ \E c \in Children : Dies(c)
    BY <1>1, <1>5 DEF Subscribe, StreamBreaks, SaveOverSsh, Dies, childVars
<1>6. CASE UNCHANGED vars
    BY <1>1, <1>6 DEF vars, childVars
<1> QED BY <1>2, <1>3, <1>4, <1>5, <1>6 DEF Next

\* A task goes to the second mutex by a stop of its own, which needs the first one.
LEMMA LocksTasks ==
    ASSUME Types, Locks, [Next]_vars
    PROVE  \A t, u \in Tasks : task'[t].pc = "stop client" /\ task'[u].pc = "stop client" => t = u
<1> USE DEF Types, Pcs, Reconnecting, Starting, Ended
<1>1. ASSUME NEW t \in Tasks, NEW pc \in Pcs \ {"stop client"}, Goto(t, pc)
      PROVE  \A u \in Tasks : task'[u].pc = "stop client" => task[u].pc = "stop client"
    BY <1>1, GotoTask
<1>2. ASSUME \A u \in Tasks : task'[u].pc = "stop client" => task[u].pc = "stop client"
      PROVE  \A t, u \in Tasks : task'[t].pc = "stop client" /\ task'[u].pc = "stop client" => t = u
    BY <1>2 DEF Locks
<1>3. CASE task' = task
    BY <1>3 DEF Locks
<1>4. ASSUME NEW t \in Tasks, TaskStep(t)
      PROVE  \A v, u \in Tasks : task'[v].pc = "stop client" /\ task'[u].pc = "stop client" => v = u
    <2>1. CASE Stop(t)
        <3>1. \A u \in Tasks : task'[u].pc = "stop client" => u = t
            BY <2>1, GotoTask DEF Stop, ProxyFree
        <3> QED BY <3>1
    <2>2. CASE Snapshot(t) \/ Spawn(t)
        <3>1. CASE FailStart(t, {"spawn"})
            BY <1>1, <1>2, <3>1 DEF FailStart
        <3>2. CASE task' = [task EXCEPT ![t].pc = "ok", ![t].answer = state]
            BY <1>2, <3>2 DEF TaskTypes, TaskType
        <3>3. CASE task' = [task EXCEPT ![t].pc = "initialize", ![t].child = spawned + 1]
            BY <1>2, <3>3 DEF TaskTypes, TaskType
        <3> QED BY <2>2, <3>1, <3>2, <3>3 DEF Snapshot, Spawn
    <2>3. CASE ~(Stop(t) \/ Snapshot(t) \/ Spawn(t))
        <3>1. \E pc \in Pcs \ {"stop client"} : Goto(t, pc)
            BY <1>4, <2>3 DEF TaskStep, SetReconnecting, Announce, StopClient, Initialize, Drain, AddWorktree,
                FailStart, InstallChild, InstallClient, SetReady, AnnounceReady
        <3> QED BY <1>1, <1>2, <3>1
    <2> QED BY <2>1, <2>2, <2>3
<1>5. CASE BrowserStep
    <2>1. ASSUME NEW u \in Tasks, Goto(u, "set reconnecting")
          PROVE  \A v, w \in Tasks : task'[v].pc = "stop client" /\ task'[w].pc = "stop client" => v = w
        BY <1>1, <1>2, <2>1
    <2> QED BY <1>3, <1>5, <2>1 DEF BrowserStep, Ask, Retry, Succeed, GiveUp, Hear
<1>6. CASE ~(BrowserStep \/ \E t \in Tasks : TaskStep(t))
    <2>1. task' = task
        BY <1>6 DEF Next, vars, CallStep, StartCall, TakeClient, Answered, EndOfFile, TimesOut, SavedEvent,
            Subscribe, StreamBreaks, SaveOverSsh, Dies
    <2> QED BY <1>3, <2>1
<1> QED BY <1>4, <1>5, <1>6

\* A call gets the client when no other has it, and the client goes and comes when none has.
LEMMA LocksCalls ==
    ASSUME Types, Locks, [Next]_vars
    PROVE  /\ \A k \in Calls : call'[k].pc = "await" => call'[k].on = client'
           /\ \A k, l \in Calls : call'[k].pc = "await" /\ call'[l].pc = "await" => k = l
<1>1. ASSUME client' = client,
             \A k \in Calls : call'[k].pc = "await" => call'[k] = call[k]
      PROVE  /\ \A k \in Calls : call'[k].pc = "await" => call'[k].on = client'
             /\ \A k, l \in Calls : call'[k].pc = "await" /\ call'[l].pc = "await" => k = l
    BY <1>1 DEF Locks
<1>2. ASSUME call' = call, ClientFree
      PROVE  /\ \A k \in Calls : call'[k].pc = "await" => call'[k].on = client'
             /\ \A k, l \in Calls : call'[k].pc = "await" /\ call'[l].pc = "await" => k = l
    BY <1>2 DEF ClientFree
<1>3. CASE call' = call
    <2>1. client' = client \/ ClientFree
        BY <1>3 DEF Next, vars, slotVars, TaskStep, SetReconnecting, Announce, Stop, StopClient, Spawn, FailStart,
            Initialize, Drain, AddWorktree, InstallChild, InstallClient, SetReady, AnnounceReady, Snapshot,
            CallStep, StartCall, TakeClient, Answered, EndOfFile, TimesOut, SavedEvent, BrowserStep, Ask, Retry,
            Succeed, GiveUp, Hear, Subscribe, StreamBreaks, SaveOverSsh, Dies
    <2> QED BY <1>1, <1>2, <1>3, <2>1
<1>4. ASSUME NEW k \in Calls, CallStep(k)
      PROVE  /\ \A l \in Calls : call'[l].pc = "await" => call'[l].on = client'
             /\ \A j, l \in Calls : call'[j].pc = "await" /\ call'[l].pc = "await" => j = l
    <2>1. client' = client
        BY <1>4 DEF CallStep, StartCall, TakeClient, Answered, EndOfFile, TimesOut, SavedEvent, slotVars
    <2>2. /\ Idle.pc # "await" /\ [Idle EXCEPT !.pc = "saved"].pc # "await"
          /\ \A b \in BOOLEAN : [Idle EXCEPT !.pc = "wait", !.timed = b].pc # "await"
        BY DEF Idle
    <2>3. ASSUME NEW c, c.pc # "await", call' = [call EXCEPT ![k] = c]
          PROVE  \A l \in Calls : call'[l].pc = "await" => call'[l] = call[l]
        BY <2>3 DEF Types, CallTypes
    <2>4. CASE ~TakeClient(k)
        <3>1. \E c : c.pc # "await" /\ call' = [call EXCEPT ![k] = c]
            BY <1>4, <2>2, <2>4 DEF CallStep, StartCall, Answered, EndOfFile, TimesOut, SavedEvent
        <3> QED BY <1>1, <2>1, <2>3, <3>1
    <2>5. CASE TakeClient(k)
        <3>1. CASE client = NoChild
            BY <1>1, <2>1, <2>2, <2>3, <2>5, <3>1 DEF TakeClient
        <3>2. CASE client # NoChild
            <4>1. /\ call'[k].on = client
                  /\ \A l \in Calls : l # k => call'[l] = call[l]
                BY <2>5, <3>2 DEF TakeClient, Types, CallTypes, CallType
            <4>2. \A l \in Calls : l # k => call'[l].pc # "await"
                BY <2>5, <4>1 DEF TakeClient, ClientFree
            <4> QED BY <2>1, <4>1, <4>2
        <3> QED BY <3>1, <3>2
    <2> QED BY <2>4, <2>5
<1>5. CASE ~\E k \in Calls : CallStep(k)
    <2>1. call' = call
        BY <1>5 DEF Next, vars, TaskStep, SetReconnecting, Announce, Stop, StopClient, Spawn, FailStart,
            Initialize, Drain, AddWorktree, InstallChild, InstallClient, SetReady, AnnounceReady, Snapshot,
            BrowserStep, Ask, Retry, Succeed, GiveUp, Hear, Subscribe, StreamBreaks, SaveOverSsh, Dies
    <2> QED BY <1>3, <2>1
<1> QED BY <1>4, <1>5

LEMMA InitSpawnsLocks == ASSUME Init PROVE Spawns /\ Locks
<1>1. Parents = {}
    BY DEF Init, Parents
<1>2. Spawns
    BY <1>1, FS_EmptySet DEF Init, Spawns, Starting
<1>3. Locks
    BY DEF Init, Locks, Idle
<1> QED BY <1>2, <1>3

-----------------------------------------------------------------------------
(* Theorem: types, and the mutexes                                         *)

TypeInv == Types /\ Spawns /\ Locks

LEMMA TypeInvInvariant == Spec => []TypeInv
<1>1. Init => TypeInv
    BY InitTypes, InitSpawnsLocks DEF TypeInv
<1>2. TypeInv /\ [Next]_vars => TypeInv'
    BY StepTypes, SpawnsStep, LocksTasks, LocksCalls DEF TypeInv, Locks
<1> QED BY <1>1, <1>2, PTL DEF Spec

LEMMA TypesSuffice == ASSUME TypeInv PROVE TypeOK
<1> USE DEF TypeInv, Types
<1>1. /\ state \in States /\ active \in BOOLEAN /\ worktree \in BOOLEAN
      /\ alive \subseteq 1..spawned /\ {slot, client} \subseteq 0..spawned
    BY DEF SlotTypes
<1>2. spawned \in 0..(MaxReconnects + 1)
    BY FewChildren, SessionAssumption DEF SlotTypes
<1>3. \A t \in Tasks :
         /\ task[t].pc \in Reconnecting \cup Starting \cup Ended \cup {"unused"}
         /\ task[t].child \in 0..spawned
    BY DEF TaskTypes, TaskType, Pcs
<1>4. \A k \in Calls : call[k].pc \in {"idle", "wait", "await", "saved"}
    BY DEF CallTypes, CallType, CallPcs
<1>5. stream.phase \in {"none", "connecting", "subscribed", "live", "closed"}
    BY DEF StreamTypes, StreamType, Phases
<1>6. asking \subseteq Tasks /\ Cardinality(asking) <= 1 /\ posted \in BOOLEAN
      /\ view \in States \cup {"idle", "disconnected"}
    <2>1. Cardinality({}) = 0 /\ \A t : Cardinality({t}) = 1
        BY FS_EmptySet, FS_Singleton
    <2>2. asking \subseteq Tasks /\ Cardinality(asking) <= 1
        <3>1. CASE asking = {}
            BY <2>1, <3>1
        <3>2. ASSUME NEW t \in Tasks, asking = {t} PROVE asking \subseteq Tasks /\ Cardinality(asking) <= 1
            <4>1. Cardinality(asking) = 1
                BY <2>1, <3>2
            <4> QED BY <3>2, <4>1
        <3> QED BY <3>1, <3>2 DEF BrowserTypes
    <2> QED BY <2>2 DEF BrowserTypes, Views
<1>7. \A b \in DOMAIN Bound : spent[b] \in 0..Bound[b]
    <2>1. /\ DOMAIN Bound = {"calls", "faults"} /\ Bound["calls"] = MaxCalls /\ Bound["faults"] = MaxFaults
          /\ MaxCalls \in Nat /\ MaxFaults \in Nat
        BY SessionAssumption DEF Bound
    <2>2. spent["calls"] \in 0..MaxCalls /\ spent["faults"] \in 0..MaxFaults
        BY <2>1 DEF SpentTypes
    <2> QED BY <2>1, <2>2
<1>8. Len(stream.queue) <= EventBuffer /\ Len(stream.snap) <= 1
    BY DEF StreamTypes
<1> QED BY <1>1, <1>2, <1>3, <1>4, <1>5, <1>6, <1>7, <1>8 DEF TypeOK, Locks

\* Whatever overlaps: at most one task is between the two mutexes of stop_proxy, at most
\* one call has the client and the client stays in its slot as long, a child in a slot was
\* spawned, each task spawns at most one child, and the stream holds no more than its
\* channel does.
THEOREM TypeCorrect == Spec => []TypeOK
<1>1. TypeInv => TypeOK
    BY TypesSuffice
<1> QED BY <1>1, TypeInvInvariant, PTL

-----------------------------------------------------------------------------
(* Reconnects one after another: the status and the slots                  *)

LEMMA TaskStepTask ==
    ASSUME Types, NEW t \in Tasks, TaskStep(t)
    PROVE  /\ UnderWay(t) /\ asking' = asking /\ task[t].pc # "unused" /\ task'[t].pc # "unused"
           /\ \A u \in Tasks : u # t => task'[u] = task[u]
<1> USE DEF Pcs, Reconnecting, Starting, Ended
<1>1. UnderWay(t) /\ asking' = asking
    BY DEF UnderWay, TaskStep, SetReconnecting, Announce, Stop, StopClient, Spawn, FailStart, Initialize, Drain,
        AddWorktree, InstallChild, InstallClient, SetReady, AnnounceReady, Snapshot, browserVars
<1>2. /\ \A u \in Tasks : u # t => task'[u] = task[u]
      /\ task'[t].pc # "unused"
    <2>1. ASSUME NEW pc \in Pcs, pc # "unused", Goto(t, pc)
          PROVE  task'[t].pc # "unused" /\ \A u \in Tasks : u # t => task'[u] = task[u]
        BY <2>1, GotoTask DEF Types
    <2>2. CASE Snapshot(t) \/ Spawn(t)
        <3>1. CASE FailStart(t, {"spawn"})
            BY <2>1, <3>1 DEF FailStart
        <3>2. CASE task' = [task EXCEPT ![t].pc = "ok", ![t].answer = state]
            BY <3>2 DEF Types, TaskTypes, TaskType
        <3>3. CASE task' = [task EXCEPT ![t].pc = "initialize", ![t].child = spawned + 1]
            BY <3>3 DEF Types, TaskTypes, TaskType
        <3> QED BY <2>2, <3>1, <3>2, <3>3 DEF Snapshot, Spawn
    <2>3. CASE ~(Snapshot(t) \/ Spawn(t))
        <3>1. \E pc \in Pcs : pc # "unused" /\ Goto(t, pc)
            BY <2>3 DEF TaskStep, SetReconnecting, Announce, Stop, StopClient, Initialize, Drain, AddWorktree,
                FailStart, InstallChild, InstallClient, SetReady, AnnounceReady
        <3> QED BY <2>1, <3>1
    <2> QED BY <2>2, <2>3
<1>3. task[t].pc # "unused"
    BY <1>1 DEF UnderWay
<1> QED BY <1>1, <1>2, <1>3

\* What the browser asks for begins when nothing else does.
LEMMA Begins ==
    ASSUME Types, OneTask, ~Overlaps, NEW u \in Tasks, NEW t \in Tasks, Ask(u) \/ Retry(t, u)
    PROVE  /\ Quiet /\ Goto(u, "set reconnecting") /\ asking' = {u} /\ task[u].pc = "unused"
           /\ UNCHANGED <<sessionVars, slotVars, childVars, call, stream, view>>
           /\ task'[u].pc = "set reconnecting" /\ \A v \in Tasks : v # u => task'[v] = task[v]
<1>1. /\ Goto(u, "set reconnecting") /\ asking' = {u} /\ task[u].pc = "unused"
      /\ UNCHANGED <<sessionVars, slotVars, childVars, call, stream, view>>
    BY DEF Ask, Retry, NextRequest
<1>2. Quiet
    <2>1. CASE Ask(u)
        BY <2>1 DEF Ask
    <2>2. CASE Retry(t, u)
        <3>1. t \in asking /\ task[t].pc = "failed"
            BY <2>2 DEF Retry
        <3>2. ~UnderWay(t)
            BY <3>1 DEF UnderWay, Reconnecting, Starting
        <3> QED BY <3>1, <3>2 DEF Quiet, OneTask
    <2> QED BY <2>1, <2>2
<1>3. task'[u].pc = "set reconnecting" /\ \A v \in Tasks : v # u => task'[v] = task[v]
    <2>1. "set reconnecting" \in Pcs
        BY DEF Pcs, Reconnecting
    <2> QED BY <1>1, <2>1, GotoTask DEF Types
<1> QED BY <1>1, <1>2, <1>3

\* The steps that leave the tasks alone.
LEMMA OtherStep ==
    ASSUME [Next]_vars, ~\E t \in Tasks : TaskStep(t), ~\E t, u \in Tasks : Ask(u) \/ Retry(t, u)
    PROVE  UNCHANGED <<sessionVars, slotVars, task>> /\ (asking' = asking \/ asking' = {})
BY DEF Next, vars, sessionVars, slotVars, browserVars, CallStep, StartCall, TakeClient, Answered, EndOfFile,
    TimesOut, SavedEvent, BrowserStep, Succeed, GiveUp, Hear, Subscribe, StreamBreaks, SaveOverSsh, Dies

LEMMA OneTaskStep == ASSUME Types, OneTask, ~Overlaps, [Next]_vars PROVE OneTask'
<1>1. ASSUME NEW t \in Tasks, TaskStep(t) PROVE OneTask'
    <2>1. \A u \in Tasks : UnderWay(u)' => UnderWay(u)
        BY <1>1, TaskStepTask DEF UnderWay
    <2> QED BY <1>1, <2>1, TaskStepTask DEF OneTask
<1>2. ASSUME NEW t \in Tasks, NEW u \in Tasks, Ask(u) \/ Retry(t, u) PROVE OneTask'
    <2>1. \A v \in Tasks : UnderWay(v)' => v = u
        BY <1>2, Begins DEF UnderWay, Quiet
    <2>2. asking' = {u}
        BY <1>2, Begins
    <2> QED BY <2>1, <2>2 DEF OneTask
<1>3. CASE UNCHANGED task /\ (asking' = asking \/ asking' = {})
    BY <1>3 DEF OneTask, UnderWay
<1> QED BY <1>1, <1>2, <1>3, OtherStep

LEMMA StatusByStage ==
    ASSUME NEW t \in Tasks, \A u \in Tasks : u # t => ~UnderWay(u)', Stage(t)'
    PROVE  Status'
<1>1. ~UnderWay(t)' => Agree'
    BY DEF UnderWay, Stage, Reconnecting, Starting
<1> QED BY <1>1 DEF Status, Quiet

\* One step of the task that is under way: from what it found to what it leaves.
LEMMA StageStep ==
    ASSUME Types, Spawns, NEW t \in Tasks, Stage(t), TaskStep(t)
    PROVE  Stage(t)'
<1> USE DEF Pcs, Reconnecting, Starting, Ended, sessionVars, slotVars, Empty, Full
<1>1. ASSUME NEW pc \in Pcs, Goto(t, pc) PROVE task'[t].pc = pc /\ task'[t].child = task[t].child
    BY <1>1, GotoTask DEF Types
<1>2. CASE SetReconnecting(t)
    <2>1. task[t].pc = "set reconnecting" /\ task'[t].pc = "announce"
        BY <1>1, <1>2 DEF SetReconnecting
    <2>2. Agree
        BY <2>1 DEF Stage
    <2> QED BY <1>2, <2>1, <2>2 DEF SetReconnecting, Stage, Agree
<1>3. CASE Announce(t)
    <2>1. task[t].pc = "announce" /\ task'[t].pc = "stop"
        BY <1>1, <1>3 DEF Announce
    <2> QED BY <1>3, <2>1 DEF Announce, Stage
<1>4. CASE Stop(t)
    <2>1. task[t].pc = "stop" /\ task'[t].pc = "stop client"
        BY <1>1, <1>4 DEF Stop
    <2> QED BY <1>4, <2>1 DEF Stop, Stage
<1>5. CASE StopClient(t)
    <2>1. task[t].pc = "stop client" /\ task'[t].pc = "spawn"
        BY <1>1, <1>5 DEF StopClient
    <2> QED BY <1>5, <2>1 DEF StopClient, ClearClient, Stage
<1>6. ASSUME task[t].pc \in {"spawn", "initialize", "drain", "add worktree", "install child"},
             task'[t].pc \in {"spawn", "initialize", "drain", "add worktree", "install child", "failed"},
             UNCHANGED <<sessionVars, slotVars>>
      PROVE  Stage(t)'
    <2>1. state # "ready" /\ Empty
        BY <1>6 DEF Stage
    <2> QED BY <1>6, <2>1 DEF Stage, Agree
<1>7. CASE Spawn(t)
    <2>1. CASE FailStart(t, {"spawn"})
        BY <1>1, <1>6, <2>1 DEF FailStart
    <2>2. CASE /\ task[t].pc = "spawn" /\ UNCHANGED <<sessionVars, slotVars>>
               /\ task' = [task EXCEPT ![t].pc = "initialize", ![t].child = spawned + 1]
        <3>1. task'[t].pc = "initialize"
            BY <2>2 DEF Types, TaskTypes, TaskType
        <3> QED BY <1>6, <2>2, <3>1
    <2> QED BY <1>7, <2>1, <2>2 DEF Spawn
<1>8. CASE Initialize(t)
    BY <1>1, <1>6, <1>8 DEF Initialize
<1>9. CASE Drain(t)
    BY <1>1, <1>6, <1>9 DEF Drain
<1>10. CASE AddWorktree(t)
    <2>1. CASE FailStart(t, {"add worktree"})
        BY <1>1, <1>6, <2>1 DEF FailStart
    <2> QED BY <1>1, <1>6, <1>10, <2>1 DEF AddWorktree
<1>11. CASE InstallChild(t)
    <2>1. task[t].pc = "install child" /\ task'[t].pc = "install client" /\ task'[t].child = task[t].child
        BY <1>1, <1>11 DEF InstallChild
    <2> QED BY <1>11, <2>1 DEF InstallChild, Stage
<1>12. CASE InstallClient(t)
    <2>1. task[t].pc = "install client" /\ task'[t].pc = "set ready" /\ task'[t].child = task[t].child
        BY <1>1, <1>12 DEF InstallClient
    <2> QED BY <1>12, <2>1 DEF InstallClient, Stage
<1>13. CASE SetReady(t)
    <2>1. task[t].pc = "set ready" /\ task'[t].pc = "announce ready" /\ task[t].child # NoChild
        BY <1>1, <1>13 DEF SetReady, Spawns
    <2> QED BY <1>13, <2>1 DEF SetReady, Stage
<1>14. CASE AnnounceReady(t)
    <2>1. task[t].pc = "announce ready" /\ task'[t].pc = "snapshot"
        BY <1>1, <1>14 DEF AnnounceReady
    <2> QED BY <1>14, <2>1 DEF AnnounceReady, Stage
<1>15. CASE Snapshot(t)
    <2>1. task[t].pc = "snapshot" /\ task'[t].pc = "ok"
        BY <1>15 DEF Snapshot, Types, TaskTypes, TaskType
    <2> QED BY <1>15, <2>1 DEF Snapshot, Stage, Agree
<1> QED BY <1>2, <1>3, <1>4, <1>5, <1>7, <1>8, <1>9, <1>10, <1>11, <1>12, <1>13, <1>14, <1>15 DEF TaskStep

LEMMA StatusStep == ASSUME TypeInv, OneTask, Status, ~Overlaps, [Next]_vars PROVE Status'
<1> USE DEF TypeInv
<1>1. ASSUME NEW t \in Tasks, TaskStep(t) PROVE Status'
    <2>1. UnderWay(t) /\ \A u \in Tasks : u # t => ~UnderWay(u)'
        BY <1>1, TaskStepTask DEF OneTask, UnderWay
    <2>2. Stage(t)'
        BY <1>1, <2>1, StageStep DEF Status
    <2> QED BY <2>1, <2>2, StatusByStage
<1>2. ASSUME NEW t \in Tasks, NEW u \in Tasks, Ask(u) \/ Retry(t, u) PROVE Status'
    <2>1. /\ Quiet /\ task'[u].pc = "set reconnecting" /\ \A v \in Tasks : v # u => task'[v] = task[v]
          /\ UNCHANGED <<sessionVars, slotVars>>
        BY <1>2, Begins
    <2>2. Stage(u)'
        BY <2>1 DEF Status, Stage, Agree, Empty, Full, sessionVars, slotVars
    <2>3. \A v \in Tasks : v # u => ~UnderWay(v)'
        BY <2>1 DEF Quiet, UnderWay
    <2> QED BY <2>2, <2>3, StatusByStage
<1>3. CASE UNCHANGED <<sessionVars, slotVars, task>>
    BY <1>3 DEF sessionVars, slotVars, Status, Quiet, UnderWay, Stage, Agree, Empty, Full
<1> QED BY <1>1, <1>2, <1>3, OtherStep

StatusInv == TypeInv /\ OneTask /\ Status

LEMMA InitStatus == ASSUME Init PROVE StatusInv
<1> USE DEF Init
<1>1. \A t \in Tasks : UnderWay(t) <=> t = 0
    BY DEF UnderWay, Reconnecting, Starting
<1>2. OneTask
    BY <1>1 DEF OneTask
<1>3. Status
    <2>1. 0 \in Tasks
        BY AllTasks
    <2>2. Stage(0)
        BY <2>1 DEF Stage, Empty
    <2> QED BY <1>1, <2>1, <2>2 DEF Status, Quiet
<1> QED BY <1>2, <1>3, InitTypes, InitSpawnsLocks DEF StatusInv, TypeInv

LEMMA StatusInvInvariant == ASSUME ~Overlaps PROVE Spec => []StatusInv
<1>1. Init => StatusInv
    BY InitStatus
<1>2. StatusInv /\ [Next]_vars => StatusInv'
    BY StepTypes, SpawnsStep, LocksTasks, LocksCalls, OneTaskStep, StatusStep DEF StatusInv, TypeInv, Locks
<1> QED BY <1>1, <1>2, PTL DEF Spec

\* When reconnects come one after another, a session at rest is what it says it is: ready
\* with one child in both slots, or not ready with none and nothing active, however starts
\* fail, children die and calls hold the client in between.
THEOREM StatusIsTruthful == ASSUME ~Overlaps PROVE Spec => []StatusTruthful
<1>1. StatusInv => StatusTruthful
    BY DEF StatusInv, Status, StatusTruthful, Agree, Empty, Full
<1> QED BY <1>1, StatusInvInvariant, PTL

-----------------------------------------------------------------------------
(* Reconnects one after another: what the browser shows                    *)

\* An event that says ready is the last one, or nobody listens to it.
LEMMA HeardReady ==
    ASSUME Types, Heard, Emit("ready"), UNCHANGED <<asking, view>>, task'[0].pc # "unused"
    PROVE  Heard'
<1>1. "ready" \in States
    BY DEF States
<1>2. /\ stream'.snap = stream.snap
      /\ \/ stream.phase \notin {"subscribed", "live"} /\ stream' = stream
         \/ stream'.phase = "closed"
         \/ /\ stream'.phase = stream.phase /\ stream'.queue # <<>>
            /\ stream'.queue[Len(stream'.queue)] = "ready"
    BY <1>1, EmitStream DEF Types
<1>3. 0 \in asking => stream' = stream
    BY DEF Heard, Emit
<1>4. stream'.phase = "connecting" => stream' = stream
    BY <1>2 DEF Emit
<1> QED BY <1>2, <1>3, <1>4 DEF Heard

\* Nothing is said, or the session is not ready after the step.
LEMMA HeardQuiet ==
    ASSUME Heard, UNCHANGED <<stream, view>>, asking' \subseteq asking, task'[0].pc # "unused",
           state' = "ready" /\ ~Announcing' => state = "ready" /\ ~Announcing
    PROVE  Heard'
BY DEF Heard

LEMMA HeardTask == ASSUME StatusInv, Heard, NEW t \in Tasks, TaskStep(t) PROVE Heard'
<1> USE DEF StatusInv, TypeInv
<1>1. /\ UnderWay(t) /\ task'[t].pc # "unused" /\ asking' = asking
      /\ \A u \in Tasks : u # t => task'[u] = task[u]
    BY TaskStepTask
<1>2. task'[0].pc # "unused"
    BY <1>1, AllTasks DEF Heard
<1>3. Stage(t)
    BY <1>1 DEF Status
<1>4. CASE AnnounceReady(t)
    BY <1>1, <1>2, <1>4, HeardReady DEF AnnounceReady, browserVars
<1>5. CASE Announce(t)
    <2>1. state = "reconnecting" /\ state' = state
        BY <1>3, <1>5 DEF Announce, Stage, sessionVars
    <2>2. Emit("reconnecting") /\ UNCHANGED <<asking, view>>
        BY <1>5 DEF Announce, browserVars
    <2>3. 0 \in asking => stream' = stream
        BY <2>2 DEF Heard, Emit
    <2>4. stream'.phase = "connecting" => stream' = stream
        <3>1. "reconnecting" \in States
            BY DEF States
        <3>2. \/ stream.phase \notin {"subscribed", "live"} /\ stream' = stream
              \/ stream'.phase = "closed" \/ stream'.phase = stream.phase
            BY <2>2, <3>1, EmitStream DEF Types
        <3> QED BY <2>2, <3>2 DEF Emit
    <2> QED BY <1>2, <2>1, <2>2, <2>3, <2>4 DEF Heard
<1>6. CASE Snapshot(t)
    <2>1. UNCHANGED <<state, stream, view>> /\ task[t].pc = "snapshot" /\ task'[t].pc = "ok"
        BY <1>6 DEF Snapshot, sessionVars, browserVars, Types, TaskTypes, TaskType
    <2>2. Announcing' <=> Announcing
        BY <1>1, <2>1 DEF Announcing
    <2> QED BY <1>1, <1>2, <2>1, <2>2, HeardQuiet
<1>7. CASE SetReady(t)
    <2>1. UNCHANGED <<stream, view>> /\ task'[t].pc = "announce ready"
        <3>1. "announce ready" \in Pcs
            BY DEF Pcs, Starting
        <3> QED BY <1>7, <3>1, GotoTask DEF SetReady, browserVars, Types
    <2>2. Announcing'
        BY <2>1 DEF Announcing
    <2> QED BY <1>1, <1>2, <2>1, <2>2, HeardQuiet
<1>8. CASE ~(AnnounceReady(t) \/ Announce(t) \/ Snapshot(t) \/ SetReady(t))
    <2>1. UNCHANGED <<stream, view>>
        BY <1>8 DEF TaskStep, SetReconnecting, Stop, StopClient, Spawn, FailStart, Initialize, Drain, AddWorktree,
            InstallChild, InstallClient, browserVars
    <2>2. state' # "ready"
        <3>1. CASE SetReconnecting(t)
            BY <3>1 DEF SetReconnecting
        <3>2. CASE ~SetReconnecting(t)
            <4>1. /\ task[t].pc \in {"stop", "stop client", "spawn", "initialize", "drain", "add worktree",
                                     "install child", "install client"}
                  /\ state' = state
                BY <1>8, <3>2 DEF TaskStep, Stop, StopClient, Spawn, FailStart, Initialize, Drain, AddWorktree,
                    InstallChild, InstallClient, sessionVars
            <4>2. state # "ready"
                BY <1>3, <4>1 DEF Stage
            <4> QED BY <4>1, <4>2
        <3> QED BY <3>1, <3>2
    <2> QED BY <1>1, <1>2, <2>1, <2>2, HeardQuiet
<1> QED BY <1>4, <1>5, <1>6, <1>7, <1>8

LEMMA HeardBegins ==
    ASSUME StatusInv, Heard, ~Overlaps, NEW t \in Tasks, NEW u \in Tasks, Ask(u) \/ Retry(t, u)
    PROVE  Heard'
<1>1. /\ asking' = {u} /\ task[u].pc = "unused" /\ UNCHANGED <<sessionVars, stream, view>>
      /\ task'[u].pc = "set reconnecting" /\ \A v \in Tasks : v # u => task'[v] = task[v]
    BY Begins DEF StatusInv, TypeInv
<1>2. 0 \notin asking' /\ task'[0].pc # "unused"
    BY <1>1, AllTasks DEF Heard
<1>3. Announcing' <=> Announcing
    BY <1>1 DEF Announcing
<1> QED BY <1>1, <1>2, <1>3 DEF Heard, sessionVars

LEMMA HeardStream ==
    ASSUME StatusInv, Heard, Hear \/ Subscribe \/ StreamBreaks
    PROVE  Heard'
<1>1. UNCHANGED <<sessionVars, task, asking>>
    BY DEF Hear, Subscribe, StreamBreaks, browserVars
<1>2. /\ stream = [phase |-> stream.phase, snap |-> stream.snap, queue |-> stream.queue]
      /\ stream.snap \in Seq(States) /\ stream.queue \in Seq(States) /\ Len(stream.snap) <= 1
    BY DEF StatusInv, TypeInv, Types, StreamTypes, StreamType
<1>3. state' = state /\ (Announcing' <=> Announcing) /\ task'[0].pc # "unused"
    BY <1>1 DEF Announcing, sessionVars, Heard
<1>4. CASE StreamBreaks
    <2>1. stream'.phase = "closed" /\ view' = view /\ stream.phase # "none"
        BY <1>4 DEF StreamBreaks, NoStream, browserVars
    <2> QED BY <1>1, <1>3, <2>1 DEF Heard
<1>5. CASE Subscribe
    <2>1. CASE stream.phase = "connecting" /\ stream' = [stream EXCEPT !.phase = "subscribed"]
        <3>1. stream'.phase = "subscribed" /\ stream'.queue = stream.queue
            BY <1>2, <2>1
        <3> QED BY <1>1, <1>3, <2>1, <3>1 DEF Heard
    <2>2. CASE stream.phase = "subscribed" /\ stream' = [stream EXCEPT !.phase = "live", !.snap = <<state>>]
        <3>1. stream'.phase = "live" /\ stream'.queue = stream.queue /\ stream'.snap = <<state>>
            BY <1>2, <2>2
        <3> QED BY <1>1, <1>3, <2>2, <3>1 DEF Heard
    <2> QED BY <1>5, <2>1, <2>2 DEF Subscribe, OpenStream
<1>6. CASE Hear
    <2>1. CASE stream.snap # <<>> /\ view' = Head(stream.snap) /\ stream' = [stream EXCEPT !.snap = <<>>]
        <3>1. stream'.phase = stream.phase /\ stream'.queue = stream.queue /\ stream'.snap = <<>>
            BY <1>2, <2>1
        <3>2. stream.snap = <<"ready">> => view' = "ready"
            BY <2>1
        <3> QED BY <1>1, <1>3, <2>1, <3>1, <3>2 DEF Heard
    <2>2. CASE /\ stream.phase = "live" /\ stream.snap = <<>> /\ stream.queue # <<>>
               /\ view' = Head(stream.queue) /\ stream' = [stream EXCEPT !.queue = Tail(@)]
        <3> DEFINE q == stream.queue
        <3>1. stream'.phase = "live" /\ stream'.queue = Tail(q) /\ stream'.snap = <<>>
            BY <1>2, <2>2
        <3>2. Len(Tail(q)) = Len(q) - 1 /\ Len(q) \in Nat \ {0}
            BY <1>2, <2>2
        <3>3. Tail(q) # <<>> => Tail(q)[Len(Tail(q))] = q[Len(q)]
            BY <1>2, <2>2, <3>2
        <3>4. Tail(q) = <<>> => view' = q[Len(q)]
            <4>1. Tail(q) = <<>> => Len(q) = 1
                <5>1. Len(<<>>) = 0
                    OBVIOUS
                <5>2. Tail(q) = <<>> => Len(Tail(q)) = 0
                    BY <5>1
                <5> HIDE DEF q
                <5> QED BY <3>2, <5>2
            <4> QED BY <2>2, <4>1
        <3>5. state = "ready" /\ ~Announcing => q[Len(q)] = "ready"
            BY <2>2 DEF Heard
        <3> HIDE DEF q
        <3>6. 0 \notin asking
            BY <2>2 DEF Heard
        <3> QED BY <1>1, <1>3, <3>1, <3>3, <3>4, <3>5, <3>6 DEF Heard
    <2> QED BY <1>6, <2>1, <2>2 DEF Hear
<1> QED BY <1>4, <1>5, <1>6

LEMMA HeardStep == ASSUME StatusInv, Heard, ~Overlaps, [Next]_vars PROVE Heard'
<1>1. CASE \E t \in Tasks : TaskStep(t)
    BY <1>1, HeardTask
<1>2. CASE \E t, u \in Tasks : Ask(u) \/ Retry(t, u)
    BY <1>2, HeardBegins
<1>3. CASE Hear \/ Subscribe \/ StreamBreaks
    BY <1>3, HeardStream
<1>4. ASSUME Emit("ready"), UNCHANGED <<task, asking, view>> PROVE Heard'
    BY <1>4, HeardReady DEF Heard, StatusInv, TypeInv
<1>5. ASSUME UNCHANGED <<state, task, stream, asking, view>> PROVE Heard'
    BY <1>5, HeardQuiet DEF Heard, Announcing
<1>6. ASSUME NEW k \in Calls, CallStep(k) PROVE Heard'
    BY <1>4, <1>5, <1>6 DEF CallStep, StartCall, TakeClient, Answered, EndOfFile, TimesOut, SavedEvent, sessionVars,
        browserVars
<1>7. CASE SaveOverSsh
    BY <1>4, <1>7 DEF SaveOverSsh, browserVars
<1>8. ASSUME NEW t \in Tasks, Succeed(t) PROVE Heard'
    <2>1. asking' = {} /\ stream'.phase = "connecting" /\ stream'.queue = <<>> /\ task' = task
        BY <1>8 DEF Succeed, NoStream
    <2> QED BY <2>1 DEF Heard
<1>9. ASSUME NEW t \in Tasks, GiveUp(t) PROVE Heard'
    <2>1. asking' = {} /\ UNCHANGED <<state, task, stream>> /\ t \in asking
        BY <1>9 DEF GiveUp, sessionVars
    <2>2. CASE t = 0
        BY <2>1, <2>2 DEF Heard
    <2>3. CASE t # 0
        <3>1. view' = view /\ asking' \subseteq asking /\ (Announcing' <=> Announcing)
            BY <1>9, <2>1, <2>3 DEF GiveUp, Announcing
        <3> QED BY <2>1, <3>1, HeardQuiet DEF Heard
    <2> QED BY <2>2, <2>3
<1>10. CASE UNCHANGED vars \/ \E c \in Children : Dies(c)
    BY <1>5, <1>10 DEF Dies, vars, sessionVars, browserVars
<1> QED BY <1>1, <1>2, <1>3, <1>6, <1>7, <1>8, <1>9, <1>10 DEF Next, BrowserStep

\* When reconnects come one after another, a browser whose stream is up and has nothing
\* more to deliver shows a ready session as ready: it subscribes before it takes the
\* snapshot, and every event it hears is older than the next one or says ready.
THEOREM ViewKeepsUp == ASSUME ~Overlaps PROVE Spec => []ViewNotBehind
<1>1. Init => Heard
    <2>1. ASSUME Init PROVE Heard
        BY <2>1, AllTasks DEF Init, Heard, NoStream
    <2> QED BY <2>1
<1>2. StatusInv /\ Heard /\ [Next]_vars => Heard'
    BY HeardStep
<1>3. StatusInv /\ Heard => ViewNotBehind
    <2>1. Quiet => ~Announcing
        BY DEF Quiet, UnderWay, Announcing, Starting
    <2> QED BY <2>1 DEF Heard, ViewNotBehind
<1> QED BY <1>1, <1>2, <1>3, StatusInvInvariant, PTL DEF Spec
=============================================================================
