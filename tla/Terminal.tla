------------------------------ MODULE Terminal ------------------------------
(***************************************************************************)
(* The terminal of a tab: the sockets of components/terminal/              *)
(* TerminalView.jsx and, for each, the shell the gateway starts over ssh   *)
(* (terminal_ws of routes.rs), with the task that reads its output and the *)
(* one that writes its input.                                              *)
(***************************************************************************)
EXTENDS Naturals, Sequences

CONSTANTS
    MaxSockets      \* bound: sockets made

VARIABLES
    sockets,        \* in the order they were made: [state, shell]; the last is current
    status          \* terminalStatus of the store

terminalVars == <<sockets, status>>

States == {"connecting", "open", "closing", "closed"}

\* A shell that does not read keeps the writing task in write_all.
Shells == {"none", "running", "blocked", "ended"}

TerminalInit == sockets = <<>> /\ status = "idle"

SetState(i, state) == sockets' = [sockets EXCEPT ![i].state = state]
SetShell(i, shell) == sockets' = [sockets EXCEPT ![i].shell = shell] /\ UNCHANGED status

-----------------------------------------------------------------------------
(* The tab                                                                 *)

\* Mutant: the socket there was is left as it is.
Kept(ss) == ss

\* close() of the socket there was.
Closed(ss) ==
    [i \in DOMAIN ss |->
        IF i = Len(ss) /\ ss[i].state \in {"connecting", "open"}
        THEN [ss[i] EXCEPT !.state = "closing"] ELSE ss[i]]

\* The effect on [gatewayUrl, instanceKey, session]: a session opens or is reconnected, the
\* gateway's address is typed, a new terminal is asked for.  The view is never unmounted.
Attach ==
    /\ Len(sockets) < MaxSockets
    /\ sockets' = Append(Closed(sockets), [state |-> "connecting", shell |-> "none"])
    /\ status' = "connecting"

OnOpen(i) ==
    /\ sockets[i].state = "connecting" /\ sockets[i].shell # "none"
    /\ SetState(i, "open") /\ status' = "ready"

\* onclose, after onerror for a connection that failed; of whichever socket it is.
OnClose(i) ==
    /\ sockets[i].state \in {"closing", "open"}
    /\ SetState(i, "closed") /\ status' = "closed"

-----------------------------------------------------------------------------
(* The gateway                                                             *)

\* open_terminal, before the handshake is answered.
Accept(i) ==
    /\ sockets[i].shell = "none" /\ SetShell(i, "running")

\* No such session, or no ssh.
Refuse(i) ==
    /\ sockets[i].state = "connecting" /\ sockets[i].shell = "none"
    /\ sockets' = [sockets EXCEPT ![i] = [state |-> "closed", shell |-> "ended"]]
    /\ status' = "closed"

\* Input that the shell does not take, and takes at last.
Block(i) ==
    /\ sockets[i].state = "open" /\ sockets[i].shell = "running" /\ SetShell(i, "blocked")

Unblock(i) ==
    /\ sockets[i].shell = "blocked" /\ SetShell(i, "running")

\* The end of its output makes the reading task close the socket, which is OnClose.
Exit(i) ==
    /\ sockets[i].shell \in {"running", "blocked"} /\ SetShell(i, "ended")

\* The writing task comes to the end of the socket's messages and kills the child.
Kill(i) ==
    /\ sockets[i].shell = "running" /\ sockets[i].state \in {"closing", "closed"}
    /\ SetShell(i, "ended")

Step(i) ==
    \/ OnOpen(i) \/ OnClose(i)
    \/ Accept(i) \/ Refuse(i) \/ Block(i) \/ Unblock(i) \/ Exit(i) \/ Kill(i)

TerminalNext == Attach \/ \E i \in DOMAIN sockets : Step(i)

TerminalSpec == TerminalInit /\ [][TerminalNext]_terminalVars

\* The gateway is told of the end of a connection and its task runs.
TerminalFairness == \A i \in 1..MaxSockets : WF_terminalVars(i \in DOMAIN sockets /\ Kill(i))

TerminalFairSpec == TerminalSpec /\ TerminalFairness

-----------------------------------------------------------------------------
(* Properties                                                              *)

TerminalTypeOK ==
    /\ sockets \in Seq([state : States, shell : Shells])
    /\ status \in {"idle", "connecting", "ready", "closed"}

Shell(i) == IF i \in DOMAIN sockets THEN sockets[i].shell ELSE "none"

\* The socket the terminal writes to is open.
CurrentOpen == sockets[Len(sockets)].state = "open"

(* The status says ready only while that is so; and of the shells a tab had started, those
   behind earlier sockets come to their end, but for one whose input the gateway is still
   trying to write.  [TerminalView.jsx:45-108; routes.rs: terminal_ws] *)
OneShell ==
    /\ [](status = "ready" => CurrentOpen)
    /\ \A i \in 1..(MaxSockets - 1) :
        i < Len(sockets) /\ Shell(i) = "running" ~> Shell(i) \in {"blocked", "ended"}
=============================================================================
