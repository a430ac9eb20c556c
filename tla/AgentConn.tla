----------------------------- MODULE AgentConn -----------------------------
(***************************************************************************)
(* The agent's end of the command connection                               *)
(* (go-gost/x/socket/websocket_reporter.go): the run goroutine that dials, *)
(* serves and dials again, and the receivers it starts, one for each       *)
(* connection it serves, which read commands and run them one by one.      *)
(*                                                                         *)
(* A receiver is not tied to the connection it was started for: each of    *)
(* its turns reads w.conn and w.connected anew, and when its read fails it *)
(* clears w.connected, whichever connection is the current one by then.    *)
(* connMutex is held over a whole dial, so a receiver can wait for it and  *)
(* act on the connection that dial brought.                                *)
(*                                                                         *)
(* One action per critical section of connMutex, read, or dial.  Commands  *)
(* are not told apart; AgentServices models what they do.  The read        *)
(* deadline is part of Break, the process's exit (Stop) is left out.  A    *)
(* connection that nothing refers to any more stands for a new one when    *)
(* the agent dials, so the number of reconnects has no bound.              *)
(***************************************************************************)
EXTENDS Naturals, FiniteSets

CONSTANTS
  Conns,      \* connections in use at one time
  Receivers,  \* receiveMessages goroutines alive at one time
  None        \* no connection

ASSUME NoneAssumption == None \notin Conns

VARIABLES
  conn,       \* w.conn
  connected,  \* w.connected
  connMutex,  \* w.connMutex is held by a dial
  pc,         \* where the run goroutine is
  link,       \* the state of each connection
  newest,     \* the connection the panel accepted last: its session
  inbox,      \* a command waits on the connection
  rpc,        \* where each receiver is
  at          \* the connection it reads or has read from

loopVars == <<conn, connected, connMutex, pc>>
netVars == <<link, newest, inbox>>
receiverVars == <<rpc, at>>
vars == <<loopVars, netVars, receiverVars>>

LoopSteps == {"check", "dial", "look", "pause", "serve", "cleanup"}

ReceiverSteps == {"none", "top", "read", "failed", "command"}

\* up: both ends hold it; down: the panel's end is gone; torn: two readers
\* broke its framing and every read fails; closed: by the agent.
Links == {"up", "down", "torn", "closed"}

TypeOK ==
  /\ conn \in Conns \cup {None}
  /\ connected \in BOOLEAN
  /\ connMutex \in BOOLEAN
  /\ pc \in LoopSteps
  /\ link \in [Conns -> Links]
  /\ newest \in Conns \cup {None}
  /\ inbox \in [Conns -> BOOLEAN]
  /\ rpc \in [Receivers -> ReceiverSteps]
  /\ at \in [Receivers -> Conns \cup {None}]
  /\ pc = "serve" => conn \in Conns
  /\ \A r \in Receivers : rpc[r] \in {"read", "failed"} => at[r] \in Conns

Init ==
  /\ conn = None
  /\ connected = FALSE
  /\ connMutex = FALSE
  /\ pc = "check"
  /\ link = [c \in Conns |-> "closed"]
  /\ newest = None
  /\ inbox = [c \in Conns |-> FALSE]
  /\ rpc = [r \in Receivers |-> "none"]
  /\ at = [r \in Receivers |-> None]

-----------------------------------------------------------------------------
(* The run goroutine *)

LoopStep(from, to) ==
  /\ pc = from
  /\ pc' = to

\* Take connMutex and dial.  The code would skip this while connected, which
\* it never is here (DownWhileDialling).
StartDial ==
  /\ LoopStep("check", "dial")
  /\ ~connected
  /\ ~connMutex
  /\ connMutex' = TRUE
  /\ UNCHANGED <<conn, connected, netVars, receiverVars>>

\* Nobody at the agent or the panel has the connection in hand.
Unused(c) ==
  /\ link[c] # "up"
  /\ c # conn
  /\ \A r \in Receivers : at[r] # c

\* The new connection takes the place of w.conn, which is not closed here
\* if it is still there.
DialSucceeds(c) ==
  /\ LoopStep("dial", "look")
  /\ Unused(c)
  /\ conn' = c
  /\ connected' = TRUE
  /\ connMutex' = FALSE
  /\ link' = [link EXCEPT ![c] = "up"]
  /\ newest' = c
  /\ inbox' = [inbox EXCEPT ![c] = FALSE]
  /\ UNCHANGED receiverVars

DialFails_Locked ==
  /\ LoopStep("dial", "pause")
  /\ UNCHANGED <<conn, connected, connMutex, netVars, receiverVars>>

DialFails ==
  /\ LoopStep("dial", "pause")
  /\ connMutex' = FALSE
  /\ UNCHANGED <<conn, connected, netVars, receiverVars>>

\* The read of w.connected after connect, without the mutex, finds it set:
\* handleConnection starts a receiver.
Serve ==
  /\ LoopStep("look", "serve")
  /\ connected
  /\ \E r \in Receivers :
       /\ rpc[r] = "none"
       /\ rpc' = [rpc EXCEPT ![r] = "top"]
  /\ UNCHANGED <<conn, connected, connMutex, netVars, at>>

\* It finds it cleared by a receiver of an earlier connection: the loop
\* waits, and leaves the new connection open with nobody to read it.
Forsake ==
  /\ LoopStep("look", "pause")
  /\ ~connected
  /\ UNCHANGED <<conn, connected, connMutex, netVars, receiverVars>>

Retry ==
  /\ LoopStep("pause", "check")
  /\ UNCHANGED <<conn, connected, connMutex, netVars, receiverVars>>

\* A tick of handleConnection that ends it: no longer connected, or sending
\* the system information fails.
Tick ==
  /\ LoopStep("serve", "cleanup")
  /\ ~connected \/ link[conn] = "down"
  /\ connected' = FALSE
  /\ UNCHANGED <<conn, connMutex, netVars, receiverVars>>

\* The agent closes a connection; what it has not read is lost.
Close(c) ==
  /\ link' = [link EXCEPT ![c] = "closed"]
  /\ inbox' = [inbox EXCEPT ![c] = FALSE]

\* The deferred end of handleConnection.
Cleanup ==
  /\ LoopStep("cleanup", "check")
  /\ Close(conn)
  /\ conn' = None
  /\ connected' = FALSE
  /\ UNCHANGED <<connMutex, newest, receiverVars>>

-----------------------------------------------------------------------------
(* A receiver *)

ReceiverStep(r, from, to) ==
  /\ rpc[r] = from
  /\ rpc' = [rpc EXCEPT ![r] = to]

Turn_Unchecked(r) ==
  /\ ~connMutex
  /\ ReceiverStep(r, "top", "read")
  /\ at' = [at EXCEPT ![r] = conn]
  /\ UNCHANGED <<loopVars, netVars>>

\* The top of the loop, with the mutex: end, or read from the connection
\* there is now.
Turn(r) ==
  /\ ~connMutex
  /\ LET on == conn # None /\ connected
     IN  /\ ReceiverStep(r, "top", IF on THEN "read" ELSE "none")
         /\ at' = [at EXCEPT ![r] = IF on THEN conn ELSE None]
  /\ UNCHANGED <<loopVars, netVars>>

\* ReadMessage returns a command; what arrived before the end is still read.
Read(r) ==
  /\ ReceiverStep(r, "read", "command")
  /\ link[at[r]] \in {"up", "down"}
  /\ inbox[at[r]]
  /\ inbox' = [inbox EXCEPT ![at[r]] = FALSE]
  /\ at' = [at EXCEPT ![r] = None]
  /\ UNCHANGED <<loopVars, link, newest>>

\* Two receivers in ReadMessage of one connection share a frame between
\* them; the connection keeps the error.
ReadTorn(r) ==
  /\ ReceiverStep(r, "read", "failed")
  /\ link[at[r]] = "up"
  /\ inbox[at[r]]
  /\ \E q \in Receivers \ {r} : rpc[q] = "read" /\ at[q] = at[r]
  /\ link' = [link EXCEPT ![at[r]] = "torn"]
  /\ inbox' = [inbox EXCEPT ![at[r]] = FALSE]
  /\ UNCHANGED <<loopVars, newest, at>>

ReadFails(r) ==
  /\ ReceiverStep(r, "read", "failed")
  /\ link[at[r]] # "up"
  /\ UNCHANGED <<loopVars, netVars, at>>

\* A close frame: the close handler clears w.connected before ReadMessage
\* returns its error.
ReadClose(r) ==
  /\ ReceiverStep(r, "read", "failed")
  /\ link[at[r]] = "down"
  /\ ~connMutex
  /\ connected' = FALSE
  /\ UNCHANGED <<conn, connMutex, pc, netVars, at>>

\* After a failed read: w.connected is cleared, whatever w.conn is now.
GiveUp(r) ==
  /\ ~connMutex
  /\ ReceiverStep(r, "failed", "none")
  /\ connected' = FALSE
  /\ at' = [at EXCEPT ![r] = None]
  /\ UNCHANGED <<conn, connMutex, pc, netVars>>

Finish_Ends(r) ==
  /\ ~connMutex
  /\ ReceiverStep(r, "command", "none")
  /\ UNCHANGED <<loopVars, netVars, at>>

\* The command has run and sendResponse answers over w.conn, if there is
\* one; a failing write clears w.connected.
Finish(r) ==
  /\ ~connMutex
  /\ ReceiverStep(r, "command", "top")
  /\ \/ UNCHANGED connected
     \/ connected /\ link[conn] = "down" /\ connected' = FALSE
  /\ UNCHANGED <<conn, connMutex, pc, netVars, at>>

-----------------------------------------------------------------------------
(* The panel and the network *)

\* SendCommand over the node's session.
Send(c) ==
  /\ c = newest
  /\ link[c] = "up"
  /\ ~inbox[c]
  /\ inbox' = [inbox EXCEPT ![c] = TRUE]
  /\ UNCHANGED <<loopVars, link, newest, receiverVars>>

Replace_Never(c) == FALSE /\ UNCHANGED vars

\* The panel closes the session a newer connection has replaced.
Replace(c) ==
  /\ c # newest
  /\ link[c] = "up"
  /\ link' = [link EXCEPT ![c] = "down"]
  /\ UNCHANGED <<loopVars, newest, inbox, receiverVars>>

\* The network or the panel goes away, or stays silent past the deadline.
Break(c) ==
  /\ link[c] = "up"
  /\ link' = [link EXCEPT ![c] = "down"]
  /\ UNCHANGED <<loopVars, newest, inbox, receiverVars>>

-----------------------------------------------------------------------------
LoopNext ==
  \/ StartDial \/ DialFails \/ Serve \/ Forsake \/ Retry \/ Tick \/ Cleanup
  \/ \E c \in Conns : DialSucceeds(c)

ReceiverNext(r) ==
  \/ Turn(r) \/ Read(r) \/ ReadTorn(r) \/ ReadFails(r) \/ ReadClose(r)
  \/ GiveUp(r) \/ Finish(r)

NetNext(c) == Send(c) \/ Replace(c) \/ Break(c)

Next ==
  \/ LoopNext
  \/ \E r \in Receivers : ReceiverNext(r)
  \/ \E c \in Conns : NetNext(c)

Spec == Init /\ [][Next]_vars

\* Goroutines that can run do, commands end, the panel closes what it has
\* replaced, and a dial that is tried for ever succeeds at last.  Nothing is
\* assumed of the order in which a dial and a receiver get the mutex.
Fairness ==
  /\ WF_vars(LoopNext)
  /\ SF_vars(\E c \in Conns : DialSucceeds(c))
  /\ \A r \in Receivers : SF_vars(ReceiverNext(r))
  /\ \A c \in Conns : WF_vars(Replace(c))

FairSpec == Spec /\ Fairness
-----------------------------------------------------------------------------
(* What makes the agent's end correct *)

\* While the run goroutine is about to dial or has not looked at what its
\* dial brought, no connection counts as live: the tests of w.connected in
\* run and connect, and the second one after the dial, never fire.
DownWhileDialling == pc \in {"check", "dial", "pause", "cleanup"} => ~connected

\* A connection the agent counts as live while it serves has a receiver that
\* reads it, will read it once its command is done, or is about to report it
\* lost: a receiver left over from an earlier connection may spoil it but
\* never leaves it deaf.
Attended ==
  connected /\ pc = "serve" =>
    \E r \in Receivers :
      \/ rpc[r] \in {"top", "command"}
      \/ rpc[r] \in {"read", "failed"} /\ at[r] = conn

\* No command waits for ever on a connection that both ends keep open and
\* nobody reads, although stale receivers make the agent forsake connections.
CommandTaken == \A c \in Conns : inbox[c] ~> ~inbox[c] \/ link[c] # "up"

\* The agent always connects again.
Reconnects == ~connected ~> connected

\* "State-changing commands stay synchronous, to be executed in order"
\* (websocket_reporter.go, handleReceivedMessage): no two run at once.
OneAtATime ==
  \A q, r \in Receivers : rpc[q] = "command" /\ rpc[r] = "command" => q = r
=============================================================================
