------------------------------ MODULE WsServer ------------------------------
(***************************************************************************)
(* The panel's WebSocket hub (go-backend/internal/ws/server.go): one       *)
(* handler goroutine per node connection, the sessions table, the pending  *)
(* table of commands waiting for their answer, and the SendCommand calls   *)
(* of the HTTP handlers and background jobs.                               *)
(*                                                                         *)
(* One action per critical section of Server.mu, channel operation or      *)
(* database write, so that every interleaving of handlers and callers the  *)
(* Go scheduler can produce is a behaviour.                                *)
(*                                                                         *)
(* Abstractions: a request id is the command itself (UnixNano ids are      *)
(* taken to be unique); payloads, encryption, metrics and broadcasts to    *)
(* admins are left out; a timeout or a lost peer may be noticed at any     *)
(* moment.  Definitions named X_<word> are single-bug variants of X used   *)
(* for mutation checking; no action refers to them.                        *)
(***************************************************************************)
EXTENDS Naturals, FiniteSets

CONSTANTS
  Nodes,   \* node ids
  Conns,   \* node WebSocket connections, each accepted at most once
  Cmds,    \* SendCommand calls, each made at most once
  None     \* no connection, no value

ASSUME NoneAssumption ==
  /\ None \notin Conns
  /\ None \notin Nodes
  /\ None \notin
    {"ok", "fail", "mismatch", "disconnected", "absent", "writeError", "timeout", "chanClosed"}

VARIABLES
  nodes,     \* Server.nodes: the current session of each node
  byConn,    \* Server.byConn: connections with a session
  pending,   \* Server.pending: commands waiting for an answer
  chan,      \* result channel of each command: its buffer and its closes
  sock,      \* the socket under each connection
  owner,     \* node served by each connection's handler
  hpc,       \* program counter of each connection's handler
  held,      \* commands a handler took out of pending, not yet answered
  verdict,   \* the result the handler is delivering to them
  spc,       \* program counter of each SendCommand call
  target,    \* its nodeID
  route,     \* the connection of the session it looked up
  outcome,   \* what it returned
  agent,     \* what became of the command on the node's side
  ran,       \* history: what the agent made of the command when it ran it
  dbStatus   \* column node.status

serverVars == <<nodes, byConn, pending, chan>>
handlerVars == <<sock, owner, hpc, held, verdict>>
callVars == <<spc, target, route, outcome>>
agentVars == <<agent, ran>>
vars == <<serverVars, handlerVars, callVars, agentVars, dbStatus>>

HandlerSteps == {"idle", "registered", "reading", "resolving",
                 "unregistered", "failing", "announcing", "closing", "done"}

\* The handler may still read from its connection, or is about to.
Serving == {"registered", "reading", "resolving"}

CallSteps == {"new", "looked", "added", "sent", "returned"}

Results == {"ok", "fail", "mismatch", "disconnected"}

Outcomes == Results \cup {"absent", "writeError", "timeout", "chanClosed"}

Chans == [buf : Results \cup {None}, closes : 0..2]

EmptyChan == [buf |-> None, closes |-> 0]

TypeOK ==
  /\ nodes \in [Nodes -> Conns \cup {None}]
  /\ byConn \in SUBSET Conns
  /\ pending \in SUBSET Cmds
  /\ chan \in [Cmds -> Chans]
  /\ sock \in [Conns -> {"none", "open", "broken", "closed"}]
  /\ owner \in [Conns -> Nodes \cup {None}]
  /\ hpc \in [Conns -> HandlerSteps]
  /\ held \in [Conns -> SUBSET Cmds]
  /\ verdict \in [Conns -> Results \cup {None}]
  /\ spc \in [Cmds -> CallSteps]
  /\ target \in [Cmds -> Nodes \cup {None}]
  /\ route \in [Cmds -> Conns \cup {None}]
  /\ \A m \in Cmds : spc[m] \in {"looked", "added", "sent"} => route[m] \in Conns
  /\ outcome \in [Cmds -> Outcomes \cup {None}]
  /\ agent \in [Cmds -> {"none", "wire", "ran", "answered"}]
  /\ ran \in [Cmds -> {"ok", "fail", None}]
  /\ dbStatus \in [Nodes -> {0, 1}]

Init ==
  /\ nodes = [n \in Nodes |-> None]
  /\ byConn = {}
  /\ pending = {}
  /\ chan = [m \in Cmds |-> EmptyChan]
  /\ sock = [c \in Conns |-> "none"]
  /\ owner = [c \in Conns |-> None]
  /\ hpc = [c \in Conns |-> "idle"]
  /\ held = [c \in Conns |-> {}]
  /\ verdict = [c \in Conns |-> None]
  /\ spc = [m \in Cmds |-> "new"]
  /\ target = [m \in Cmds |-> None]
  /\ route = [m \in Cmds |-> None]
  /\ outcome = [m \in Cmds |-> None]
  /\ agent = [m \in Cmds |-> "none"]
  /\ ran = [m \in Cmds |-> None]
  /\ dbStatus = [n \in Nodes |-> 0]

-----------------------------------------------------------------------------
(* Channels *)

\* close(ch); a second close would panic, so counting to two is enough.
Close(ch) == [buf |-> ch.buf, closes |-> IF ch.closes = 2 THEN 2 ELSE ch.closes + 1]

\* A send that gives up when the buffer (capacity 1) is full, then close:
\* how every holder of a pending entry answers its caller.
Answer(ch, result) ==
  Close([buf |-> IF ch.buf = None THEN result ELSE ch.buf, closes |-> ch.closes])

Cleanup_Unchecked(m) ==
  /\ pending' = pending \ {m}
  /\ chan' = [chan EXCEPT ![m] = Close(@)]

\* The cleanup closure of SendCommand: forget and close, if still pending.
Cleanup(m) ==
  \/ /\ m \in pending
     /\ pending' = pending \ {m}
     /\ chan' = [chan EXCEPT ![m] = Close(@)]
  \/ m \notin pending /\ UNCHANGED <<pending, chan>>

-----------------------------------------------------------------------------
(* The handler of a node connection *)

HandlerStep(c, from, to) ==
  /\ hpc[c] = from
  /\ hpc' = [hpc EXCEPT ![c] = to]

InByConn(old, c) == (byConn \ {old}) \cup {c}

\* Upgrade, then the critical section that replaces the node's session.
Register(c, n) ==
  /\ HandlerStep(c, "idle", "registered")
  /\ owner' = [owner EXCEPT ![c] = n]
  /\ LET old == nodes[n]
     IN  /\ sock' = [d \in Conns |-> IF d = c THEN "open"
                                     ELSE IF d = old THEN "closed" ELSE sock[d]]
         /\ byConn' = InByConn(old, c)
  /\ nodes' = [nodes EXCEPT ![n] = c]
  /\ UNCHANGED <<pending, chan, held, verdict, callVars, agentVars, dbStatus>>

\* UpdateNodeOnline(nodeID, 1, ...), outside the lock; then the read loop.
WriteOnline(c) ==
  /\ HandlerStep(c, "registered", "reading")
  /\ dbStatus' = [dbStatus EXCEPT ![owner[c]] = 1]
  /\ UNCHANGED <<serverVars, sock, owner, held, verdict, callVars, agentVars>>

\* The peer goes away or falls silent: reads will fail, writes may still pass.
Drop(c) ==
  /\ sock[c] = "open"
  /\ sock' = [sock EXCEPT ![c] = "broken"]
  /\ UNCHANGED <<serverVars, owner, hpc, held, verdict, callVars, agentVars, dbStatus>>

AnswerVerdict_Any(m, n, result) == result

\* The result tryResolvePending makes of an answer read from a connection of n.
AnswerVerdict(m, n, result) == IF target[m] = n THEN result ELSE "mismatch"

\* The entry of a read request id is taken out of pending.
Take(c, m, result) ==
  /\ m \in pending
  /\ HandlerStep(c, "reading", "resolving")
  /\ pending' = pending \ {m}
  /\ held' = [held EXCEPT ![c] = {m}]
  /\ verdict' = [verdict EXCEPT ![c] = AnswerVerdict(m, owner[c], result)]

\* A late answer finds no entry and is dropped.
DropLate(c, m) ==
  /\ m \notin pending
  /\ hpc[c] = "reading"
  /\ UNCHANGED <<pending, hpc, held, verdict>>

ReadMessage(c, m, result) ==
  /\ sock[c] = "open"
  /\ Take(c, m, result) \/ DropLate(c, m)
  /\ UNCHANGED <<nodes, byConn, chan, sock, owner, callVars, ran, dbStatus>>

\* The agent's answer, over whichever connection it has when it answers.
ReadAnswer(c, m) ==
  /\ agent[m] = "ran"
  /\ owner[c] = target[m]
  /\ agent' = [agent EXCEPT ![m] = "answered"]
  /\ ReadMessage(c, m, ran[m])

\* An answer with the request id of another node's command.
ReadStrayAnswer(c, m) ==
  /\ spc[m] = "sent"
  /\ owner[c] # target[m]
  /\ ReadMessage(c, m, "ok")
  /\ UNCHANGED agent

\* tryResolvePending hands the result over and goes back to reading.
Resolve(c, m) ==
  /\ HandlerStep(c, "resolving", "reading")
  /\ m \in held[c]
  /\ chan' = [chan EXCEPT ![m] = Answer(@, verdict[c])]
  /\ held' = [held EXCEPT ![c] = {}]
  /\ verdict' = [verdict EXCEPT ![c] = None]
  /\ UNCHANGED <<nodes, byConn, pending, sock, owner, callVars, agentVars, dbStatus>>

OwnsSession_Any(c) == nodes[owner[c]] # None

\* A session that is still this connection's goes away with it.
OwnsSession(c) == nodes[owner[c]] = c

ReadFails(c) == sock[c] \in {"broken", "closed"}

\* ReadMessage fails: the deferred critical section.
Unregister(c) ==
  /\ ReadFails(c)
  /\ HandlerStep(c, "reading", IF OwnsSession(c) THEN "unregistered" ELSE "closing")
  /\ nodes' = IF OwnsSession(c) THEN [nodes EXCEPT ![owner[c]] = None] ELSE nodes
  /\ byConn' = byConn \ {c}
  /\ UNCHANGED <<pending, chan, sock, owner, held, verdict, callVars, agentVars, dbStatus>>

\* failPendingForNode, the critical section.
CollectPending(c) ==
  /\ HandlerStep(c, "unregistered", "failing")
  /\ held' = [held EXCEPT ![c] = {m \in pending : target[m] = owner[c]}]
  /\ verdict' = [verdict EXCEPT ![c] = "disconnected"]
  /\ pending' = {m \in pending : target[m] # owner[c]}
  /\ UNCHANGED <<nodes, byConn, chan, sock, owner, callVars, agentVars, dbStatus>>

\* failPendingForNode, one turn of its second loop.
FailOne(c, m) ==
  /\ hpc[c] = "failing"
  /\ m \in held[c]
  /\ chan' = [chan EXCEPT ![m] = Answer(@, verdict[c])]
  /\ held' = [held EXCEPT ![c] = @ \ {m}]
  /\ UNCHANGED <<nodes, byConn, pending, sock, owner, hpc, verdict, callVars, agentVars, dbStatus>>

\* UpdateNodeStatus(nodeID, 0).
WriteOffline(c) ==
  /\ HandlerStep(c, "failing", "closing")
  /\ held[c] = {}
  /\ dbStatus' = [dbStatus EXCEPT ![owner[c]] = 0]
  /\ verdict' = [verdict EXCEPT ![c] = None]
  /\ UNCHANGED <<serverVars, sock, owner, held, callVars, agentVars>>

CloseConn(c) ==
  /\ HandlerStep(c, "closing", "done")
  /\ sock' = [sock EXCEPT ![c] = "closed"]
  /\ UNCHANGED <<serverVars, owner, held, verdict, callVars, agentVars, dbStatus>>

-----------------------------------------------------------------------------
(* SendCommand *)

\* Every return of SendCommand.
Return(m, o) ==
  /\ spc' = [spc EXCEPT ![m] = "returned"]
  /\ outcome' = [outcome EXCEPT ![m] = o]

\* The node has no session.
LookupAbsent(m, n) ==
  /\ spc[m] = "new"
  /\ nodes[n] = None
  /\ target' = [target EXCEPT ![m] = n]
  /\ Return(m, "absent")
  /\ UNCHANGED <<serverVars, handlerVars, route, agentVars, dbStatus>>

Lookup_Unchecked(m, n) ==
  /\ spc[m] = "new"
  /\ target' = [target EXCEPT ![m] = n]
  /\ route' = [route EXCEPT ![m] = nodes[n]]
  /\ spc' = [spc EXCEPT ![m] = "looked"]
  /\ UNCHANGED <<serverVars, handlerVars, outcome, agentVars, dbStatus>>

Lookup(m, n) ==
  /\ spc[m] = "new"
  /\ nodes[n] # None
  /\ target' = [target EXCEPT ![m] = n]
  /\ route' = [route EXCEPT ![m] = nodes[n]]
  /\ spc' = [spc EXCEPT ![m] = "looked"]
  /\ UNCHANGED <<serverVars, handlerVars, outcome, agentVars, dbStatus>>

AddPending(m) ==
  /\ spc[m] = "looked"
  /\ pending' = pending \cup {m}
  /\ spc' = [spc EXCEPT ![m] = "added"]
  /\ UNCHANGED <<nodes, byConn, chan, handlerVars, target, route, outcome, agentVars, dbStatus>>

\* A frame put on a connection reaches the agent only if its peer is there.
OnWire(m) == [agent EXCEPT ![m] = IF sock[route[m]] = "open" THEN "wire" ELSE @]

\* The write is accepted by a socket that is not closed yet.
WriteCommand(m) ==
  /\ spc[m] = "added"
  /\ sock[route[m]] # "closed"
  /\ spc' = [spc EXCEPT ![m] = "sent"]
  /\ agent' = OnWire(m)
  /\ UNCHANGED <<serverVars, handlerVars, target, route, outcome, ran, dbStatus>>

\* The write fails: the socket is closed or breaks, or the write deadline
\* passes with the frame perhaps delivered.
WriteFails(m) ==
  /\ spc[m] = "added"
  /\ Return(m, "writeError")
  /\ Cleanup(m)
  /\ agent' \in {agent, OnWire(m)}
  /\ UNCHANGED <<nodes, byConn, handlerVars, target, route, ran, dbStatus>>

\* The select receives from the channel.
Receive(m) ==
  /\ spc[m] = "sent"
  /\ \/ chan[m].buf # None /\ Return(m, chan[m].buf)
     \/ chan[m].buf = None /\ chan[m].closes > 0 /\ Return(m, "chanClosed")
  /\ UNCHANGED <<serverVars, handlerVars, target, route, agentVars, dbStatus>>

Timeout_Never(m) == FALSE /\ UNCHANGED vars

\* The select takes the timer's case.
Timeout(m) ==
  /\ spc[m] = "sent"
  /\ Return(m, "timeout")
  /\ Cleanup(m)
  /\ UNCHANGED <<nodes, byConn, handlerVars, target, route, agentVars, dbStatus>>

-----------------------------------------------------------------------------
(* The node's agent, as far as the hub can see it *)

Run(m) ==
  /\ agent[m] = "wire"
  /\ agent' = [agent EXCEPT ![m] = "ran"]
  /\ \E r \in {"ok", "fail"} : ran' = [ran EXCEPT ![m] = r]
  /\ UNCHANGED <<serverVars, handlerVars, callVars, dbStatus>>

-----------------------------------------------------------------------------
HandlerNext(c) ==
  \/ \E n \in Nodes : Register(c, n)
  \/ WriteOnline(c) \/ Drop(c)
  \/ \E m \in Cmds : ReadAnswer(c, m) \/ ReadStrayAnswer(c, m) \/ Resolve(c, m) \/ FailOne(c, m)
  \/ Unregister(c) \/ CollectPending(c) \/ WriteOffline(c) \/ CloseConn(c)

CallNext(m) ==
  \/ \E n \in Nodes : LookupAbsent(m, n) \/ Lookup(m, n)
  \/ AddPending(m) \/ WriteCommand(m) \/ WriteFails(m) \/ Receive(m) \/ Timeout(m)

Next ==
  \/ \E c \in Conns : HandlerNext(c)
  \/ \E m \in Cmds : CallNext(m) \/ Run(m)

Spec == Init /\ [][Next]_vars

\* Goroutines that can run do run; writes carry a 5 s deadline and every wait
\* a timer.  Nothing is assumed of agents, of peers or of new calls.
Fairness ==
  /\ \A c \in Conns :
       /\ WF_vars(WriteOnline(c)) /\ WF_vars(Unregister(c)) /\ WF_vars(CollectPending(c))
       /\ WF_vars(\E m \in Cmds : Resolve(c, m)) /\ WF_vars(\E m \in Cmds : FailOne(c, m))
       /\ WF_vars(WriteOffline(c)) /\ WF_vars(CloseConn(c))
  /\ \A m \in Cmds :
       /\ WF_vars(AddPending(m)) /\ WF_vars(WriteCommand(m) \/ WriteFails(m))
       /\ WF_vars(Receive(m) \/ Timeout(m))

FairSpec == Spec /\ Fairness
-----------------------------------------------------------------------------
(* What makes the hub correct *)

\* A command's channel is closed at most once and never sent on after it was
\* closed (either panics the panel), although a read answer, a disconnect, a
\* failed write and a timeout race for it: ws/server.go, the three places
\* that close a pending channel.
ChannelClosedOnce == \A m \in Cmds : chan[m].closes <= 1

\* SendCommand says "ok" only if the target's own agent ran the command with
\* success, whoever answered and however late.
OkMeansRan == \A m \in Cmds : outcome[m] = "ok" => ran[m] = "ok"

\* The branch for a channel closed without a result is never taken: whoever
\* takes a pending entry from a waiting caller leaves it a result.
NoEmptyChannel == \A m \in Cmds : outcome[m] # "chanClosed"

\* No entry outlives its call: the pending table only holds commands whose
\* SendCommand will still look after them.
PendingHasCaller == \A m \in pending : spc[m] \in {"added", "sent"}

\* The session of a node is the connection whose handler will remove it, and
\* a connection that is still open and served is its node's session: a
\* replaced handler never takes its successor's session away.
SessionIsTheOpenConn ==
  \A c \in Conns, n \in Nodes :
    /\ nodes[n] = c => owner[c] = n /\ hpc[c] \in Serving
    /\ sock[c] = "open" /\ owner[c] = n /\ hpc[c] \in Serving => nodes[n] = c

\* Every call returns, whatever becomes of its node and its connection.
CallReturns == \A m \in Cmds : spc[m] = "looked" ~> spc[m] = "returned"

\* With no handler between its registration and its first read, and none
\* between its last read and its end, the node list shows a connected node
\* online (doc/install.md: a node whose agent is connected shows as online).
HandlersAtRest == \A c \in Conns : hpc[c] \in {"idle", "reading", "done"}

ConnectedShowsOnline ==
  HandlersAtRest => \A n \in Nodes : nodes[n] # None => dbStatus[n] = 1

\* Each call has one outcome, and "ok" is only said of a command that ran.
Call == INSTANCE CommandCall WITH
          run <- ran,
          outcome <- [m \in Cmds |-> IF outcome[m] \in {"ok", None} THEN outcome[m] ELSE "failed"]

CallSpec == Call!Spec
=============================================================================
