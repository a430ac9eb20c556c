----------------------------- MODULE Federation -----------------------------
(***************************************************************************)
(* Tunnels that use nodes of another panel (handler/mutations.go,          *)
(* handler/federation.go).  From the exit of a tunnel towards its entry    *)
(* the consuming panel reserves a port at the providing panel for each     *)
(* hop and has the hop's role applied; then it stores the tunnel with its  *)
(* bindings and sends the chain to its own entry node.  An update, which   *)
(* may ask for other hops, or a redeploy releases everything first and     *)
(* begins again.  The providing panel keeps one row for each resource key  *)
(* (tunnel and hop) and commands its own nodes.                            *)
(*                                                                         *)
(* Requests (Tasks) run side by side; so do the calls they make, which the *)
(* providing panel works off in steps.  A caller gives up after 10 s, and  *)
(* its call may run on.  A command to a node runs or not before its sender *)
(* knows.  Each hop is one node with a share of its own, and one entry     *)
(* node per tunnel is local.  Deletion of shares and database errors are   *)
(* left out.  Definitions named X_<word> are single-bug variants of X.     *)
(***************************************************************************)
EXTENDS Naturals, FiniteSets, Sequences

CONSTANTS
  Tunnels,
  Hops,         \* a node in the role it plays: node, chain type and index
  Exits,        \* those whose role is exit; the others are middle hops
  Paths,        \* the hops a tunnel may be made of, the exit first
  Tasks,        \* requests at work at one time
  None,         \* no task, no hop
  OneConn,      \* the consuming panel's database allows one connection (SQLite)
  MaxPort,
  Share,        \* the ports of each hop's share
  MaxRequests,
  MaxFaults     \* calls and commands whose answer is lost, commands that fail

ASSUME NoneAssumption == None \notin Tasks
ASSUME PathAssumption ==
  \A p \in Paths : /\ p \in Seq(Hops) /\ Len(p) > 0
                   /\ \A i \in 1..Len(p) : p[i] \in Exits <=> i = 1
                   /\ \A i, j \in 1..Len(p) : p[i] = p[j] => i = j
ASSUME BoolAssumption == OneConn \in BOOLEAN
ASSUME ShareAssumption == Share \in [Hops -> SUBSET (1..MaxPort)]
ASSUME BoundAssumption == {MaxPort, MaxRequests, MaxFaults} \subseteq Nat

VARIABLES
  tunnel,    \* the tunnel's row: new (none yet), coming, there, gone
  route,     \* the hops in its chain rows
  stored,    \* and their ports
  bound,     \* the hops its bindings name
  entry,     \* what the entry node's chain dials
  db,        \* who holds the one connection for a transaction
  task,
  calls,     \* federation calls, those nobody waits for included
  row,       \* peer_share_runtime, by hop and tunnel
  svc,       \* the port a hop's node serves for a tunnel, 0 if none
  chain,     \* what the chain of a hop's node dials for a tunnel
  requests, faults,
  trouble    \* history: what went wrong

consumerVars == <<tunnel, route, stored, bound, entry>>
nodeVars == <<svc, chain>>
countVars == <<requests, faults, trouble>>
vars == <<consumerVars, db, task, calls, row, nodeVars, countVars>>

PortsOrNone == 0..MaxPort

NoPath == <<>>

HopsOf(p) == {p[i] : i \in 1..Len(p)}

\* The hop the entry node dials.
First(p) == p[Len(p)]

\* A hop and the port it is dialled at, of a chain that exists.
Targets == [hop : Hops \cup {None}, port : PortsOrNone]

NoTarget == [hop |-> None, port |-> 0]

Ops == {"create", "update", "redeploy", "delete"}

Steps == {"unchain", "list", "releasing", "drop", "begin", "reserving",
          "applying", "undo", "store", "entry", "cascade", "end"}

\* path: the hops asked for, from the exit; done: how many of them are set up;
\* port: of each hop; todo: hops to release, the last of them first, left of
\* them still to go; then: what follows.
Task ==
  {x \in [pc : Steps, op : Ops, tunnel : Tunnels, path : Paths, done : Nat,
          port : [Hops -> PortsOrNone], todo : Paths \cup {NoPath}, left : Nat,
          then : {"end", "drop", "begin", "cascade"}] :
     /\ x.done <= Len(x.path)
     /\ x.pc \in {"reserving", "applying"} => x.done < Len(x.path)
     /\ x.left <= Len(x.todo)
     /\ x.pc = "releasing" => x.left > 0}

Idle == [pc |-> "idle"]

Kinds == {"reserve", "apply", "release"}

CallSteps == {"new", "write", "chain", "service", "unchain", "delete", "delchain",
              "mark", "ok", "error"}

\* port: the one asked for, then the one found; target: what a role's chain is
\* to dial, nothing for an exit; found: reserve has found a row.
Call ==
  [by : Tasks \cup {None}, kind : Kinds, tunnel : Tunnels, hop : Hops, pc : CallSteps,
   port : PortsOrNone, target : Targets, found : BOOLEAN]

NoRow == [status |-> 0, applied |-> 0, port |-> 0]

Rows == [status : {0, 1}, applied : {0, 1}, port : PortsOrNone]

Troubles == {"met", "raced", "lost", "command", "conflict", "dial"}

TypeOK ==
  /\ tunnel \in [Tunnels -> {"new", "coming", "there", "gone"}]
  /\ route \in [Tunnels -> Paths \cup {NoPath}]
  /\ \A t \in Tunnels : tunnel[t] = "there" => route[t] # NoPath
  /\ stored \in [Tunnels -> [Hops -> PortsOrNone]]
  /\ bound \in [Tunnels -> Paths \cup {NoPath}]
  /\ entry \in [Tunnels -> Targets]
  /\ db \in Tasks \cup {None}
  /\ task \in [Tasks -> Task \cup {Idle}]
  /\ calls \subseteq Call
  /\ row \in [Hops -> [Tunnels -> Rows]]
  /\ svc \in [Hops -> [Tunnels -> PortsOrNone]]
  /\ chain \in [Hops -> [Tunnels -> Targets]]
  /\ requests \in 0..MaxRequests
  /\ faults \in 0..MaxFaults
  /\ trouble \subseteq Troubles

NoPorts == [h \in Hops |-> 0]

Init ==
  /\ tunnel = [t \in Tunnels |-> "new"]
  /\ route = [t \in Tunnels |-> NoPath]
  /\ stored = [t \in Tunnels |-> NoPorts]
  /\ bound = [t \in Tunnels |-> NoPath]
  /\ entry = [t \in Tunnels |-> NoTarget]
  /\ db = None
  /\ task = [k \in Tasks |-> Idle]
  /\ calls = {}
  /\ row = [h \in Hops |-> [t \in Tunnels |-> NoRow]]
  /\ svc = [h \in Hops |-> [t \in Tunnels |-> 0]]
  /\ chain = [h \in Hops |-> [t \in Tunnels |-> NoTarget]]
  /\ requests = 0 /\ faults = 0
  /\ trouble = {}

-----------------------------------------------------------------------------
(* Requests of the consuming panel *)

At(k, s) == task[k].pc = s

\* A query outside a transaction: it waits for the one connection.
Query == db = None

Goto(k, s) == task' = [task EXCEPT ![k].pc = s]

Begins(k, op, t, step, path, ports) ==
  /\ task[k] = Idle
  /\ Query
  /\ requests < MaxRequests
  /\ requests' = requests + 1
  /\ task' = [task EXCEPT ![k] =
       [pc |-> step, op |-> op, tunnel |-> t, path |-> path, done |-> 0, port |-> ports,
        todo |-> NoPath, left |-> 0, then |-> "end"]]
  /\ trouble' = trouble \cup
       (IF \E j \in Tasks : task[j] # Idle /\ task[j].tunnel = t THEN {"met"} ELSE {})
  /\ UNCHANGED <<route, stored, bound, entry, db, calls, row, nodeVars, faults>>

\* The ports a request names for the hops of a path, 0 to leave it open.
Wishes(path) == {p \in [Hops -> PortsOrNone] : \A h \in Hops \ HopsOf(path) : p[h] = 0}

TunnelCreate(k, t) ==
  /\ tunnel[t] = "new"
  /\ tunnel' = [tunnel EXCEPT ![t] = "coming"]
  /\ \E path \in Paths : \E p \in Wishes(path) : Begins(k, "create", t, "begin", path, p)

\* The hops and ports asked for replace those the tunnel has.
TunnelUpdate(k, t) ==
  /\ tunnel[t] = "there"
  /\ UNCHANGED tunnel
  /\ \E path \in Paths : \E p \in Wishes(path) : Begins(k, "update", t, "unchain", path, p)

TunnelRedeploy(k, t) ==
  /\ tunnel[t] = "there"
  /\ UNCHANGED tunnel
  /\ Begins(k, "redeploy", t, "unchain", route[t], NoPorts)

TunnelDelete(k, t) ==
  /\ tunnel[t] = "there"
  /\ UNCHANGED tunnel
  /\ Begins(k, "delete", t, "unchain", route[t], NoPorts)

\* One of the commands that may fail does: it ran or it did not.
Fails ==
  /\ faults < MaxFaults
  /\ faults' = faults + 1
  /\ trouble' = trouble \cup {"command"}

Works == UNCHANGED <<faults, trouble>>

\* cleanupTunnelRuntime: the entry node forgets the chain; errors are ignored.
Unchain(k) ==
  /\ At(k, "unchain")
  /\ Query
  /\ Goto(k, "list")
  /\ LET t == task[k].tunnel
     IN  \/ Works /\ entry' = IF tunnel[t] = "there" THEN [entry EXCEPT ![t] = NoTarget] ELSE entry
         \/ Fails /\ UNCHANGED entry
  /\ UNCHANGED <<tunnel, route, stored, bound, db, calls, row, nodeVars, requests>>

NewCall(k, kind, hop, port, target) ==
  [by |-> k, kind |-> kind, tunnel |-> task[k].tunnel, hop |-> hop, pc |-> "new",
   port |-> port, target |-> target, found |-> FALSE]

Mine(k) == {c \in calls : c.by = k}

\* Release the first n hops of todo one by one, the last of them first; bindings
\* are listed, and what was applied is taken back, in that order.  Then go on.
Releases(k, todo, n, then) ==
  /\ task' = [task EXCEPT ![k].pc = IF n = 0 THEN then ELSE "releasing",
                          ![k].todo = todo, ![k].left = n, ![k].then = then]
  /\ calls' = (calls \ Mine(k)) \cup
       (IF n = 0 THEN {} ELSE {NewCall(k, "release", todo[n], 0, NoTarget)})

AfterCleanup(k) == IF task[k].op = "delete" THEN "cascade" ELSE "begin"

\* cleanupFederationRuntime: release what the bindings name.
List(k) ==
  /\ At(k, "list")
  /\ Query
  /\ LET todo == bound[task[k].tunnel]
     IN  Releases(k, todo, Len(todo), IF todo = NoPath THEN AfterCleanup(k) ELSE "drop")
  /\ UNCHANGED <<consumerVars, db, row, nodeVars, countVars>>

Ended(c) == c.pc \in {"ok", "error"}

\* What a release answers is not looked at.
Released(k) ==
  /\ At(k, "releasing")
  /\ \E c \in Mine(k) : Ended(c)
  /\ Releases(k, task[k].todo, task[k].left - 1, task[k].then)
  /\ UNCHANGED <<consumerVars, db, row, nodeVars, countVars>>

\* The bindings are deleted, after a clean-up or when the entry node failed.
Drop(k) ==
  /\ At(k, "drop")
  /\ Query
  /\ bound' = [bound EXCEPT ![task[k].tunnel] = NoPath]
  /\ Goto(k, IF task[k].done = 0 THEN AfterCleanup(k) ELSE "end")
  /\ UNCHANGED <<tunnel, route, stored, entry, db, calls, row, nodeVars, countVars>>

\* DeleteTunnelCascade.
Cascade(k) ==
  /\ At(k, "cascade")
  /\ Query
  /\ LET t == task[k].tunnel
     IN  /\ tunnel' = [tunnel EXCEPT ![t] = "gone"]
         /\ route' = [route EXCEPT ![t] = NoPath]
         /\ stored' = [stored EXCEPT ![t] = NoPorts]
         /\ bound' = [bound EXCEPT ![t] = NoPath]
  /\ Goto(k, "end")
  /\ UNCHANGED <<entry, db, calls, row, nodeVars, countVars>>

\* Reserve a port for the next hop of the path.
Reserves(k, path, done, ports) ==
  /\ task' = [task EXCEPT ![k].pc = "reserving", ![k].path = path, ![k].done = done,
                          ![k].port = ports, ![k].then = "end"]
  /\ calls' = (calls \ Mine(k)) \cup
       {NewCall(k, "reserve", path[done + 1], ports[path[done + 1]], NoTarget)}

\* Create and update open their transaction before applyFederationRuntime and
\* keep it; a redeploy works from the stored rows without one.
Begin(k) ==
  /\ At(k, "begin")
  /\ Query
  /\ LET t == task[k].tunnel
     IN  IF task[k].op = "redeploy"
         THEN tunnel[t] = "there" /\ Reserves(k, route[t], 0, stored[t]) /\ UNCHANGED db
         ELSE /\ Reserves(k, task[k].path, 0, task[k].port)
              /\ db' = IF OneConn THEN k ELSE None
  /\ UNCHANGED <<consumerVars, row, nodeVars, countVars>>

\* The tunnel is gone, or a node of it is not online.
BeginRefused(k) ==
  /\ At(k, "begin")
  /\ Query
  /\ task[k].op = "redeploy" => tunnel[task[k].tunnel] # "there"
  /\ Goto(k, "end")
  /\ UNCHANGED <<consumerVars, db, calls, row, nodeVars, countVars>>

\* The hop being set up.
Hop(k) == task[k].path[task[k].done + 1]

\* What it is to dial: the hop set up before it; the exit dials no hop.
Beyond(k) ==
  IF task[k].done = 0 THEN NoTarget
  ELSE LET h == task[k].path[task[k].done] IN [hop |-> h, port |-> task[k].port[h]]

\* Then have the role applied.
Reserved(k) ==
  /\ At(k, "reserving")
  /\ \E c \in Mine(k) :
       /\ c.pc = "ok"
       /\ task' = [task EXCEPT ![k].pc = "applying", ![k].port[Hop(k)] = c.port]
       /\ calls' = (calls \ Mine(k)) \cup {NewCall(k, "apply", Hop(k), 0, Beyond(k))}
  /\ UNCHANGED <<consumerVars, db, row, nodeVars, countVars>>

\* selectTunnelDialHost finds no address family that a middle hop shares with
\* the next: the port stays reserved.
DialFails(k) ==
  /\ At(k, "reserving")
  /\ task[k].done > 0
  /\ \E c \in Mine(k) : c.pc = "ok"
  /\ calls' = calls \ Mine(k)
  /\ Goto(k, "undo")
  /\ trouble' = trouble \cup {"dial"}
  /\ UNCHANGED <<consumerVars, db, row, nodeVars, requests, faults>>

\* The port is asked for again.
ReserveAgain_Stubborn(k) ==
  /\ At(k, "reserving")
  /\ \E c \in Mine(k) : c.pc = "error"
  /\ task[k].port[Hop(k)] > 0
  /\ Reserves(k, task[k].path, task[k].done, task[k].port)
  /\ UNCHANGED <<consumerVars, db, row, nodeVars, countVars>>

\* A port that was asked for is not to be had: any other will do.
ReserveAgain(k) ==
  /\ At(k, "reserving")
  /\ \E c \in Mine(k) : c.pc = "error"
  /\ task[k].port[Hop(k)] > 0
  /\ Reserves(k, task[k].path, task[k].done, [task[k].port EXCEPT ![Hop(k)] = 0])
  /\ UNCHANGED <<consumerVars, db, row, nodeVars, countVars>>

ReserveFails(k) ==
  /\ At(k, "reserving")
  /\ \E c \in Mine(k) : c.pc = "error"
  /\ task[k].port[Hop(k)] = 0
  /\ calls' = calls \ Mine(k)
  /\ Goto(k, "undo")
  /\ UNCHANGED <<consumerVars, db, row, nodeVars, countVars>>

\* On to the next hop, or to the rows.
Applied(k) ==
  /\ At(k, "applying")
  /\ \E c \in Mine(k) :
       /\ c.pc = "ok"
       /\ LET ports == [task[k].port EXCEPT ![Hop(k)] = c.port]
              done == task[k].done + 1
          IN  IF done < Len(task[k].path)
              THEN Reserves(k, task[k].path, done, ports)
              ELSE /\ task' = [task EXCEPT ![k].pc = "store", ![k].port = ports, ![k].done = done]
                   /\ calls' = calls \ Mine(k)
  /\ UNCHANGED <<consumerVars, db, row, nodeVars, countVars>>

ApplyFails(k) ==
  /\ At(k, "applying")
  /\ \E c \in Mine(k) : c.pc = "error"
  /\ calls' = calls \ Mine(k)
  /\ Goto(k, "undo")
  /\ UNCHANGED <<consumerVars, db, row, nodeVars, countVars>>

\* The loop over what was applied stops short of the first.
Undo_Short(k) ==
  /\ At(k, "undo")
  /\ task[k].done > 0 => Query
  /\ Releases(k, task[k].path, IF task[k].done > 1 THEN task[k].done - 1 ELSE 0, task[k].then)
  /\ UNCHANGED <<consumerVars, db, row, nodeVars, countVars>>

\* releaseFederationRuntimeRefs: what was applied is taken back, not what was
\* only reserved.  It reads a configuration value first, outside the
\* transaction that may be open.
Undo(k) ==
  /\ At(k, "undo")
  /\ task[k].done > 0 => Query
  /\ Releases(k, task[k].path, task[k].done, task[k].then)
  /\ UNCHANGED <<consumerVars, db, row, nodeVars, countVars>>

\* The chain rows (not those of a redeploy) and the bindings, then Commit.
Store(k) ==
  /\ At(k, "store")
  /\ db \in {None, k}
  /\ db' = None
  /\ LET t == task[k].tunnel
     IN  /\ bound' = [bound EXCEPT ![t] = task[k].path]
         /\ IF task[k].op = "redeploy" THEN UNCHANGED <<route, stored>>
            ELSE /\ route' = [route EXCEPT ![t] = task[k].path]
                 /\ stored' = [stored EXCEPT ![t] = task[k].port]
         /\ tunnel' = IF task[k].op = "create" THEN [tunnel EXCEPT ![t] = "there"] ELSE tunnel
  /\ Goto(k, "entry")
  /\ UNCHANGED <<entry, calls, row, nodeVars, countVars>>

\* validateTunnelEntryPortConflictsForNewEntriesTx: the update is refused and
\* rolled back, after the roles were applied.
Conflict(k) ==
  /\ At(k, "store")
  /\ task[k].op = "update"
  /\ Goto(k, "end")
  /\ trouble' = trouble \cup {"conflict"}
  /\ UNCHANGED <<consumerVars, db, calls, row, nodeVars, requests, faults>>

\* applyTunnelRuntime at the entry node; a chain that exists counts as done.
\* When no chain can be built, or the command fails, everything is undone.
Entry(k) ==
  LET t == task[k].tunnel
      h == First(task[k].path)
      new == [hop |-> h, port |-> task[k].port[h]]
      added == [entry EXCEPT ![t] = IF @ = NoTarget THEN new ELSE @]
      undone == task' = [task EXCEPT ![k].pc = "undo",
                           ![k].then = IF task[k].op = "create" THEN "cascade" ELSE "drop"]
  IN
  /\ At(k, "entry")
  /\ Query
  /\ \/ Works /\ entry' = added /\ Goto(k, "end")
     \/ Works /\ UNCHANGED entry /\ undone
     \/ Fails /\ entry' \in {entry, added} /\ undone
  /\ UNCHANGED <<tunnel, route, stored, bound, db, calls, row, nodeVars, requests>>

\* The answer; a transaction that is still open is rolled back.
End(k) ==
  /\ At(k, "end")
  /\ db' = IF db = k THEN None ELSE db
  /\ LET t == task[k].tunnel
     IN  tunnel' = IF tunnel[t] = "coming" /\ task[k].op = "create"
                   THEN [tunnel EXCEPT ![t] = "new"] ELSE tunnel
  /\ task' = [task EXCEPT ![k] = Idle]
  /\ calls' = calls \ Mine(k)
  /\ UNCHANGED <<route, stored, bound, entry, row, nodeVars, countVars>>

-----------------------------------------------------------------------------
(* Calls at the providing panel *)

Becomes(c, d) == calls' = (calls \ {c}) \cup (IF d.by = None /\ Ended(d) THEN {} ELSE {d})

CallAt(c, kind, s) == c.kind = kind /\ c.pc = s

RowOf(c) == row[c.hop][c.tunnel]

SetRow(c, r) == row' = [row EXCEPT ![c.hop][c.tunnel] = r]

\* One port past the end of the share's range.
FreePorts_Beyond(h) ==
  (Share[h] \cup {MaxPort + 1}) \
    {row[h][t].port : t \in {u \in Tunnels : row[h][u].status = 1}}

\* Reserved ports count only once a role was applied.
FreePorts_Applied(h) ==
  Share[h] \ {row[h][t].port : t \in {u \in Tunnels : row[h][u].applied = 1}}

\* Ports of the share that no active row holds.
FreePorts(h) ==
  Share[h] \ {row[h][t].port : t \in {u \in Tunnels : row[h][u].status = 1}}

\* pickPeerSharePort: the port asked for, or the least free one.
Picks(c) ==
  LET free == FreePorts(c.hop)
  IN  IF c.port > 0 THEN free \cap {c.port} ELSE {p \in free : \A q \in free : p <= q}

\* An active row is the answer; else a port is picked for it.
ReserveRead(c) ==
  /\ CallAt(c, "reserve", "new")
  /\ \/ /\ RowOf(c).status = 1
        /\ Becomes(c, [c EXCEPT !.pc = "ok", !.port = RowOf(c).port])
     \/ /\ RowOf(c).status = 0
        /\ \/ \E p \in Picks(c) :
                Becomes(c, [c EXCEPT !.pc = "write", !.port = p, !.found = RowOf(c) # NoRow])
           \/ Picks(c) = {} /\ Becomes(c, [c EXCEPT !.pc = "error"])
  /\ UNCHANGED <<consumerVars, db, task, row, nodeVars, countVars>>

Racing(c) == \E d \in calls \ {c} : CallAt(d, "reserve", "write") /\ d.hop = c.hop

\* An insert fails when another call has made the row; an update does not ask.
ReserveWrite(c) ==
  /\ CallAt(c, "reserve", "write")
  /\ trouble' = trouble \cup (IF Racing(c) THEN {"raced"} ELSE {})
  /\ IF ~c.found /\ RowOf(c) # NoRow
     THEN Becomes(c, [c EXCEPT !.pc = "error"]) /\ UNCHANGED row
     ELSE /\ SetRow(c, [status |-> 1, applied |-> 0, port |-> c.port])
          /\ Becomes(c, [c EXCEPT !.pc = "ok"])
  /\ UNCHANGED <<consumerVars, db, task, nodeVars, requests, faults>>

\* A row that was released is not found; one whose role was applied is the
\* answer, whatever the targets; else the port is the row's of now.
ApplyRead(c) ==
  /\ CallAt(c, "apply", "new")
  /\ LET r == RowOf(c)
     IN  \/ r.status = 0 /\ Becomes(c, [c EXCEPT !.pc = "error"])
         \/ r.status = 1 /\ r.applied = 1 /\ Becomes(c, [c EXCEPT !.pc = "ok", !.port = r.port])
         \/ /\ r.status = 1 /\ r.applied = 0
            /\ Becomes(c, [c EXCEPT !.pc = IF c.hop \in Exits THEN "service" ELSE "chain",
                                    !.port = r.port])
  /\ UNCHANGED <<consumerVars, db, task, row, nodeVars, countVars>>

\* AddChains; a chain that exists counts as added, whatever it dials.
AddChain(c) ==
  LET added == [chain EXCEPT ![c.hop][c.tunnel] = IF @ = NoTarget THEN c.target ELSE @]
  IN
  /\ CallAt(c, "apply", "chain")
  /\ \/ Works /\ chain' = added /\ Becomes(c, [c EXCEPT !.pc = "service"])
     \/ Fails /\ chain' \in {chain, added} /\ Becomes(c, [c EXCEPT !.pc = "error"])
  /\ UNCHANGED <<consumerVars, db, task, row, svc, requests>>

Free(h, p) == \A t \in Tunnels : svc[h][t] # p

\* AddService; a service that exists counts as added, whatever its port, and a
\* port another service has cannot be bound.
AddService(c) ==
  LET old == svc[c.hop][c.tunnel]
      added == [svc EXCEPT ![c.hop][c.tunnel] = IF @ = 0 THEN c.port ELSE @]
      binds == old # 0 \/ Free(c.hop, c.port)
      failing == Becomes(c, [c EXCEPT !.pc = IF c.hop \in Exits THEN "error" ELSE "unchain"])
  IN
  /\ CallAt(c, "apply", "service")
  /\ \/ binds /\ Works /\ svc' = added /\ Becomes(c, [c EXCEPT !.pc = "write"])
     \/ Fails /\ svc' \in (IF binds THEN {svc, added} ELSE {svc}) /\ failing
     \/ ~binds /\ Works /\ UNCHANGED svc /\ failing
  /\ UNCHANGED <<consumerVars, db, task, row, chain, requests>>

\* A release leaves the chain.
DeleteChain_Kept(c) ==
  /\ c.pc \in {"unchain", "delchain"}
  /\ IF c.kind = "apply" THEN chain' = [chain EXCEPT ![c.hop][c.tunnel] = NoTarget] ELSE UNCHANGED chain
  /\ Becomes(c, [c EXCEPT !.pc = IF c.kind = "apply" THEN "error" ELSE "mark"])
  /\ UNCHANGED <<consumerVars, db, task, row, svc, countVars>>

\* DeleteChains; in an apply it follows the service that failed, in a release
\* the service that was deleted.
DeleteChain(c) ==
  /\ c.pc \in {"unchain", "delchain"}
  /\ \/ Works /\ chain' = [chain EXCEPT ![c.hop][c.tunnel] = NoTarget]
     \/ Fails /\ UNCHANGED chain
  /\ Becomes(c, [c EXCEPT !.pc = IF c.kind = "apply" THEN "error" ELSE "mark"])
  /\ UNCHANGED <<consumerVars, db, task, row, svc, requests>>

\* The row is written as it was read, but applied.
ApplyWrite(c) ==
  /\ CallAt(c, "apply", "write")
  /\ SetRow(c, [status |-> 1, applied |-> 1, port |-> c.port])
  /\ Becomes(c, [c EXCEPT !.pc = "ok"])
  /\ UNCHANGED <<consumerVars, db, task, nodeVars, countVars>>

\* Only a row whose role was applied has a binding to be found by, whether it
\* is active or not.
ReleaseRead(c) ==
  /\ CallAt(c, "release", "new")
  /\ Becomes(c, [c EXCEPT !.pc = IF RowOf(c).applied = 1 THEN "delete" ELSE "ok"])
  /\ UNCHANGED <<consumerVars, db, task, row, nodeVars, countVars>>

\* DeleteService; errors are ignored.
DeleteService(c) ==
  /\ CallAt(c, "release", "delete")
  /\ \/ Works /\ svc' = [svc EXCEPT ![c.hop][c.tunnel] = 0]
     \/ Fails /\ UNCHANGED svc
  /\ Becomes(c, [c EXCEPT !.pc = IF c.hop \in Exits THEN "mark" ELSE "delchain"])
  /\ UNCHANGED <<consumerVars, db, task, row, chain, requests>>

\* MarkPeerShareRuntimeReleased.
Mark(c) ==
  /\ CallAt(c, "release", "mark")
  /\ SetRow(c, [RowOf(c) EXCEPT !.status = 0])
  /\ Becomes(c, [c EXCEPT !.pc = "ok"])
  /\ UNCHANGED <<consumerVars, db, task, nodeVars, countVars>>

\* The caller's 10 s are over, or the connection broke: to it the call failed.
\* The call may never have arrived, or goes on with nobody waiting.
Loses(c) ==
  /\ faults < MaxFaults
  /\ c.by # None
  /\ c.pc # "error"
  /\ \E strays \in {{}, {[c EXCEPT !.by = None]}} :
       /\ strays = {} => c.pc \in {"new", "ok"}
       /\ strays # {} => c.pc # "ok"
       /\ calls' = (calls \ {c}) \cup strays \cup {[c EXCEPT !.pc = "error"]}
  /\ faults' = faults + 1
  /\ trouble' = trouble \cup {"lost"}
  /\ UNCHANGED <<consumerVars, db, task, row, nodeVars, requests>>

-----------------------------------------------------------------------------
TaskNext(k) ==
  \/ Unchain(k) \/ List(k) \/ Released(k) \/ Drop(k) \/ Cascade(k)
  \/ Begin(k) \/ BeginRefused(k) \/ Reserved(k) \/ DialFails(k) \/ ReserveAgain(k) \/ ReserveFails(k)
  \/ Applied(k) \/ ApplyFails(k) \/ Undo(k) \/ Store(k) \/ Conflict(k) \/ Entry(k) \/ End(k)

CallNext(c) ==
  \/ ReserveRead(c) \/ ReserveWrite(c)
  \/ ApplyRead(c) \/ AddChain(c) \/ AddService(c) \/ ApplyWrite(c)
  \/ ReleaseRead(c) \/ DeleteService(c) \/ Mark(c)
  \/ DeleteChain(c)

Next ==
  \/ \E k \in Tasks, t \in Tunnels :
       TunnelCreate(k, t) \/ TunnelUpdate(k, t) \/ TunnelRedeploy(k, t) \/ TunnelDelete(k, t)
  \/ \E k \in Tasks : TaskNext(k)
  \/ \E c \in calls : CallNext(c) \/ Loses(c)

Spec == Init /\ [][Next]_vars

\* Requests that can go on do, and so do the calls somebody waits for.
Fairness ==
  \A k \in Tasks :
    /\ WF_vars(TaskNext(k))
    /\ WF_vars(\E c \in Mine(k) : CallNext(c))

FairSpec == Spec /\ Fairness
-----------------------------------------------------------------------------
(* What makes federated tunnels correct *)

\* No request and no call is at work.
Quiet == calls = {} /\ \A k \in Tasks : task[k] = Idle

Spared(S) == trouble \cap S = {}

\* The provider's row, and the service its node runs for it.
Served(t, h) ==
  /\ row[h][t].status = 1 /\ row[h][t].applied = 1
  /\ svc[h][t] = row[h][t].port

\* Where the hop is to be dialled.
Address(t, h) == [hop |-> h, port |-> row[h][t].port]

\* Every hop of the path is served and dialled by the one before it.
Whole(t, path) ==
  /\ entry[t] = Address(t, First(path))
  /\ \A i \in 1..Len(path) :
       /\ Served(t, path[i])
       /\ i > 1 => chain[path[i]][t] = Address(t, path[i - 1])

\* A tunnel with bindings can carry traffic once the panel rests: the bindings
\* name the hops of its chain rows, every hop's row is active and its service
\* runs on the row's port, and every hop dials the one next to it at the port
\* that one listens on, through creates, updates to other hops or ports,
\* redeploys and deletes that were refused, repeated or overtaken by those of
\* other tunnels.  Not promised, since the code only logs it or does not look:
\* two requests for one tunnel at a time, an answer that was lost, a command
\* that failed.  Nor after an update refused for a port conflict: the roles it
\* had applied stay, and a later request gets them as they are, with a middle
\* hop that dials the exit the refused update had asked for.
PathIsWhole ==
  Quiet /\ Spared({"met", "lost", "command", "conflict"}) =>
    \A t \in Tunnels :
      bound[t] # NoPath => tunnel[t] = "there" /\ bound[t] = route[t] /\ Whole(t, bound[t])

\* The hops somebody can still release.
InUse(t) == IF tunnel[t] = "there" THEN HopsOf(bound[t]) ELSE {}

\* What no binding names is let go at the providing panel: a tunnel that was
\* deleted, or never made because a hop or the entry could not be had, leaves
\* no port, service or chain, and neither does a hop that an update replaced.
\* Two calls that picked one port at once, a middle hop that cannot dial the
\* next and what PathIsWhole excepts do leave something.
GoneIsReleased ==
  Quiet /\ Spared({"met", "lost", "command", "conflict", "raced", "dial"}) =>
    \A t \in Tunnels : \A h \in Hops \ InUse(t) :
      row[h][t].status = 0 /\ svc[h][t] = 0 /\ chain[h][t] = NoTarget

\* At every moment a port of a share is held by one tunnel only, though picking
\* it and writing it down are two steps, rows are rewritten as they were read
\* and released rows keep their port.  Two calls that pick at once get the same.
PortsDistinct ==
  Spared({"met", "raced", "lost"}) =>
    \A h \in Hops, t, u \in Tunnels :
      row[h][t].status = 1 /\ row[h][u].status = 1 /\ row[h][t].port = row[h][u].port => t = u

\* Every request is answered: no call is waited for in vain, no transaction is
\* waited for by its own request, and a wish that cannot be met is dropped
\* once only.
Returns == \A k \in Tasks : task[k] # Idle ~> task[k] = Idle
=============================================================================
