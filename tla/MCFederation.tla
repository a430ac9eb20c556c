---------------------------- MODULE MCFederation ----------------------------
(* Instances of Federation for TLC. *)
EXTENDS Federation

CONSTANT MaxTrials    \* requests, faults and meetings together

\* The middle hop's share has one port, which two tunnels cannot both have.
MCShare == [e1 |-> {1, 2}, e2 |-> {1, 2}, m |-> {2}]

MCHops == {"e1", "e2", "m"}

\* With the middle hop and either exit, or with one exit alone.
MCPaths == {<<"e1", "m">>, <<"e2", "m">>, <<"e1">>}

\* A request is for the middle hop and the first exit and names no port or the
\* last one for both.  An update of the first tunnel may also take the other
\* exit, or do without the middle hop, and then names no port.  The first
\* request is for the first tunnel, and requests are worked off by the first
\* task that is idle (tunnels and tasks are numbers here).
Asks(x) ==
  /\ \A h, g \in HopsOf(x.path) : x.port[h] = x.port[g] /\ x.port[h] \in {0, MaxPort}
  /\ x.op \in {"create", "update"} /\ x.path # <<"e1", "m">> =>
       x.op = "update" /\ x.tunnel = 1 /\ \A h \in Hops : x.port[h] = 0

Modest ==
  \A k \in Tasks : task[k] = Idle /\ task'[k] # Idle =>
    /\ Asks(task'[k])
    /\ \A j \in Tasks : j < k => task[j] # Idle
    /\ requests = 0 => \A t \in Tunnels : task'[k].tunnel <= t

\* Requests that met spoil every promise but an answer: fewer of them will do.
\* Troubles come one at a time; what leads to a second one need not be taken,
\* as a step that goes on is open beside it, but for two writes that race.
Few ==
  /\ requests' + faults' + Cardinality(trouble' \cap {"met"}) <= MaxTrials
  /\ Cardinality(trouble' \ {"raced"}) <= 1
=============================================================================
