----------------------------- MODULE MCWsServer -----------------------------
(* Instances of WsServer for TLC. *)
EXTENDS WsServer

\* Nodes, connections and commands are interchangeable, so nothing is lost
\* by numbering them in the order they come up.  Symmetry sets would do the
\* same, but not for the liveness properties.
Met == {owner[c] : c \in Conns} \cup {target[m] : m \in Cmds}

InOrder ==
  /\ \A c, d \in Conns : d < c /\ hpc[c] # "idle" => hpc[d] # "idle"
  /\ \A m, k \in Cmds : k < m /\ spc[m] # "new" => spc[k] # "new"
  /\ \A n, o \in Nodes : o < n /\ n \in Met => o \in Met

OrderedSpec == Init /\ [][Next /\ InOrder']_vars /\ Fairness
=============================================================================
