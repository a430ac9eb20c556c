---------------------------- MODULE MCAgentConn ----------------------------
(* Instances of AgentConn for TLC. *)
EXTENDS AgentConn

\* Connections and receivers are interchangeable: the least unused one is
\* taken.  Symmetry sets would do the same, but not for liveness.
InOrder ==
  /\ \A c \in Conns : newest' = c /\ newest # c => \A d \in Conns : d < c => ~Unused(d)
  /\ \A q, r \in Receivers :
       q < r /\ rpc[r] = "none" /\ rpc'[r] # "none" => rpc[q] # "none"

OrderedSpec == Init /\ [][Next /\ InOrder]_vars /\ Fairness
=============================================================================
