--------------------------- MODULE MCAgentServices ---------------------------
(* Instances of AgentServices for TLC. *)
EXTENDS AgentServices, TLC

\* Every name on its own, and all of them in any order.
MCLists == {<<s>> : s \in Services} \cup {<<s, t>> : s \in Services, t \in Services}

Symmetry == Permutations(Services)
=============================================================================
