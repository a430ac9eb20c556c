---------------------------- MODULE MCForwardSync ----------------------------
(* Instances of ForwardSync for TLC. *)
EXTENDS ForwardSync, TLC

CONSTANTS tcp, udp

MCVariants == <<tcp, udp>>

MCProtos == {<<tcp>>, <<tcp, udp>>}

\* Every list a handler sends.
MCLists == {<<tcp>>, <<udp>>, <<tcp, udp>>}

CONSTANT MaxTrials   \* bound: requests and troubles together

Left(l, b) == l.job + l.lost + b.fault + b.kill

Few ==
  Left([job |-> MaxJobs, lost |-> MaxLost], [fault |-> MaxFaults, kill |-> MaxKills])
    <= MaxTrials + Left(limit', budget')
=============================================================================
