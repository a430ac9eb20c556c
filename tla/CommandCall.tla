---------------------------- MODULE CommandCall ----------------------------
(***************************************************************************)
(* What a caller of Server.SendCommand may rely on, and no more: a command *)
(* is issued once, its agent runs it at most once, the caller gets exactly *)
(* one outcome, and it is told "ok" only when the agent has run the        *)
(* command with success.  A failure outcome promises nothing: the agent    *)
(* may have run the command, or may still run it.                          *)
(***************************************************************************)
CONSTANTS Cmds,      \* calls of SendCommand
          None       \* "not yet"

VARIABLES run,       \* run[m]: what the agent made of command m
          outcome    \* outcome[m]: what SendCommand returned for m

vars == <<run, outcome>>

Runs == {"ok", "fail"}

Outcomes == {"ok", "failed"}

Init ==
  /\ run = [m \in Cmds |-> None]
  /\ outcome = [m \in Cmds |-> None]

\* The agent runs a command, possibly after its caller gave up on it.
Run(m) ==
  /\ run[m] = None
  /\ \E r \in Runs : run' = [run EXCEPT ![m] = r]
  /\ UNCHANGED outcome

\* The caller gets its one outcome.
Return(m) ==
  /\ outcome[m] = None
  /\ \E o \in Outcomes :
       /\ o = "ok" => run[m] = "ok"
       /\ outcome' = [outcome EXCEPT ![m] = o]
  /\ UNCHANGED run

Next == \E m \in Cmds : Run(m) \/ Return(m)

Spec == Init /\ [][Next]_vars
=============================================================================
