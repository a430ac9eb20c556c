---------------------------- MODULE ForwardSync ----------------------------
(***************************************************************************)
(* A forward of the panel and its services on a node: the HTTP handlers    *)
(* that create, update, pause, resume and delete it, the commands they     *)
(* send to the agent of AgentServices, and the clean-up that follows an    *)
(* agent's report (handler/control_plane.go, mutations.go, flow_policy.go).*)
(*                                                                         *)
(* A handler works off a list of goals; a goal is one command, or one for  *)
(* each variant of the service's name.  Handlers interleave between any    *)
(* two commands; answers may be lost, and the agent may be killed.         *)
(* Abstractions: one forward with one port on one local node.  Left out    *)
(* are its limiter and tunnel, a bind address that is not the host's, and  *)
(* the service names of other user tunnels and of the agent's old form (a  *)
(* name without variant).  A handler has its answer before the next        *)
(* command is sent, and reads the forward's ports when it sends.           *)
(* Definitions named X_<word> are single-bug variants of X.                *)
(***************************************************************************)
EXTENDS AgentServices

CONSTANTS
  Variants,   \* the service names of the forward, TCP's first
  Protos,     \* the sequences of services a forward can have ("tcp", "both", ...)
  Handlers,   \* HTTP requests and reports under way at a time
  MaxJobs,    \* bound: requests
  MaxLost,    \* bound: answers lost, commands not sent
  MaxGoals    \* bound: goals of a handler, its self-healing being recursive

ASSUME ForwardAssumption ==
  /\ Protos \subseteq Seq(Services) \ {<<>>}
  /\ Variants \in Protos /\ Names(Variants) = Services
  /\ "none" \notin Handlers
  /\ MaxJobs \in Nat /\ MaxLost \in Nat /\ MaxGoals \in Nat

VARIABLES
  fwd,     \* the forward's row: state, status and protos
  ports,   \* it has a row in forward_port
  task,    \* what each handler does
  caller,  \* the handler whose command the agent runs
  limit,   \* what is left of the bounds
  trouble  \* history: what else went wrong

panel == <<fwd, ports, task, caller, limit, trouble>>
agent == vars
syncVars == <<agent, panel>>

Forwards == [state : {"new", "there", "gone"}, status : {0, 1}, protos : Protos]

Goals == {"store", "sync", "add", "clear", "readd", "Pause", "Resume", "Delete", "Pause again", "Resume again", "purge"}

Jobs == {"none", "create", "update", "rollback", "redeploy", "pause", "suspend", "resume", "delete", "report"}

Tasks ==
  [job : Jobs, rec : Forwards, old : Forwards, goals : Seq(Goals), queue : Seq(Services), handled : BOOLEAN]

NoTask ==
  LET none == [state |-> "new", status |-> 1, protos |-> Variants] IN
  [job |-> "none", rec |-> none, old |-> none, goals |-> <<>>, queue |-> Variants, handled |-> FALSE]

SyncTypeOK ==
  /\ TypeOK
  /\ fwd \in Forwards /\ ports \in BOOLEAN
  /\ task \in [Handlers -> Tasks]
  /\ caller \in Handlers \cup {"none"}
  /\ limit \in [job : 0..MaxJobs, lost : 0..MaxLost]
  /\ trouble \subseteq {"race", "lost", "forced"}

SyncInit ==
  /\ Init
  /\ fwd \in {[state |-> "new", status |-> 1, protos |-> ps] : ps \in Protos}
  /\ ports = FALSE
  /\ task = [p \in Handlers |-> NoTask]
  /\ caller = "none"
  /\ limit = [job |-> MaxJobs, lost |-> MaxLost]
  /\ trouble = {}

Take(b) == limit[b] > 0 /\ limit' = [limit EXCEPT ![b] = @ - 1]

-----------------------------------------------------------------------------
(* Requests *)

Idle(p) == task[p].job = "none"

Goal(p) == Head(task[p].goals)

Met == IF \A p \in Handlers : Idle(p) THEN {} ELSE {"race"}

Begins(p, j, goals) ==
  /\ Idle(p)
  /\ task' = [task EXCEPT ![p] = [job |-> j, rec |-> fwd', old |-> fwd, goals |-> goals,
                                  queue |-> Variants, handled |-> FALSE]]
  /\ trouble' = trouble \cup Met
  /\ UNCHANGED <<agent, caller>>

\* forwardCreate: CreateForwardTx, then the services.
Create(p) ==
  /\ Take("job")
  /\ fwd.state = "new"
  /\ fwd' = [fwd EXCEPT !.state = "there"] /\ ports' = TRUE
  /\ Begins(p, "create", <<"sync">>)

\* The requests on a forward that is there; "suspend" is pauseForwardRecords,
\* which takes active forwards only.
Request(p, j, goals) ==
  /\ Take("job")
  /\ fwd.state = "there"
  /\ j = "suspend" => fwd.status = 1
  /\ UNCHANGED <<fwd, ports>>
  /\ Begins(p, j, goals)

\* forwardForceDelete.
ForceDelete ==
  /\ Take("job")
  /\ fwd.state = "there"
  /\ fwd' = [fwd EXCEPT !.state = "gone"] /\ ports' = FALSE
  /\ trouble' = trouble \cup {"forced"} \cup Met
  /\ UNCHANGED <<agent, task, caller>>

\* cleanOrphanedServices: the agent has reported services of a forward that
\* is not there.
Report(p) ==
  /\ AtRest
  /\ fwd.state = "gone"
  /\ \E s \in Services : config.entries[s] > 0
  /\ UNCHANGED <<fwd, ports, limit>>
  /\ Begins(p, "report", <<"purge">>)

-----------------------------------------------------------------------------
(* Commands and answers *)

\* The kind of command a goal takes, and the services it is about.
Kind(g) ==
  CASE g = "sync" -> "Update"
    [] g \in {"add", "readd"} -> "Add"
    [] g \in {"clear", "Delete", "purge"} -> "Delete"
    [] g \in {"Pause", "Pause again"} -> "Pause"
    [] g \in {"Resume", "Resume again"} -> "Resume"

List_Once(p) ==
  IF Goal(p) \in {"sync", "add", "readd"} THEN task[p].rec.protos
  ELSE IF Goal(p) = "purge" THEN Variants
  ELSE <<Head(Variants)>>

List_Tcp(p) ==
  IF Goal(p) \in {"sync", "add", "readd"} THEN task[p].rec.protos
  ELSE IF Goal(p) = "purge" THEN <<Head(Variants)>>
  ELSE <<Head(task[p].queue)>>

List(p) ==
  IF Goal(p) \in {"sync", "add", "readd"} THEN task[p].rec.protos
  ELSE IF Goal(p) = "purge" THEN Variants
  ELSE <<Head(task[p].queue)>>

\* listForwardPorts finds nothing at the begin of a sync or a control.
NoPorts(p) ==
  /\ ~ports
  /\ \/ Goal(p) = "sync"
     \/ Goal(p) \in {"Pause", "Resume", "Delete"} /\ task[p].queue = Variants

Sending(p) == task[p].goals # <<>> /\ Goal(p) # "store" /\ caller = "none" /\ ~NoPorts(p)

Send(p) ==
  /\ Sending(p)
  /\ Receive(Kind(Goal(p)), List(p))
  /\ caller' = p
  /\ UNCHANGED <<fwd, ports, task, limit, trouble, budget>>

\* SendCommand returns what the agent says ...
Hears(p, r) ==
  /\ caller = p /\ AtRest /\ reply # "none"
  /\ r = reply
  /\ UNCHANGED <<limit, trouble>>

\* ... or an error of its own: the agent is or was gone, the command is not
\* sent, or it takes too long and runs on without its caller.
Loses(p, r) ==
  /\ r = "lost"
  /\ \/ caller = p /\ (~up \/ (AtRest /\ reply = "none")) /\ UNCHANGED limit
     \/ caller = p /\ phase # "idle" /\ Take("lost")
     \/ Sending(p) /\ ~up /\ UNCHANGED limit
     \/ Sending(p) /\ AtRest /\ Take("lost")
  /\ trouble' = trouble \cup {"lost"}

Gets(p, r) ==
  /\ task[p].goals # <<>>
  /\ Hears(p, r) \/ Loses(p, r)
  /\ caller' = "none"
  /\ UNCHANGED agent

-----------------------------------------------------------------------------
(* What a handler does with an answer *)

Rest(p) == Tail(task[p].goals)

\* A handler goes on with other goals ...
Pursue(p, goals) ==
  /\ task' = [task EXCEPT ![p].goals = goals, ![p].queue = Variants, ![p].handled = FALSE]
  /\ UNCHANGED <<fwd, ports>>

\* ... or with its next name ...
NextName(p, handled) ==
  /\ task' = [task EXCEPT ![p].queue = Tail(@), ![p].handled = handled]
  /\ UNCHANGED <<fwd, ports>>

End(p) == task' = [task EXCEPT ![p] = NoTask]

\* ... or gives up: a created forward is deleted ...
UndoCreate(p) ==
  /\ task[p].job = "create"
  /\ fwd' = [fwd EXCEPT !.state = "gone"] /\ ports' = FALSE
  /\ End(p)

\* ... an updated one put back (rollbackForwardMutation) ...
RollBack(p) ==
  /\ task' = [task EXCEPT ![p].job = "rollback", ![p].rec = task[p].old, ![p].goals = <<"sync">>,
                          ![p].queue = Variants, ![p].handled = FALSE]
  /\ fwd' = (IF fwd.state = "there" THEN task[p].old ELSE fwd)
  /\ ports' = TRUE

\* ... a suspended one paused in the database.
SuspendAnyway(p) ==
  /\ task[p].job = "suspend"
  /\ fwd' = [fwd EXCEPT !.status = 0]
  /\ UNCHANGED ports
  /\ End(p)

GiveUp(p) ==
  \/ UndoCreate(p)
  \/ task[p].job = "update" /\ RollBack(p)
  \/ SuspendAnyway(p)
  \/ task[p].job \notin {"create", "update", "suspend"} /\ End(p) /\ UNCHANGED <<fwd, ports>>

Synced_NotPaused(p) ==
  /\ \E r \in {"ok", "exists"} :
       /\ Gets(p, r)
       /\ Goal(p) \in {"add", "readd"} \/ (Goal(p) = "sync" /\ r = "ok")
  /\ Pursue(p, Rest(p))

\* A forward that is not active is paused after every sync.
Synced(p) ==
  /\ \E r \in {"ok", "exists"} :
       /\ Gets(p, r)
       /\ Goal(p) \in {"add", "readd"} \/ (Goal(p) = "sync" /\ r = "ok")
  /\ Pursue(p, IF task[p].rec.status = 1 THEN Rest(p) ELSE <<"Pause">> \o Rest(p))

\* Whatever is wrong with an update, the services are added instead.
FallBack(p) ==
  /\ \E r \in {"inuse", "lost"} : Gets(p, r)
  /\ Goal(p) = "sync"
  /\ Pursue(p, <<"add">> \o Rest(p))

\* rebindForwardServiceOnSelfOccupiedPort.
Rebind(p) ==
  /\ Gets(p, "inuse")
  /\ Goal(p) = "add"
  /\ Pursue(p, <<"clear", "readd">> \o Rest(p))

Clear(p) ==
  /\ Gets(p, "ok")
  /\ Goal(p) = "clear"
  /\ IF Len(task[p].queue) > 1 THEN NextName(p, FALSE) ELSE Pursue(p, Rest(p))

Controlling(p) == Goal(p) \in {"Pause", "Resume", "Delete", "Pause again", "Resume again"}

ControlName_AnyAnswer(p) ==
  /\ \E r \in {"ok", "notfound", "lost"} : Gets(p, r) /\ NextName(p, task[p].handled \/ r = "ok")
  /\ Controlling(p)
  /\ Len(task[p].queue) > 1

\* One name's answer; what is not found is no error as yet.
ControlName(p) ==
  /\ \E r \in {"ok", "notfound"} : Gets(p, r) /\ NextName(p, task[p].handled \/ r = "ok")
  /\ Controlling(p)
  /\ Len(task[p].queue) > 1

\* The last name's answer: some service was there, or need not be ...
ControlDone(p) ==
  /\ \E r \in {"ok", "notfound"} : Gets(p, r) /\ (task[p].handled \/ r = "ok" \/ Goal(p) = "Delete")
  /\ Controlling(p)
  /\ Len(task[p].queue) = 1
  /\ Pursue(p, Rest(p))

\* ... or it is made, and the control tried again.
Heal(p) ==
  /\ Gets(p, "notfound")
  /\ Goal(p) \in {"Pause", "Resume"}
  /\ Len(task[p].queue) = 1 /\ ~task[p].handled
  /\ Len(task[p].goals) < MaxGoals
  /\ Pursue(p, <<"sync", IF Goal(p) = "Pause" THEN "Pause again" ELSE "Resume again">> \o Rest(p))

\* Any other answer is an error.
Refused(p) ==
  /\ \/ \E r \in {"inuse", "lost"} : Gets(p, r) /\ (Controlling(p) \/ Goal(p) \in {"clear", "readd"})
     \/ Gets(p, "lost") /\ Goal(p) = "add"
     \/ /\ Gets(p, "notfound")
        /\ Goal(p) \in {"Pause again", "Resume again"} /\ Len(task[p].queue) = 1 /\ ~task[p].handled
  /\ GiveUp(p)

\* A sync without a port is an error; a control has nothing to do.
Portless(p) ==
  /\ task[p].goals # <<>> /\ caller # p
  /\ NoPorts(p)
  /\ IF Goal(p) = "sync" THEN GiveUp(p) ELSE Pursue(p, Rest(p))
  /\ UNCHANGED <<agent, caller, limit, trouble>>

\* cleanOrphanedServices does not look at the answer.
Purged(p) ==
  /\ \E r \in {"ok", "lost"} : Gets(p, r)
  /\ Goal(p) = "purge"
  /\ End(p) /\ UNCHANGED <<fwd, ports>>

Store_Stale(p) ==
  /\ task[p].goals # <<>> /\ Goal(p) = "store"
  /\ IF fwd.state = "there"
     THEN \E ps \in Protos :
            /\ fwd' = [fwd EXCEPT !.protos = ps] /\ ports' = TRUE
            /\ task' = [task EXCEPT ![p].goals = Tail(@)]
     ELSE RollBack(p)
  /\ UNCHANGED <<agent, caller, limit, trouble>>

\* UpdateForward and the rows of its ports; if there is no forward any more,
\* the update is rolled back.
Store(p) ==
  /\ task[p].goals # <<>> /\ Goal(p) = "store"
  /\ IF fwd.state = "there"
     THEN \E ps \in Protos :
            /\ fwd' = [fwd EXCEPT !.protos = ps] /\ ports' = TRUE
            /\ task' = [task EXCEPT ![p].rec = fwd', ![p].goals = Tail(@)]
     ELSE RollBack(p)
  /\ UNCHANGED <<agent, caller, limit, trouble>>

\* The forward's row follows; without a row nothing happens.
Finish(p) ==
  /\ task[p].goals = <<>> /\ ~Idle(p)
  /\ LET there == fwd.state = "there" IN
     /\ fwd' = CASE task[p].job \in {"pause", "suspend"} /\ there -> [fwd EXCEPT !.status = 0]
                 [] task[p].job = "resume" /\ there -> [fwd EXCEPT !.status = 1]
                 [] task[p].job = "delete" -> [fwd EXCEPT !.state = "gone"]
                 [] OTHER -> fwd
     /\ ports' = (ports /\ task[p].job # "delete")
  /\ End(p)
  /\ UNCHANGED <<agent, caller, limit, trouble>>

-----------------------------------------------------------------------------
Handle(p) ==
  \/ Send(p) \/ Synced(p) \/ FallBack(p) \/ Rebind(p) \/ Clear(p) \/ ControlName(p) \/ ControlDone(p)
  \/ Heal(p) \/ Refused(p) \/ Portless(p) \/ Purged(p) \/ Store(p) \/ Finish(p)

Asked(p) ==
  \/ Create(p)
  \/ Request(p, "update", <<"store", "sync">>) \/ Request(p, "redeploy", <<"sync">>)
  \/ Request(p, "pause", <<"Pause">>) \/ Request(p, "suspend", <<"Pause">>)
  \/ Request(p, "resume", <<"Resume">>) \/ Request(p, "delete", <<"Delete">>)

AgentNext == (Step \/ Kill \/ Boot) /\ UNCHANGED panel

SyncNext ==
  \/ \E p \in Handlers : Asked(p) \/ Report(p) \/ Handle(p)
  \/ ForceDelete \/ AgentNext

SyncSpec == SyncInit /\ [][SyncNext]_syncVars

-----------------------------------------------------------------------------
\* Nothing is under way.
Quiet == AtRest /\ caller = "none" /\ \A p \in Handlers : Idle(p)

Serving == {s \in Services : reg[s] = "serving"}

Row(status) == fwd.state = "there" /\ fwd.status = status

\* A forward that is shown as active is served on every variant of its name,
\* however it was updated, rolled back, paused and resumed; unless two requests
\* met, an answer was lost, or the agent failed midway through an update (the
\* fallback Add takes "exists" for success) or a resume (one variant will do).
ShownIsServed ==
  Quiet /\ Row(1) /\ trouble \cap {"race", "lost"} = {} /\ mishaps \cap {"Update", "Resume"} = {} =>
    Names(fwd.protos) \subseteq Serving

\* A forward that is shown as paused is not served, self-healing and updates
\* included; unless two requests met, an answer was lost, the agent failed midway
\* or started anew (it serves whatever its file holds).
PausedIsSilent ==
  Quiet /\ Row(0) /\ trouble \cap {"race", "lost"} = {} /\ mishaps \cap {"Update", "Resume", "boot"} = {} =>
    Serving = {}

\* A deleted forward is not served, whatever failed on the agent before, if no
\* two requests met, no answer was lost and it was not deleted by force.
GoneIsGone ==
  Quiet /\ fwd.state = "gone" /\ trouble = {} => Serving = {}

\* p's request j comes to its end, answered with OK, and met no other.
Succeeds(p, j) == Finish(p) /\ AtRest /\ task[p].job = j /\ "race" \notin trouble

\* A pause that is answered with OK did stop the services, even if an answer on
\* the way there was lost.
OkIsPaused ==
  [][\A p \in Handlers : Succeeds(p, "pause") /\ mishaps \cap {"Update", "boot"} = {} => Serving = {}]_syncVars

\* A delete that is answered with OK left nothing on the agent, neither
\* registered nor configured, whatever was lost or failed before.
OkIsDeleted ==
  [][\A p \in Handlers, s \in Services : Succeeds(p, "delete") => reg[s] = "none" /\ config.entries[s] = 0]_syncVars

-----------------------------------------------------------------------------
\* systemd starts the agent again (install.sh:152), which works through its
\* commands and goes on reporting its configuration (traffic_reporter.go:349);
\* an HTTP handler runs to its end, every command having a time limit.
SyncFairness ==
  /\ WF_syncVars(Step /\ UNCHANGED panel) /\ WF_syncVars(Boot /\ UNCHANGED panel)
  /\ \A p \in Handlers : WF_syncVars(Handle(p)) /\ WF_syncVars(Report(p))

FairSyncSpec == SyncSpec /\ SyncFairness

\* The services of a deleted forward end, also those that a lost answer, a
\* concurrent request, a forced delete or a restart left behind; unless an update
\* left a service that is not configured, which no report names, or the agent
\* cannot start any more.
OrphansGo ==
  fwd.state = "gone" ~> [](Serving = {} \/ mishaps \cap {"Update", "Resume", "cut"} # {})

\* "Keep paused forwards paused after UpdateService/AddService"
\* (control_plane.go:317), as long as no answer is lost and the agent does not fail.
PausedIsKept ==
  Quiet /\ Row(0) /\ "lost" \notin trouble /\ mishaps = {} => Serving = {}
=============================================================================
