------------------------- MODULE ForwardSyncProofs -------------------------
(***************************************************************************)
(* A forward and its services, for any number of handlers, variants,       *)
(* requests and faults.                                                    *)
(*                                                                         *)
(* The argument: for the agent every step is one of its own or a command   *)
(* it receives, so the invariant of AgentServicesProofs stays true here.   *)
(* A delete that has met no other request is the only one that sends       *)
(* commands, so the names it is through with stay off the registry, the    *)
(* configuration and, once its answer is there, the file; no restart       *)
(* brings them back (DeleteInv).                                           *)
(* A create that gives up has cleared the agent before (CreateInv), so     *)
(* both ways to be gone leave nothing, and the reports of a forward that   *)
(* is gone only delete (GoneInv).                                          *)
(* A request that pauses passes over the names one by one, and what it has *)
(* passed stays paused, in the file too (PauseInv).  If nothing is in      *)
(* doubt a request takes one of few courses (Shapes), on which what is     *)
(* shown stays on the agent and no command needs to be made up for         *)
(* (ShowInv); so a request that ends leaves the agent as the row says, and *)
(* the next one begins from there (FreeInv).                               *)
(***************************************************************************)
EXTENDS ForwardSync, AgentServicesProofs

\* A handler without a request has nothing to do, one with a request has a name
\* to go on with, and the agent works for a handler that waits for it.
TaskInv ==
  /\ \A p \in Handlers : task[p].queue # <<>> /\ (Idle(p) => task[p].goals = <<>>)
  /\ caller \in Handlers => task[caller].goals # <<>> /\ Goal(caller) # "store"

\* A forward has its ports.
PortsInv == fwd.state = "there" => ports

SIInv == SyncTypeOK /\ IInv /\ TaskInv /\ PortsInv

\* What SyncTypeOK says of the panel.
PanelOK ==
  /\ fwd \in Forwards /\ ports \in BOOLEAN
  /\ task \in [Handlers -> Tasks]
  /\ caller \in Handlers \cup {"none"}
  /\ limit \in [job : 0..MaxJobs, lost : 0..MaxLost]
  /\ trouble \subseteq {"race", "lost", "forced"}

\* A killed agent has answered nothing.
DownInv == ~up => reply = "none"

\* Two requests under way have met.
MetInv == "race" \notin trouble => \A p, q \in Handlers : Idle(p) \/ Idle(q) \/ p = q

\* s is off the agent, and does not come back with a restart.
Off(s) == reg[s] = "none" /\ config.entries[s] = 0 /\ disk.entries[s] = 0

\* p deletes the forward and has met nobody.
Deleting(p) == task[p].job = "delete" /\ "race" \notin trouble

\* The services p's delete is through with.
Through(p) == IF task[p].goals = <<>> THEN Services ELSE Services \ Names(task[p].queue)

\* They are off the agent, which does nothing unless it deletes the next one.
DeleteIs(p) ==
  /\ task[p].goals \in {<<>>, <<"Delete">>}
  /\ fwd.state = "there"
  /\ \A s \in Through(p) : Off(s)
  /\ caller = p =>
       /\ phase = "items" => op = "Delete" /\ todo = <<Head(task[p].queue)>>
       /\ phase # "items" /\ reply # "none" =>
            reg[Head(task[p].queue)] = "none" /\ config.entries[Head(task[p].queue)] = 0
  /\ caller # p => Through(p) = {} \/ phase = "idle"

DeleteInv == \A p \in Handlers : Deleting(p) => DeleteIs(p)

\* Nobody but p goes on, and p to a proper task.
Moved(p) ==
  /\ task' \in [Handlers -> Tasks]
  /\ \A q \in Handlers \ {p} : task'[q] = task[q]
  /\ task'[p].queue # <<>>
  /\ task'[p].job = "none" => task'[p].goals = <<>>

\* Every name of a list is its first or in its rest.
LEMMA NamesTail ==
  ASSUME NEW list \in Seq(Services), list # <<>>
  PROVE  Names(list) \subseteq Names(Tail(list)) \cup {Head(list)}
<1>1. /\ Len(list) \in Nat /\ DOMAIN list = 1..Len(list) /\ Head(list) = list[1]
      /\ Tail(list) \in Seq(Services) /\ Len(Tail(list)) = Len(list) - 1
      /\ \A i \in 1..Len(Tail(list)) : Tail(list)[i] = list[i + 1]
  BY LenProperties, HeadTailProperties
<1>2. DOMAIN Tail(list) = 1..Len(list) - 1
  BY <1>1, LenProperties
<1>3. SUFFICES ASSUME NEW i \in 1..Len(list), i # 1 PROVE list[i] \in Names(Tail(list))
  BY <1>1 DEF Names
<1>4. i - 1 \in 1..Len(list) - 1 /\ Tail(list)[i - 1] = list[i]
  BY <1>1, <1>3
<1>5. QED
  BY <1>2, <1>4 DEF Names

LEMMA NamesOne ==
  ASSUME NEW list \in Seq(Services), Len(list) = 1
  PROVE  Names(list) \subseteq {Head(list)}
<1>1. DOMAIN list = 1..1 /\ Head(list) = list[1]
  BY LenProperties
<1>2. QED
  BY <1>1 DEF Names

LEMMA NoTaskType == NoTask \in Tasks
<1>1. Variants \in Protos /\ Variants \in Seq(Services)
  BY ForwardAssumption
<1>2. <<>> \in Seq(Goals)
  BY EmptySeq
<1>3. QED
  BY <1>1, <1>2 DEF NoTask, Tasks, Forwards, Jobs

LEMMA InitSIInv == SyncInit => SIInv
<1> SUFFICES ASSUME SyncInit PROVE SIInv
  OBVIOUS
<1>1. IInv
  BY InitIInv DEF SyncInit
<1>2. SyncTypeOK
  <2>1. fwd \in Forwards
    BY DEF SyncInit, Forwards
  <2>2. task \in [Handlers -> Tasks]
    BY NoTaskType DEF SyncInit
  <2>3. limit \in [job : 0..MaxJobs, lost : 0..MaxLost]
    BY ForwardAssumption DEF SyncInit
  <2>4. QED
    BY <1>1, <2>1, <2>2, <2>3 DEF IInv, SyncTypeOK, SyncInit
<1>3. TaskInv
  <2>1. Variants # <<>>
    BY ForwardAssumption
  <2>2. \A p \in Handlers : task[p] = NoTask
    BY DEF SyncInit
  <2>3. caller \notin Handlers
    BY ForwardAssumption DEF SyncInit
  <2>4. QED
    BY <2>1, <2>2, <2>3 DEF TaskInv, NoTask, Idle
<1>4. PortsInv
  BY DEF SyncInit, PortsInv
<1>5. QED
  BY <1>1, <1>2, <1>3, <1>4 DEF SIInv

-----------------------------------------------------------------------------
(* What the panel does *)

LEMMA PanelType == SIInv => PanelOK
BY DEF SIInv, SyncTypeOK, PanelOK

LEMMA TasksType ==
  ASSUME task \in [Handlers -> Tasks], NEW p \in Handlers
  PROVE  /\ task[p].job \in Jobs /\ task[p].rec \in Forwards /\ task[p].old \in Forwards
         /\ task[p].goals \in Seq(Goals) /\ task[p].queue \in Seq(Services) /\ task[p].handled \in BOOLEAN
BY DEF Tasks

LEMMA RestType ==
  ASSUME task \in [Handlers -> Tasks], NEW p \in Handlers, task[p].goals # <<>>
  PROVE  Goal(p) \in Goals /\ Rest(p) \in Seq(Goals)
BY TasksType, HeadTailProperties DEF Goal, Rest

LEMMA PursueMoves ==
  ASSUME SIInv, NEW p \in Handlers, task[p].goals # <<>>, NEW goals \in Seq(Goals), Pursue(p, goals)
  PROVE  Moved(p)
<1>1. task \in [Handlers -> Tasks] /\ ~Idle(p)
  BY DEF SIInv, SyncTypeOK, TaskInv
<1>2. Variants \in Seq(Services) /\ Variants # <<>>
  BY ForwardAssumption
<1>3. task'[p] = [task[p] EXCEPT !.goals = goals, !.queue = Variants, !.handled = FALSE]
  BY <1>1 DEF Pursue, Tasks
<1>4. task'[p] \in Tasks /\ task'[p].queue = Variants /\ task'[p].job = task[p].job
  BY <1>1, <1>2, <1>3 DEF Tasks
<1>5. task' \in [Handlers -> Tasks] /\ \A q \in Handlers \ {p} : task'[q] = task[q]
  BY <1>1, <1>4 DEF Pursue
<1>6. QED
  BY <1>1, <1>2, <1>4, <1>5 DEF Moved, Idle

LEMMA TailNotEmpty ==
  ASSUME NEW S, NEW q \in Seq(S), Len(q) > 1
  PROVE  Tail(q) \in Seq(S) /\ Tail(q) # <<>>
<1>1. Len(q) \in Nat /\ Len(<<>>) = 0
  BY LenProperties, EmptySeq
<1>2. Len(q) # 0
  BY <1>1
<1>3. q # <<>>
  BY <1>1, <1>2, Zenon
<1>4. Tail(q) \in Seq(S) /\ Len(Tail(q)) = Len(q) - 1
  BY <1>3, HeadTailProperties
<1>5. Len(Tail(q)) # 0
  BY <1>1, <1>4
<1>6. QED
  BY <1>1, <1>4, <1>5, Zenon

LEMMA NextNameMoves ==
  ASSUME SIInv, NEW p \in Handlers, task[p].goals # <<>>, Len(task[p].queue) > 1,
         NEW handled \in BOOLEAN, NextName(p, handled)
  PROVE  Moved(p)
<1>1. task \in [Handlers -> Tasks] /\ ~Idle(p)
  BY DEF SIInv, SyncTypeOK, TaskInv
<1>2. Tail(task[p].queue) \in Seq(Services) /\ Tail(task[p].queue) # <<>>
  BY <1>1, TasksType, TailNotEmpty
<1>3. task'[p] = [task[p] EXCEPT !.queue = Tail(task[p].queue), !.handled = handled]
  BY <1>1 DEF NextName, Tasks
<1>4. task'[p] \in Tasks /\ task'[p].queue = Tail(task[p].queue) /\ task'[p].job = task[p].job
  BY <1>1, <1>2, <1>3 DEF Tasks
<1>5. task' \in [Handlers -> Tasks] /\ \A q \in Handlers \ {p} : task'[q] = task[q]
  BY <1>1, <1>4 DEF NextName
<1>6. QED
  BY <1>1, <1>2, <1>4, <1>5 DEF Moved, Idle

LEMMA EndMoves ==
  ASSUME SIInv, NEW p \in Handlers, End(p)
  PROVE  Moved(p) /\ task'[p] = NoTask
<1>1. task \in [Handlers -> Tasks]
  BY DEF SIInv, SyncTypeOK
<1>2. Variants # <<>>
  BY ForwardAssumption
<1>3. QED
  BY <1>1, <1>2, NoTaskType DEF End, Moved, NoTask

LEMMA RollBackMoves ==
  ASSUME SIInv, NEW p \in Handlers, RollBack(p)
  PROVE  Moved(p) /\ task'[p].job = "rollback" /\ fwd' \in Forwards /\ ports'
<1>1. task \in [Handlers -> Tasks] /\ fwd \in Forwards
  BY DEF SIInv, SyncTypeOK
<1>2. Variants \in Seq(Services) /\ Variants # <<>> /\ <<"sync">> \in Seq(Goals)
  BY ForwardAssumption DEF Goals
<1>3. task'[p] = [job |-> "rollback", rec |-> task[p].old, old |-> task[p].old, goals |-> <<"sync">>,
                  queue |-> Variants, handled |-> FALSE]
  <2>1. task[p] \in Tasks
    BY <1>1
  <2>2. task'[p] = [task[p] EXCEPT !.job = "rollback", !.rec = task[p].old, !.goals = <<"sync">>,
                                   !.queue = Variants, !.handled = FALSE]
    BY <1>1 DEF RollBack
  <2>3. QED
    BY <2>1, <2>2 DEF Tasks
<1>4. task'[p] \in Tasks /\ task'[p].queue = Variants /\ task'[p].job = "rollback"
  BY <1>1, <1>2, <1>3, TasksType DEF Tasks, Jobs
<1>5. task' \in [Handlers -> Tasks] /\ \A q \in Handlers \ {p} : task'[q] = task[q]
  BY <1>1, <1>4 DEF RollBack
<1>6. fwd' \in Forwards /\ ports'
  BY <1>1, TasksType DEF RollBack
<1>7. QED
  BY <1>2, <1>4, <1>5, <1>6 DEF Moved

LEMMA GiveUpMoves ==
  ASSUME SIInv, NEW p \in Handlers, GiveUp(p)
  PROVE  /\ Moved(p)
         /\ fwd' \in Forwards /\ ports' \in BOOLEAN /\ (fwd'.state = "there" => ports')
         /\ task'[p].job \in {"none", "rollback"}
<1>0. fwd \in Forwards /\ ports \in BOOLEAN /\ (fwd.state = "there" => ports)
  BY DEF SIInv, SyncTypeOK, PortsInv
<1>1. CASE UndoCreate(p)
  <2>1. fwd' \in Forwards /\ fwd'.state = "gone" /\ ports' = FALSE
    BY <1>0, <1>1 DEF UndoCreate, Forwards
  <2>2. Moved(p) /\ task'[p].job = "none"
    BY <1>1, EndMoves DEF UndoCreate, NoTask
  <2>3. QED
    BY <2>1, <2>2
<1>2. CASE RollBack(p)
  BY <1>2, RollBackMoves
<1>3. CASE SuspendAnyway(p)
  <2>1. fwd' \in Forwards /\ fwd'.state = fwd.state /\ ports' = ports
    BY <1>0, <1>3 DEF SuspendAnyway, Forwards
  <2>2. QED
    BY <1>0, <1>3, <2>1, EndMoves DEF SuspendAnyway, NoTask
<1>4. CASE End(p) /\ UNCHANGED <<fwd, ports>>
  BY <1>0, <1>4, EndMoves DEF NoTask
<1>5. QED
  BY <1>1, <1>2, <1>3, <1>4 DEF GiveUp

LEMMA BeginsMoves ==
  ASSUME SIInv, NEW p \in Handlers, NEW j \in Jobs \ {"none"}, NEW goals \in Seq(Goals),
         fwd' \in Forwards, Begins(p, j, goals)
  PROVE  /\ Moved(p)
         /\ task'[p].job = j /\ task'[p].goals = goals /\ task'[p].queue = Variants
         /\ trouble' \subseteq {"race", "lost", "forced"}
         /\ caller # p
<1>1. task \in [Handlers -> Tasks] /\ fwd \in Forwards /\ trouble \subseteq {"race", "lost", "forced"}
  BY DEF SIInv, SyncTypeOK
<1>2. Variants \in Seq(Services) /\ Variants # <<>>
  BY ForwardAssumption
<1>3. task'[p] = [job |-> j, rec |-> fwd', old |-> fwd, goals |-> goals, queue |-> Variants, handled |-> FALSE]
  BY <1>1 DEF Begins
<1>4. task'[p] \in Tasks
  BY <1>1, <1>2, <1>3 DEF Tasks
<1>5. task' \in [Handlers -> Tasks] /\ \A q \in Handlers \ {p} : task'[q] = task[q]
  BY <1>1, <1>4 DEF Begins
<1>6. caller # p
  BY DEF Begins, SIInv, TaskInv
<1>7. trouble' \subseteq {"race", "lost", "forced"}
  BY <1>1 DEF Begins, Met
<1>8. QED
  BY <1>2, <1>3, <1>5, <1>6, <1>7 DEF Moved

-----------------------------------------------------------------------------
(* What the agent receives *)

LEMMA SendReceives ==
  ASSUME SIInv, NEW p \in Handlers, Send(p)
  PROVE  AgentStep
<1>1. task \in [Handlers -> Tasks] /\ task[p].goals # <<>> /\ Goal(p) # "store"
  BY DEF SIInv, SyncTypeOK, Send, Sending
<1>2. Goal(p) \in Goals \ {"store"}
  BY <1>1, RestType
<1>3. Kind(Goal(p)) \in Commands
  BY <1>2 DEF Kind, Goals, Commands
<1>4. List(p) \in Seq(Services)
  <2>1. task[p].rec \in Forwards /\ task[p].queue \in Seq(Services) /\ task[p].queue # <<>>
    BY <1>1, TasksType DEF SIInv, TaskInv
  <2>2. task[p].rec.protos \in Seq(Services) /\ Variants \in Seq(Services)
    BY <2>1, ForwardAssumption DEF Forwards
  <2>3. Head(task[p].queue) \in Services
    BY <2>1, HeadTailProperties
  <2>4. <<Head(task[p].queue)>> \in Seq(Services)
    BY <2>3
  <2>5. QED
    BY <2>2, <2>4 DEF List
<1>5. Receives(Kind(Goal(p)), List(p))
  BY DEF Send, Receives
<1>6. QED
  BY <1>3, <1>4, <1>5 DEF AgentStep

LEMMA AgentOnly == SIInv /\ [SyncNext]_syncVars => [AgentStep]_vars
<1> SUFFICES ASSUME SIInv, [SyncNext]_syncVars PROVE [AgentStep]_vars
  OBVIOUS
<1>1. UNCHANGED agent => [AgentStep]_vars
  BY DEF agent
<1>2. ASSUME NEW p \in Handlers, Asked(p) \/ Report(p) PROVE [AgentStep]_vars
  BY <1>1, <1>2 DEF Asked, Report, Create, Request, Begins
<1>3. ASSUME NEW p \in Handlers, Handle(p) PROVE [AgentStep]_vars
  <2>1. CASE Send(p)
    BY <2>1, SendReceives
  <2>2. CASE \E r \in {"ok", "exists", "notfound", "inuse", "lost"} : Gets(p, r)
    BY <2>2, <1>1 DEF Gets
  <2>3. CASE Portless(p) \/ Store(p) \/ Finish(p)
    BY <2>3, <1>1 DEF Portless, Store, Finish
  <2>4. QED
    BY <1>3, <2>1, <2>2, <2>3
    DEF Handle, Synced, FallBack, Rebind, Clear, ControlName, ControlDone, Heal, Refused, Purged
<1>4. CASE ForceDelete
  BY <1>1, <1>4 DEF ForceDelete
<1>5. CASE AgentNext
  BY <1>5 DEF AgentNext, AgentStep
<1>6. CASE UNCHANGED syncVars
  BY <1>1, <1>6 DEF syncVars
<1>7. QED
  BY <1>2, <1>3, <1>4, <1>5, <1>6 DEF SyncNext

-----------------------------------------------------------------------------
(* Type correctness *)

LEMMA TakeType ==
  ASSUME PanelOK, NEW b \in {"job", "lost"}, Take(b)
  PROVE  limit' \in [job : 0..MaxJobs, lost : 0..MaxLost]
BY ForwardAssumption DEF PanelOK, Take

\* The parts of the invariant that are about the panel.
PanelInv == PanelOK /\ TaskInv /\ PortsInv

LEMMA PanelInvType == SIInv => PanelInv
BY PanelType DEF SIInv, PanelInv

\* p goes on and the agent is not, or no more, at work for it.
LEMMA MovedInv ==
  ASSUME PanelInv, NEW p \in Handlers, Moved(p),
         caller' = "none" \/ (caller' = caller /\ caller # p),
         fwd' \in Forwards, ports' \in BOOLEAN, fwd'.state = "there" => ports',
         limit' \in [job : 0..MaxJobs, lost : 0..MaxLost], trouble' \subseteq {"race", "lost", "forced"}
  PROVE  PanelInv'
<1>1. PanelOK'
  BY DEF PanelInv, PanelOK, Moved
<1>2. TaskInv'
  <2>1. \A q \in Handlers : task'[q].queue # <<>> /\ (task'[q].job = "none" => task'[q].goals = <<>>)
    BY DEF PanelInv, TaskInv, Moved, Idle
  <2>2. caller' \in Handlers => caller' = caller /\ task'[caller] = task[caller]
    BY ForwardAssumption DEF Moved
  <2>3. caller' \in Handlers => task'[caller'].goals # <<>> /\ Head(task'[caller'].goals) # "store"
    BY <2>2 DEF PanelInv, TaskInv, Goal
  <2>4. QED
    BY <2>1, <2>3 DEF TaskInv, Idle, Goal
<1>3. PortsInv'
  BY DEF PortsInv
<1>4. QED
  BY <1>1, <1>2, <1>3 DEF PanelInv

LEMMA GetsType ==
  ASSUME PanelOK, NEW p \in Handlers, NEW r, Gets(p, r)
  PROVE  /\ caller' = "none" /\ task[p].goals # <<>>
         /\ limit' \in [job : 0..MaxJobs, lost : 0..MaxLost] /\ trouble' \subseteq {"race", "lost", "forced"}
<1>1. CASE Hears(p, r)
  BY <1>1 DEF Gets, Hears, PanelOK
<1>2. CASE Loses(p, r)
  BY <1>2, TakeType DEF Gets, Loses, PanelOK
<1>3. QED
  BY <1>1, <1>2 DEF Gets

\* An answer that is followed by other goals.
LEMMA GetsPursues ==
  ASSUME SIInv, NEW p \in Handlers, NEW r, Gets(p, r), NEW goals \in Seq(Goals), Pursue(p, goals)
  PROVE  PanelInv'
<1>1. PanelInv
  BY PanelInvType
<1>2. Moved(p)
  BY PursueMoves DEF Gets
<1>3. fwd' \in Forwards /\ ports' \in BOOLEAN /\ (fwd'.state = "there" => ports')
  BY <1>1 DEF Pursue, PanelInv, PanelOK, PortsInv
<1>4. QED
  BY <1>1, <1>2, <1>3, GetsType, MovedInv DEF PanelInv

LEMMA GetsNextName ==
  ASSUME SIInv, NEW p \in Handlers, NEW r, Gets(p, r), NEW handled \in BOOLEAN, Len(task[p].queue) > 1,
         NextName(p, handled)
  PROVE  PanelInv'
<1>1. PanelInv
  BY PanelInvType
<1>2. Moved(p)
  BY NextNameMoves DEF Gets
<1>3. fwd' \in Forwards /\ ports' \in BOOLEAN /\ (fwd'.state = "there" => ports')
  BY <1>1 DEF NextName, PanelInv, PanelOK, PortsInv
<1>4. QED
  BY <1>1, <1>2, <1>3, GetsType, MovedInv DEF PanelInv

LEMMA GoalsBefore ==
  ASSUME NEW rest \in Seq(Goals), NEW g \in Goals, NEW h \in Goals
  PROVE  <<g>> \o rest \in Seq(Goals) /\ <<g, h>> \o rest \in Seq(Goals)
<1>1. <<g>> \in Seq(Goals) /\ <<g, h>> \in Seq(Goals)
  OBVIOUS
<1>2. QED
  BY <1>1, ConcatProperties

LEMMA HandlePanelInv ==
  ASSUME SIInv, NEW p \in Handlers, Handle(p)
  PROVE  PanelInv'
<1>0. PanelInv /\ task \in [Handlers -> Tasks] /\ task[p].handled \in BOOLEAN
  BY PanelInvType, TasksType DEF PanelInv, PanelOK
<1>r. task[p].goals # <<>> => Rest(p) \in Seq(Goals)
  BY <1>0, RestType
<1>1. CASE Send(p)
  <2>1. PanelOK' /\ PortsInv'
    BY <1>0, <1>1 DEF Send, PanelInv, PanelOK, PortsInv
  <2>2. TaskInv'
    BY <1>0, <1>1 DEF Send, Sending, PanelInv, TaskInv, Idle, Goal
  <2>3. QED
    BY <2>1, <2>2 DEF PanelInv
<1>2. CASE Synced(p)
  <2>1. PICK r \in {"ok", "exists"} : Gets(p, r)
    BY <1>2 DEF Synced
  <2>2. Rest(p) \in Seq(Goals) /\ <<"Pause">> \o Rest(p) \in Seq(Goals)
    BY <1>r, <2>1, GoalsBefore DEF Gets, Goals
  <2>3. QED
    BY <1>2, <2>1, <2>2, GetsPursues DEF Synced
<1>3. CASE FallBack(p)
  <2>1. PICK r \in {"inuse", "lost"} : Gets(p, r)
    BY <1>3 DEF FallBack
  <2>2. <<"add">> \o Rest(p) \in Seq(Goals)
    BY <1>r, <2>1, GoalsBefore DEF Gets, Goals
  <2>3. QED
    BY <1>3, <2>1, <2>2, GetsPursues DEF FallBack
<1>4. CASE Rebind(p)
  <2>1. <<"clear", "readd">> \o Rest(p) \in Seq(Goals)
    BY <1>r, <1>4, GoalsBefore DEF Rebind, Gets, Goals
  <2>2. QED
    BY <1>4, <2>1, GetsPursues DEF Rebind
<1>5. CASE Clear(p)
  <2>1. Rest(p) \in Seq(Goals)
    BY <1>r, <1>5 DEF Clear, Gets
  <2>2. QED
    BY <1>5, <2>1, GetsPursues, GetsNextName DEF Clear
<1>6. CASE ControlName(p)
  <2>1. PICK r \in {"ok", "notfound"} : Gets(p, r) /\ NextName(p, task[p].handled \/ r = "ok")
    BY <1>6 DEF ControlName
  <2>2. (task[p].handled \/ r = "ok") \in BOOLEAN
    OBVIOUS
  <2>3. QED
    BY <1>6, <2>1, <2>2, GetsNextName DEF ControlName
<1>7. CASE ControlDone(p)
  <2>1. PICK r \in {"ok", "notfound"} : Gets(p, r)
    BY <1>7 DEF ControlDone
  <2>2. Rest(p) \in Seq(Goals)
    BY <1>r, <2>1 DEF Gets
  <2>3. QED
    BY <1>7, <2>1, <2>2, GetsPursues DEF ControlDone
<1>8. CASE Heal(p)
  <2>1. DEFINE again == IF Goal(p) = "Pause" THEN "Pause again" ELSE "Resume again"
  <2>2. <<"sync", again>> \o Rest(p) \in Seq(Goals)
    <3>1. again \in Goals /\ "sync" \in Goals
      BY DEF Goals
    <3>2. QED
      BY <1>r, <1>8, <3>1, GoalsBefore DEF Heal, Gets
  <2>3. QED
    BY <1>8, <2>2, GetsPursues DEF Heal
<1>9. CASE Refused(p)
  <2>1. PICK r \in {"inuse", "lost", "notfound"} : Gets(p, r)
    BY <1>9 DEF Refused
  <2>2. QED
    BY <1>0, <1>9, <2>1, GiveUpMoves, GetsType, MovedInv DEF Refused, PanelInv
<1>10. CASE Portless(p)
  <2>1. Moved(p) /\ fwd' \in Forwards /\ ports' \in BOOLEAN /\ (fwd'.state = "there" => ports')
    <3>1. CASE GiveUp(p)
      BY <3>1, GiveUpMoves
    <3>2. CASE Pursue(p, Rest(p))
      <4>1. Moved(p)
        BY <1>r, <1>10, <3>2, PursueMoves DEF Portless
      <4>2. QED
        BY <1>0, <3>2, <4>1 DEF Pursue, PanelInv, PanelOK, PortsInv
    <3>3. QED
      BY <1>10, <3>1, <3>2 DEF Portless
  <2>2. QED
    BY <1>0, <1>10, <2>1, MovedInv DEF Portless, PanelInv, PanelOK
<1>11. CASE Purged(p)
  <2>1. PICK r \in {"ok", "lost"} : Gets(p, r)
    BY <1>11 DEF Purged
  <2>2. Moved(p)
    BY <1>11, EndMoves DEF Purged
  <2>3. QED
    BY <1>0, <1>11, <2>1, <2>2, GetsType, MovedInv DEF Purged, PanelInv, PanelOK, PortsInv
<1>12. CASE Store(p)
  <2>1. caller # p
    BY <1>0, <1>12 DEF Store, PanelInv, TaskInv
  <2>2. Moved(p) /\ fwd' \in Forwards /\ ports'
    <3>1. CASE RollBack(p)
      BY <3>1, RollBackMoves
    <3>2. ASSUME NEW ps \in Protos, fwd' = [fwd EXCEPT !.protos = ps], ports' = TRUE,
                 task' = [task EXCEPT ![p].rec = fwd', ![p].goals = Tail(task[p].goals)]
          PROVE  Moved(p) /\ fwd' \in Forwards /\ ports'
      <4>1. fwd' \in Forwards
        BY <1>0, <3>2 DEF PanelInv, PanelOK, Forwards
      <4>2. Tail(task[p].goals) \in Seq(Goals)
        BY <1>r, <1>12 DEF Store, Rest
      <4>3. task'[p] = [task[p] EXCEPT !.rec = fwd', !.goals = Tail(task[p].goals)]
        BY <1>0, <3>2 DEF Tasks
      <4>4. task'[p] \in Tasks /\ task'[p].queue = task[p].queue /\ task'[p].job = task[p].job
        BY <1>0, <4>1, <4>2, <4>3 DEF Tasks
      <4>5. task' \in [Handlers -> Tasks] /\ \A q \in Handlers \ {p} : task'[q] = task[q]
        BY <1>0, <3>2, <4>4
      <4>6. QED
        BY <1>0, <1>12, <3>2, <4>1, <4>4, <4>5 DEF Moved, Store, PanelInv, TaskInv, Idle
    <3>3. QED
      BY <1>12, <3>1, <3>2 DEF Store
  <2>3. QED
    BY <1>0, <1>12, <2>1, <2>2, MovedInv DEF Store, PanelInv, PanelOK
<1>13. CASE Finish(p)
  <2>1. caller # p /\ Moved(p)
    BY <1>0, <1>13, EndMoves DEF Finish, PanelInv, TaskInv
  <2>2. fwd \in Forwards /\ ports \in BOOLEAN /\ (fwd.state = "there" => ports)
    BY <1>0 DEF PanelInv, PanelOK, PortsInv
  <2>3. fwd' \in Forwards /\ ports' \in BOOLEAN /\ (fwd'.state = "there" => ports')
    <3>1. CASE task[p].job = "delete"
      BY <1>13, <2>2, <3>1 DEF Finish, Forwards
    <3>2. CASE task[p].job \in {"pause", "suspend", "resume"} /\ fwd.state = "there"
      BY <1>13, <2>2, <3>2 DEF Finish, Forwards
    <3>3. QED
      BY <1>13, <2>2, <3>1, <3>2 DEF Finish
  <2>4. QED
    BY <1>0, <1>13, <2>1, <2>3, MovedInv DEF Finish, PanelInv, PanelOK
<1>14. QED
  BY <1>1, <1>2, <1>3, <1>4, <1>5, <1>6, <1>7, <1>8, <1>9, <1>10, <1>11, <1>12, <1>13
  DEF Handle

LEMMA AskedPanelInv ==
  ASSUME SIInv, NEW p \in Handlers, Asked(p) \/ Report(p)
  PROVE  PanelInv'
<1>0. PanelInv /\ fwd \in Forwards /\ ports \in BOOLEAN /\ (fwd.state = "there" => ports)
  BY PanelInvType DEF PanelInv, PanelOK, PortsInv
<1>g. <<"store", "sync">> \in Seq(Goals) /\ \A g \in Goals : <<g>> \in Seq(Goals)
  BY DEF Goals
<1>1. ASSUME NEW j \in Jobs \ {"none"}, NEW goals \in Seq(Goals), Begins(p, j, goals),
             fwd' \in Forwards, ports' \in BOOLEAN, fwd'.state = "there" => ports',
             Take("job") \/ UNCHANGED limit
      PROVE  PanelInv'
  <2>1. Moved(p) /\ trouble' \subseteq {"race", "lost", "forced"} /\ caller # p
    BY <1>1, BeginsMoves
  <2>2. limit' \in [job : 0..MaxJobs, lost : 0..MaxLost]
    BY <1>0, <1>1, TakeType DEF PanelInv, PanelOK
  <2>3. QED
    BY <1>0, <1>1, <2>1, <2>2, MovedInv DEF Begins
<1>2. CASE Create(p)
  <2>1. fwd' \in Forwards /\ ports' = TRUE
    BY <1>0, <1>2 DEF Create, Forwards
  <2>2. "create" \in Jobs \ {"none"} /\ <<"sync">> \in Seq(Goals)
    BY <1>g DEF Jobs, Goals
  <2>3. QED
    BY <1>1, <1>2, <2>1, <2>2 DEF Create
<1>3. ASSUME NEW j \in Jobs \ {"none"}, NEW goals \in Seq(Goals), Request(p, j, goals)
      PROVE  PanelInv'
  BY <1>0, <1>1, <1>3 DEF Request
<1>4. CASE Report(p)
  <2>1. "report" \in Jobs \ {"none"} /\ <<"purge">> \in Seq(Goals)
    BY <1>g DEF Jobs, Goals
  <2>2. QED
    BY <1>0, <1>1, <1>4, <2>1 DEF Report
<1>5. {"update", "redeploy", "pause", "suspend", "resume", "delete"} \subseteq Jobs \ {"none"}
  BY DEF Jobs
<1>6. {<<"sync">>, <<"Pause">>, <<"Resume">>, <<"Delete">>} \subseteq Seq(Goals)
  BY <1>g DEF Goals
<1>7. QED
  BY <1>2, <1>3, <1>4, <1>5, <1>6, <1>g DEF Asked

LEMMA SIInvNext == SIInv /\ [SyncNext]_syncVars => SIInv'
<1> SUFFICES ASSUME SIInv, [SyncNext]_syncVars PROVE SIInv'
  OBVIOUS
<1>0. PanelInv /\ IInv
  BY PanelInvType DEF SIInv
<1>1. IInv'
  BY <1>0, AgentOnly, IInvNext
<1>2. PanelInv'
  <2>1. CASE UNCHANGED panel
    BY <1>0, <2>1 DEF panel, PanelInv, PanelOK, TaskInv, PortsInv, Idle, Goal
  <2>2. CASE ForceDelete
    <3>1. PanelOK' /\ PortsInv'
      BY <1>0, <2>2, TakeType DEF ForceDelete, Met, PanelInv, PanelOK, PortsInv, Forwards
    <3>2. TaskInv'
      BY <1>0, <2>2 DEF ForceDelete, PanelInv, TaskInv, Idle, Goal
    <3>3. QED
      BY <3>1, <3>2 DEF PanelInv
  <2>3. ASSUME NEW p \in Handlers, Asked(p) \/ Report(p) PROVE PanelInv'
    BY <2>3, AskedPanelInv
  <2>4. ASSUME NEW p \in Handlers, Handle(p) PROVE PanelInv'
    BY <2>4, HandlePanelInv
  <2>5. QED
    BY <2>1, <2>2, <2>3, <2>4 DEF SyncNext, AgentNext, syncVars
<1>3. QED
  BY <1>1, <1>2 DEF SIInv, SyncTypeOK, PanelInv, PanelOK, IInv

LEMMA SpecSIInv == SyncSpec => []SIInv
BY InitSIInv, SIInvNext, PTL DEF SyncSpec

\* Tasks, goals and queues of the handlers, the forward's row and the agent's
\* state keep their types.
THEOREM SyncSpecTypeOK == SyncSpec => []SyncTypeOK
<1>1. SIInv => SyncTypeOK
  BY DEF SIInv
<1>2. QED
  BY SpecSIInv, <1>1, PTL

\* Whatever commands the panel sends and whatever it makes of the answers, the
\* agent keeps the promises it makes when it is alone (AgentServicesProofs).
THEOREM SyncSpecAgent ==
  SyncSpec => [](RegistryMatchesConfig /\ PausedIsStopped /\ RestartsAlways /\ SavedIsCurrent)
<1>1. SIInv => RegistryMatchesConfig /\ PausedIsStopped /\ RestartsAlways /\ SavedIsCurrent
  BY IInvPromises DEF SIInv
<1>2. QED
  BY SpecSIInv, <1>1, PTL

\* The agent of AgentServices, commanded by anybody and any number of times.
AgentSpec == Init /\ [][AgentStep]_vars

\* What the agent does under the panel it can do alone: a handler reaches it
\* only through a command, sent between two others, and changes nothing of its
\* registry, configuration or file by an answer, a time-out or a give-up.
THEOREM SyncSpecIsAgentSpec == SyncSpec => AgentSpec
<1>1. SyncInit => Init
  BY DEF SyncInit
<1>2. SIInv /\ [SyncNext]_syncVars => [AgentStep]_vars
  BY AgentOnly
<1>3. QED
  BY SpecSIInv, <1>1, <1>2, PTL DEF SyncSpec, AgentSpec

-----------------------------------------------------------------------------
(* Who met whom *)

LEMMA DownNext == IInv /\ DownInv /\ [AgentStep]_vars => DownInv'
<1> SUFFICES ASSUME IInv, DownInv, [AgentStep]_vars PROVE DownInv'
  OBVIOUS
<1>1. ~up => phase = "idle"
  BY DEF IInv, FileInv
<1>2. CASE UNCHANGED vars
  BY <1>2 DEF vars, command, DownInv
<1>3. ASSUME NEW o, NEW list, Receives(o, list) PROVE DownInv'
  BY <1>3 DEF Receives, Receive, DownInv
<1>4. CASE Kill \/ Boot
  BY <1>4 DEF Kill, Boot, DownInv
<1>5. ASSUME NEW s \in Services, Collect(s) PROVE DownInv'
  BY <1>5 DEF Collect, command, DownInv
<1>6. CASE Step /\ \A s \in Services : ~Collect(s)
  <2>1. phase # "idle" /\ UNCHANGED up
    BY <1>6
    DEF Step, NextItem, Running, AddOpen, AddRefused, AddFails, UpdateOne, UpdateFails, PauseOne, PauseUnconfigured,
        ResumeSkips, ResumeOne, ResumeFails, AddRegister, UpdateConfig, DeleteAll, PauseMissing, PauseConfig,
        ResumeMissing, ResumeConfig, SaveOpen, SaveWrite
  <2>2. QED
    BY <1>1, <2>1 DEF DownInv
<1>7. QED
  BY <1>2, <1>3, <1>4, <1>5, <1>6 DEF AgentStep

\* The part of a handler's step that all share.
LEMMA HandleOthers ==
  ASSUME SIInv, NEW p \in Handlers, Handle(p)
  PROVE  /\ ~Idle(p) /\ trouble \subseteq trouble'
         /\ \A q \in Handlers \ {p} : task'[q] = task[q]
<1>0. task \in [Handlers -> Tasks] /\ (Idle(p) => task[p].goals = <<>>)
  BY DEF SIInv, SyncTypeOK, TaskInv
<1>1. ASSUME NEW r, Gets(p, r) PROVE task[p].goals # <<>> /\ trouble \subseteq trouble'
  BY <1>1 DEF Gets, Hears, Loses
<1>2. ~Idle(p) /\ trouble \subseteq trouble'
  BY <1>0, <1>1
  DEF Handle, Send, Sending, Synced, FallBack, Rebind, Clear, ControlName, ControlDone, Heal, Refused, Portless,
      Purged, Store, Finish
<1>3. ASSUME NEW t, task' = [task EXCEPT ![p] = t] PROVE \A q \in Handlers \ {p} : task'[q] = task[q]
  BY <1>0, <1>3
<1>4. ASSUME NEW goals, Pursue(p, goals) PROVE \A q \in Handlers \ {p} : task'[q] = task[q]
  BY <1>0, <1>4 DEF Pursue
<1>5. ASSUME NEW handled, NextName(p, handled) PROVE \A q \in Handlers \ {p} : task'[q] = task[q]
  BY <1>0, <1>5 DEF NextName
<1>6. End(p) \/ RollBack(p) \/ GiveUp(p) => \A q \in Handlers \ {p} : task'[q] = task[q]
  BY <1>0 DEF End, RollBack, GiveUp, UndoCreate, SuspendAnyway
<1>7. Store(p) => \A q \in Handlers \ {p} : task'[q] = task[q]
  BY <1>0, <1>6 DEF Store
<1>8. QED
  BY <1>2, <1>4, <1>5, <1>6, <1>7
  DEF Handle, Send, Synced, FallBack, Rebind, Clear, ControlName, ControlDone, Heal, Refused, Portless, Purged, Finish

\* A request begins alone, or it has met another.
LEMMA AskedOthers ==
  ASSUME SIInv, NEW p \in Handlers, Asked(p) \/ Report(p)
  PROVE  /\ Idle(p) /\ trouble' = trouble \cup Met
         /\ \A q \in Handlers \ {p} : task'[q] = task[q]
<1>1. task \in [Handlers -> Tasks]
  BY DEF SIInv, SyncTypeOK
<1>2. ASSUME NEW j, NEW goals, Begins(p, j, goals)
      PROVE  /\ Idle(p) /\ trouble' = trouble \cup Met
             /\ \A q \in Handlers \ {p} : task'[q] = task[q]
  BY <1>1, <1>2 DEF Begins
<1>3. QED
  BY <1>2 DEF Asked, Create, Request, Report

LEMMA MetNext == SIInv /\ MetInv /\ [SyncNext]_syncVars => MetInv'
<1> SUFFICES ASSUME SIInv, MetInv, [SyncNext]_syncVars PROVE MetInv'
  OBVIOUS
<1>1. CASE UNCHANGED panel
  BY <1>1 DEF panel, MetInv, Idle
<1>2. CASE ForceDelete
  BY <1>2 DEF ForceDelete, MetInv, Idle
<1>3. ASSUME NEW p \in Handlers, Asked(p) \/ Report(p) PROVE MetInv'
  BY <1>3, AskedOthers DEF MetInv, Met, Idle
<1>4. ASSUME NEW p \in Handlers, Handle(p) PROVE MetInv'
  BY <1>4, HandleOthers DEF MetInv, Idle
<1>5. QED
  BY <1>1, <1>2, <1>3, <1>4 DEF SyncNext, AgentNext, syncVars

-----------------------------------------------------------------------------
(* A delete *)

\* What is off the agent stays off, unless the agent makes services.
LEMMA OffKept ==
  ASSUME IInv, Step \/ Kill \/ Boot, phase # "items" \/ op = "Delete", NEW s \in Services, Off(s)
  PROVE  Off(s)'
<1>0. config \in Configs /\ disk \in Configs /\ reg \in [Services -> {"none", "serving", "closed"}]
  BY DEF IInv, TypeOK, ConfigTypeOK, RegistryTypeOK
<1>1. CASE Kill
  BY <1>1 DEF Kill, files, NoServices, NoConfig, Off
<1>2. CASE Boot
  BY <1>0, <1>2 DEF Boot, files, Off
<1>3. CASE DeleteAll
  BY <1>0, <1>3 DEF DeleteAll, Removed, files, Off
<1>4. CASE SaveOpen \/ SaveWrite \/ \E t \in Services : Collect(t)
  BY <1>4 DEF SaveOpen, SaveWrite, Collect, registry, files, Off
<1>5. QED
  BY <1>1, <1>2, <1>3, <1>4
  DEF Step, NextItem, Running, AddOpen, AddRefused, AddFails, UpdateOne, UpdateFails, PauseOne, PauseUnconfigured,
      ResumeSkips, ResumeOne, ResumeFails, AddRegister, UpdateConfig, PauseMissing, PauseConfig, ResumeMissing,
      ResumeConfig

\* The agent at rest begins nothing of its own; deleting a service, it removes it.
LEMMA RestKept ==
  ASSUME IInv, DownInv, Step \/ Kill \/ Boot, phase = "idle"
  PROVE  /\ phase' = "idle"
         /\ reply' # "none" => reply' = reply /\ UNCHANGED <<reg, config>>
<1>1. CASE Kill
  BY <1>1 DEF Kill
<1>2. CASE Boot
  BY <1>2 DEF Boot, command, DownInv
<1>3. CASE \E t \in Services : Collect(t)
  BY <1>3 DEF Collect, command
<1>4. QED
  BY <1>1, <1>2, <1>3
  DEF Step, NextItem, Running, AddOpen, AddRefused, AddFails, UpdateOne, UpdateFails, PauseOne, PauseUnconfigured,
      ResumeSkips, ResumeOne, ResumeFails, AddRegister, UpdateConfig, DeleteAll, PauseMissing, PauseConfig,
      ResumeMissing, ResumeConfig, SaveOpen, SaveWrite

LEMMA SaveKept ==
  ASSUME IInv, Step \/ Kill \/ Boot, phase \in {"save", "write"}
  PROVE  phase' # "items" /\ (reply' # "none" => reply' = reply /\ UNCHANGED <<reg, config>>)
<1>1. CASE Kill
  BY <1>1 DEF Kill
<1>2. up
  BY DEF IInv, FileInv
<1>3. CASE \E t \in Services : Collect(t)
  BY <1>3 DEF Collect, command
<1>4. CASE SaveOpen \/ SaveWrite
  BY <1>4 DEF SaveOpen, SaveWrite, registry
<1>5. QED
  BY <1>1, <1>2, <1>3, <1>4
  DEF Boot, Step, NextItem, Running, AddOpen, AddRefused, AddFails, UpdateOne, UpdateFails, PauseOne,
      PauseUnconfigured, ResumeSkips, ResumeOne, ResumeFails, AddRegister, UpdateConfig, DeleteAll, PauseMissing,
      PauseConfig, ResumeMissing, ResumeConfig

LEMMA DeleteDone ==
  ASSUME IInv, Step \/ Kill \/ Boot, phase = "items", op = "Delete", NEW s \in Services, todo = <<s>>
  PROVE  \/ phase' = "items" /\ UNCHANGED <<op, todo>>
         \/ phase' # "items" /\ reply' = "none"
         \/ phase' # "items" /\ reg'[s] = "none" /\ config'.entries[s] = 0
<1>1. CASE Kill
  BY <1>1 DEF Kill
<1>2. up
  BY DEF IInv, FileInv
<1>3. CASE \E t \in Services : Collect(t)
  BY <1>3 DEF Collect, command
<1>4. CASE DeleteAll
  <2>1. s \in Names(todo)
    BY DEF Names
  <2>2. phase' # "items"
    BY <1>4 DEF DeleteAll, Return
  <2>3. reg'[s] = "none" /\ config'.entries[s] = 0
    BY <1>4, <2>1 DEF DeleteAll, Removed
  <2>4. QED
    BY <2>2, <2>3
<1>5. QED
  BY <1>1, <1>2, <1>3, <1>4
  DEF Boot, Step, NextItem, Running, AddOpen, AddRefused, AddFails, UpdateOne, UpdateFails, PauseOne,
      PauseUnconfigured, ResumeSkips, ResumeOne, ResumeFails, AddRegister, UpdateConfig, PauseMissing, PauseConfig,
      ResumeMissing, ResumeConfig, SaveOpen, SaveWrite

LEMMA DeleteAgent == SIInv /\ DownInv /\ DeleteInv /\ AgentNext => DeleteInv'
<1> SUFFICES ASSUME SIInv, DownInv, DeleteInv, AgentNext, NEW p \in Handlers, Deleting(p)'
             PROVE  DeleteIs(p)'
  BY DEF DeleteInv
<1>1. UNCHANGED <<fwd, task, caller>> /\ Through(p)' = Through(p) /\ Deleting(p)
  BY DEF AgentNext, panel, Through, Deleting
<1>2. IInv /\ (Step \/ Kill \/ Boot) /\ phase \in {"idle", "items", "save", "write"}
  BY DEF AgentNext, SIInv, IInv, TypeOK, CommandTypeOK
<1>3. Head(task[p].queue) \in Services /\ Through(p) \subseteq Services
  BY TasksType, HeadTailProperties DEF SIInv, SyncTypeOK, TaskInv, Through
<1>4. \A s \in Through(p)' : Off(s)'
  BY <1>1, <1>2, <1>3, OffKept DEF DeleteInv, DeleteIs
<1>5. caller # p => Through(p)' = {} \/ phase' = "idle"
  BY <1>1, <1>2, RestKept DEF DeleteInv, DeleteIs
<1>6. ASSUME caller = p
      PROVE  /\ phase' = "items" => op' = "Delete" /\ todo' = <<Head(task[p].queue)>>
             /\ phase' # "items" /\ reply' # "none" =>
                  reg'[Head(task[p].queue)] = "none" /\ config'.entries[Head(task[p].queue)] = 0
  <2>1. CASE phase = "idle"
    BY <1>1, <1>2, <1>6, <2>1, RestKept DEF DeleteInv, DeleteIs
  <2>2. CASE phase \in {"save", "write"}
    BY <1>1, <1>2, <1>6, <2>2, SaveKept DEF DeleteInv, DeleteIs
  <2>3. CASE phase = "items"
    <3>1. op = "Delete" /\ todo = <<Head(task[p].queue)>>
      BY <1>1, <1>6, <2>3 DEF DeleteInv, DeleteIs
    <3>2. QED
      BY <1>2, <1>3, <2>3, <3>1, DeleteDone
  <2>4. QED
    BY <1>2, <2>1, <2>2, <2>3
<1>7. QED
  BY <1>1, <1>4, <1>5, <1>6 DEF DeleteInv, DeleteIs

LEMMA DeleteBegins ==
  ASSUME SIInv, NEW p \in Handlers, Asked(p) \/ Report(p), Deleting(p)'
  PROVE  DeleteIs(p)'
<1>1. task \in [Handlers -> Tasks] /\ fwd \in Forwards
  BY DEF SIInv, SyncTypeOK
<1>2. ASSUME NEW j, NEW goals, Begins(p, j, goals) PROVE j = "delete"
  BY <1>1, <1>2 DEF Begins, Deleting
<1>3. Request(p, "delete", <<"Delete">>)
  BY <1>2 DEF Asked, Create, Request, Report
<1>4. fwd' = fwd /\ fwd.state = "there" /\ caller' = caller /\ Begins(p, "delete", <<"Delete">>)
  BY <1>3 DEF Request, Begins
<1>5. "delete" \in Jobs \ {"none"} /\ <<"Delete">> \in Seq(Goals)
  BY DEF Jobs, Goals
<1>6. task'[p].goals = <<"Delete">> /\ task'[p].queue = Variants /\ caller # p
  BY <1>1, <1>4, <1>5, BeginsMoves
<1>7. Through(p)' = {}
  BY <1>6, ForwardAssumption DEF Through
<1>8. QED
  BY <1>4, <1>6, <1>7 DEF DeleteIs

\* A delete goes on with its next name, or is through with the last one.
LEMMA DeleteHandles ==
  ASSUME SIInv, DeleteInv, NEW p \in Handlers, Handle(p), Deleting(p)'
  PROVE  DeleteIs(p)'
<1>0. /\ task \in [Handlers -> Tasks] /\ ports \in BOOLEAN /\ PortsInv
      /\ task[p].queue \in Seq(Services) /\ task[p].queue # <<>>
      /\ config \in Configs /\ IInv
  BY TasksType DEF SIInv, SyncTypeOK, TypeOK, ConfigTypeOK, TaskInv
<1>g. ~GiveUp(p) /\ ~End(p)
  BY GiveUpMoves, EndMoves DEF Deleting, NoTask
<1>1. task[p].job = "delete"
  <2>1. ASSUME NEW goals, Pursue(p, goals) PROVE task'[p].job = task[p].job
    BY <1>0, <2>1 DEF Pursue, Tasks
  <2>2. ASSUME NEW handled, NextName(p, handled) PROVE task'[p].job = task[p].job
    BY <1>0, <2>2 DEF NextName, Tasks
  <2>3. Store(p) => task'[p].job \in {task[p].job, "rollback"}
    BY <1>0, RollBackMoves DEF Store, Tasks
  <2>4. task'[p].job \in {task[p].job, "rollback"}
    BY <1>g, <2>1, <2>2, <2>3
    DEF Handle, Send, Synced, FallBack, Rebind, Clear, ControlName, ControlDone, Heal, Refused, Portless, Purged,
        Finish
  <2>5. QED
    BY <2>4 DEF Deleting
<1>2. Deleting(p) /\ DeleteIs(p)
  BY <1>1, HandleOthers DEF Deleting, DeleteInv
<1>3. task[p].goals = <<"Delete">> /\ Goal(p) = "Delete" /\ Rest(p) = <<>>
  <2>1. task[p].goals # <<>>
    BY <1>g, HandleOthers
    DEF Handle, Send, Sending, Synced, Gets, FallBack, Rebind, Clear, ControlName, ControlDone, Heal, Refused,
        Portless, Purged, Store, Finish
  <2>2. task[p].goals = <<"Delete">>
    BY <1>2, <2>1 DEF DeleteIs
  <2>3. QED
    BY <2>2 DEF Goal, Rest
<1>4. ~NoPorts(p)
  BY <1>0, <1>2 DEF DeleteIs, PortsInv, NoPorts
<1>5. Send(p) \/ ControlName(p) \/ ControlDone(p)
  BY <1>3, <1>4, <1>g
  DEF Handle, Synced, FallBack, Rebind, Clear, Heal, Refused, Portless, Purged, Store, Finish
<1>h. DEFINE s0 == Head(task[p].queue)
<1>6. CASE Send(p)
  <2>1. UNCHANGED <<task, fwd, reg, config, disk>> /\ caller' = p /\ phase' = "items"
    BY <1>6 DEF Send, Receive, registry, files
  <2>2. op' = "Delete" /\ todo' = <<s0>>
    BY <1>3, <1>6 DEF Send, Receive, Kind, List
  <2>3. Through(p)' = Through(p) /\ \A s \in Through(p) : Off(s) /\ Off(s)'
    BY <1>2, <2>1 DEF Through, DeleteIs, Off
  <2>4. QED
    BY <1>2, <2>1, <2>2, <2>3 DEF DeleteIs
<1>7. ASSUME NEW r \in {"ok", "notfound"}, Gets(p, r), UNCHANGED fwd,
             task'[p].goals \in {<<>>, <<"Delete">>},
             Through(p)' \subseteq Through(p) \cup {s0}
      PROVE  DeleteIs(p)'
  <2>1. Hears(p, r)
    BY <1>7 DEF Gets, Loses
  <2>2. UNCHANGED <<reg, config, disk, phase>> /\ caller' = "none" /\ phase = "idle"
    BY <1>7, <2>1 DEF Gets, Hears, AtRest, agent, vars, registry, files, command
  <2>3. Off(s0)
    BY <1>0, <1>2, <2>1 DEF Hears, AtRest, DeleteIs, Off, IInv, FileInv
  <2>4. \A s \in Through(p)' : Off(s)'
    BY <1>2, <1>7, <2>2, <2>3 DEF DeleteIs, Off
  <2>5. QED
    BY <1>2, <1>7, <2>2, <2>4, ForwardAssumption DEF DeleteIs
<1>8. CASE ControlName(p)
  <2>1. PICK r \in {"ok", "notfound"} : Gets(p, r) /\ NextName(p, task[p].handled \/ r = "ok")
    BY <1>8 DEF ControlName
  <2>2. task'[p].goals = task[p].goals /\ task'[p].queue = Tail(task[p].queue)
    BY <1>0, <2>1 DEF NextName, Tasks
  <2>3. Names(task[p].queue) \subseteq Names(Tail(task[p].queue)) \cup {s0}
    BY <1>0, NamesTail
  <2>4. Through(p)' \subseteq Through(p) \cup {s0}
    BY <1>3, <2>2, <2>3 DEF Through
  <2>5. QED
    BY <1>3, <1>7, <2>1, <2>2, <2>4 DEF NextName
<1>9. CASE ControlDone(p)
  <2>1. PICK r \in {"ok", "notfound"} : Gets(p, r)
    BY <1>9 DEF ControlDone
  <2>2. task'[p].goals = <<>> /\ UNCHANGED fwd
    BY <1>0, <1>3, <1>9 DEF ControlDone, Pursue, Tasks
  <2>3. Names(task[p].queue) \subseteq {s0}
    BY <1>0, <1>9, NamesOne DEF ControlDone
  <2>4. Through(p)' \subseteq Through(p) \cup {s0}
    BY <1>3, <2>2, <2>3 DEF Through
  <2>5. QED
    BY <1>7, <2>1, <2>2, <2>4
<1>10. QED
  BY <1>5, <1>6, <1>8, <1>9

LEMMA DeleteNext == SIInv /\ DownInv /\ MetInv /\ DeleteInv /\ [SyncNext]_syncVars => DeleteInv'
<1> SUFFICES ASSUME SIInv, DownInv, MetInv, DeleteInv, [SyncNext]_syncVars PROVE DeleteInv'
  OBVIOUS
<1>0. DeleteInv' <=> \A p \in Handlers : Deleting(p)' => DeleteIs(p)'
  BY DEF DeleteInv
<1>1. CASE UNCHANGED syncVars
  BY <1>1
  DEF syncVars, agent, vars, panel, registry, files, command, DeleteInv, DeleteIs, Deleting, Through, Off
<1>2. CASE AgentNext
  BY <1>2, DeleteAgent
<1>3. CASE ForceDelete
  <2>1. \A p \in Handlers : ~Deleting(p)'
    BY <1>3 DEF ForceDelete, Met, Idle, Deleting
  <2>2. QED
    BY <1>0, <2>1
<1>4. ASSUME NEW p \in Handlers, Asked(p) \/ Report(p) PROVE DeleteInv'
  <2>1. ASSUME NEW q \in Handlers \ {p} PROVE ~Deleting(q)'
    BY <1>4, AskedOthers DEF Met, Idle, Deleting
  <2>2. QED
    BY <1>0, <1>4, <2>1, DeleteBegins
<1>5. ASSUME NEW p \in Handlers, Handle(p) PROVE DeleteInv'
  <2>1. ASSUME NEW q \in Handlers \ {p} PROVE ~Deleting(q)'
    BY <1>5, HandleOthers DEF MetInv, Idle, Deleting
  <2>2. QED
    BY <1>0, <1>5, <2>1, DeleteHandles
<1>6. QED
  BY <1>1, <1>2, <1>3, <1>4, <1>5 DEF SyncNext

LEMMA InitDelete == SyncInit => DownInv /\ MetInv /\ DeleteInv
BY DEF SyncInit, Init, NoTask, DownInv, MetInv, Idle, DeleteInv, Deleting

LEMMA SpecDeleteInv == SyncSpec => [](SIInv /\ DownInv /\ MetInv /\ DeleteInv)
<1> DEFINE Inv == SIInv /\ DownInv /\ MetInv /\ DeleteInv
<1>1. SyncInit => Inv
  BY InitSIInv, InitDelete
<1>2. Inv /\ [SyncNext]_syncVars => Inv'
  BY SIInvNext, AgentOnly, DownNext, MetNext, DeleteNext DEF SIInv
<1> HIDE DEF Inv
<1>3. SyncSpec => []Inv
  BY <1>1, <1>2, PTL DEF SyncSpec
<1>4. QED
  BY <1>3, PTL DEF Inv

\* A delete that is answered with OK and met no other request left no service
\* registered or configured, whatever names it has, whatever was lost on the way,
\* and however often the agent failed or was killed (control_plane.go:500,
\* mutations.go:1868).
THEOREM SyncSpecOkIsDeleted == SyncSpec => OkIsDeleted
<1>1. ASSUME SIInv, DeleteInv, NEW p \in Handlers, NEW s \in Services, Succeeds(p, "delete")
      PROVE  reg[s] = "none" /\ config.entries[s] = 0
  <2>1. Deleting(p) /\ task[p].goals = <<>>
    BY <1>1 DEF Succeeds, Finish, Deleting
  <2>2. s \in Through(p)
    BY <2>1 DEF Through
  <2>3. QED
    BY <1>1, <2>1, <2>2 DEF DeleteInv, DeleteIs, Off
<1>2. SIInv /\ DownInv /\ MetInv /\ DeleteInv =>
        \A p \in Handlers, s \in Services : Succeeds(p, "delete") => reg[s] = "none" /\ config.entries[s] = 0
  BY <1>1
<1>3. QED
  BY <1>2, SpecDeleteInv, PTL DEF OkIsDeleted

-----------------------------------------------------------------------------
(* A forward that is gone *)

\* The forward is active until its first request, and an update begins on a
\* forward that is there.
FwdInv ==
  /\ fwd.state = "new" => fwd.status = 1 /\ \A p \in Handlers : Idle(p)
  /\ \A p \in Handlers : task[p].job = "update" => task[p].old.state = "there"

\* p creates the forward and nothing disturbed it.
Creating(p) == task[p].job = "create" /\ trouble = {}

\* The names that p's rebind has cleared are off the agent, and so are all of
\* them once it adds them again, unless that succeeds.
ClearIs(p) ==
  /\ \A s \in Services \ Names(task[p].queue) : Off(s)
  /\ caller # p => phase = "idle"
  /\ caller = p =>
       /\ phase = "items" => op = "Delete" /\ todo = <<Head(task[p].queue)>>
       /\ phase # "items" => reply \in {"none", "ok"}
       /\ phase # "items" /\ reply # "none" =>
            reg[Head(task[p].queue)] = "none" /\ config.entries[Head(task[p].queue)] = 0

ReaddIs(p) ==
  /\ caller # p => phase = "idle" /\ \A s \in Services : Off(s)
  /\ caller = p =>
       /\ phase = "items" => op = "Add" /\ \A s \in Services : Off(s)
       /\ phase # "items" /\ reply = "inuse" => \A s \in Services : Off(s)

CreateIs(p) ==
  /\ task[p].goals \in {<<>>, <<"sync">>, <<"add">>, <<"clear", "readd">>, <<"readd">>}
  /\ fwd.state = "there" /\ task[p].rec.status = 1
  /\ task[p].goals = <<"clear", "readd">> => ClearIs(p)
  /\ task[p].goals = <<"readd">> => ReaddIs(p)

CreateInv == \A p \in Handlers : Creating(p) => CreateIs(p)

\* A forward that is gone without trouble has nothing on the agent, which makes
\* no services for anybody.
GoneInv ==
  fwd.state = "gone" /\ trouble = {} =>
    /\ \A s \in Services : Off(s)
    /\ phase = "items" => op = "Delete"
    /\ \A p \in Handlers : ~Idle(p) => task[p].job = "report" /\ task[p].goals = <<"purge">>

\* What a step of a handler makes of the forward's row.
LEMMA FwdAfter ==
  ASSUME SIInv, FwdInv, NEW p \in Handlers, Handle(p)
  PROVE  /\ fwd'.state # "new"
         /\ fwd'.state = "gone" => fwd.state = "gone" \/ UndoCreate(p) \/ (Finish(p) /\ task[p].job = "delete")
         /\ task'[p].job = "update" => task'[p].old.state = "there"
<1>0. /\ task \in [Handlers -> Tasks] /\ fwd \in Forwards /\ fwd.state \in {"there", "gone"}
      /\ task[p].job = "update" => task[p].old.state = "there"
  BY HandleOthers DEF SIInv, SyncTypeOK, FwdInv, Forwards
<1> DEFINE Kept == fwd'.state = fwd.state
           OldKept == task'[p].job = "update" => task[p].job = "update" /\ task'[p].old = task[p].old
<1>1. ASSUME NEW goals, Pursue(p, goals) PROVE Kept /\ OldKept
  BY <1>0, <1>1 DEF Pursue, Tasks
<1>2. ASSUME NEW handled, NextName(p, handled) PROVE Kept /\ OldKept
  BY <1>0, <1>2 DEF NextName, Tasks
<1>3. End(p) => OldKept
  BY EndMoves DEF NoTask
<1>4. ASSUME RollBack(p), fwd.state = "there" => task[p].old.state = "there" PROVE Kept /\ OldKept
  BY <1>0, <1>4, RollBackMoves DEF RollBack
<1>5. GiveUp(p) => (Kept \/ (UndoCreate(p) /\ fwd'.state = "gone")) /\ OldKept
  <2>1. UndoCreate(p) => fwd'.state = "gone" /\ OldKept
    BY <1>0, <1>3 DEF UndoCreate
  <2>2. SuspendAnyway(p) => Kept /\ OldKept
    BY <1>0, <1>3 DEF SuspendAnyway
  <2>3. QED
    BY <1>0, <1>3, <1>4, <2>1, <2>2 DEF GiveUp
<1>6. Finish(p) => (Kept \/ (task[p].job = "delete" /\ fwd'.state = "gone")) /\ OldKept
  BY <1>0, <1>3 DEF Finish, Forwards
<1>7. Store(p) => Kept /\ OldKept
  <2>1. ASSUME NEW ps \in Protos, fwd' = [fwd EXCEPT !.protos = ps],
               task' = [task EXCEPT ![p].rec = fwd', ![p].goals = Tail(task[p].goals)]
        PROVE  Kept /\ OldKept
    BY <1>0, <2>1 DEF Tasks, Forwards
  <2>2. QED
    BY <1>4, <2>1 DEF Store
<1>8. Send(p) => Kept /\ OldKept
  BY DEF Send
<1>9. Purged(p) => Kept /\ OldKept
  BY <1>3 DEF Purged
<1>10. (Kept \/ (UndoCreate(p) /\ fwd'.state = "gone")
             \/ (Finish(p) /\ task[p].job = "delete" /\ fwd'.state = "gone")) /\ OldKept
  BY <1>1, <1>2, <1>5, <1>6, <1>7, <1>8, <1>9
  DEF Handle, Synced, FallBack, Rebind, Clear, ControlName, ControlDone, Heal, Refused, Portless
<1>11. QED
  BY <1>0, <1>10

LEMMA FwdNext == SIInv /\ FwdInv /\ [SyncNext]_syncVars => FwdInv'
<1> SUFFICES ASSUME SIInv, FwdInv, [SyncNext]_syncVars PROVE FwdInv'
  OBVIOUS
<1>0. task \in [Handlers -> Tasks] /\ fwd \in Forwards
  BY DEF SIInv, SyncTypeOK
<1>1. CASE UNCHANGED panel
  BY <1>1 DEF panel, FwdInv, Idle
<1>2. CASE ForceDelete
  BY <1>0, <1>2 DEF ForceDelete, FwdInv, Forwards
<1>3. ASSUME NEW p \in Handlers, Handle(p) PROVE FwdInv'
  BY <1>3, FwdAfter, HandleOthers DEF FwdInv, Idle
<1>4. ASSUME NEW p \in Handlers, Asked(p) \/ Report(p) PROVE FwdInv'
  <2>1. ASSUME NEW j, NEW goals, Begins(p, j, goals), fwd.state = "there" \/ j # "update"
        PROVE  task'[p].job = "update" => task'[p].old.state = "there"
    BY <1>0, <2>1 DEF Begins
  <2>2. (task'[p].job = "update" => task'[p].old.state = "there") /\ fwd'.state # "new"
    BY <1>0, <1>4, <2>1 DEF Asked, Create, Request, Report, Forwards
  <2>3. QED
    BY <1>4, <2>2, AskedOthers DEF FwdInv
<1>5. QED
  BY <1>1, <1>2, <1>3, <1>4 DEF SyncNext, AgentNext, syncVars

\* What the agent answers to a delete, and what an Add leaves that fails.
LEMMA DeleteReplies ==
  ASSUME IInv, Step \/ Kill \/ Boot, phase = "items", op = "Delete"
  PROVE  phase' = "items" \/ reply' \in {"none", "ok"}
<1>1. CASE Kill
  BY <1>1 DEF Kill
<1>2. up
  BY DEF IInv, FileInv
<1>3. CASE \E t \in Services : Collect(t)
  BY <1>3 DEF Collect, command
<1>4. CASE DeleteAll
  BY <1>4 DEF DeleteAll, Return
<1>5. QED
  BY <1>1, <1>2, <1>3, <1>4
  DEF Boot, Step, NextItem, Running, AddOpen, AddRefused, AddFails, UpdateOne, UpdateFails, PauseOne,
      PauseUnconfigured, ResumeSkips, ResumeOne, ResumeFails, AddRegister, UpdateConfig, PauseMissing, PauseConfig,
      ResumeMissing, ResumeConfig, SaveOpen, SaveWrite

LEMMA AddDone ==
  ASSUME IInv, Step \/ Kill \/ Boot, phase = "items", op = "Add", \A s \in Services : Off(s)
  PROVE  \/ phase' = "items" /\ op' = "Add" /\ \A s \in Services : Off(s)'
         \/ phase' # "items" /\ (reply' = "inuse" => \A s \in Services : Off(s)')
<1>1. CASE Kill
  BY <1>1 DEF Kill
<1>2. up
  BY DEF IInv, FileInv
<1>3. CASE \E t \in Services : Collect(t)
  BY <1>3 DEF Collect, command, files, Off
<1>4. ASSUME NEW t \in Services, AddOpen(t) \/ AddRefused(t) \/ AddFails(t)
      PROVE  UNCHANGED <<op, reg, config, disk>> /\ phase' \in {"items", "save"}
  BY <1>4 DEF AddOpen, AddRefused, AddFails, NextItem, Return, registry, files
<1>5. CASE \E t \in Services : AddOpen(t) \/ AddRefused(t) \/ AddFails(t)
  <2>1. UNCHANGED <<op, reg, config, disk>> /\ phase' \in {"items", "save"}
    BY <1>4, <1>5
  <2>2. QED
    BY <2>1 DEF Off
<1>6. CASE AddRegister
  BY <1>6 DEF AddRegister, Return
<1>7. QED
  BY <1>1, <1>2, <1>3, <1>5, <1>6
  DEF Boot, Step, NextItem, Running, UpdateOne, UpdateFails, PauseOne, PauseUnconfigured, ResumeSkips, ResumeOne,
      ResumeFails, UpdateConfig, DeleteAll, PauseMissing, PauseConfig, ResumeMissing, ResumeConfig, SaveOpen,
      SaveWrite

\* The agent goes on with its command only.
LEMMA ItemsKept ==
  ASSUME IInv, Step \/ Kill \/ Boot
  PROVE  phase' = "items" => phase = "items" /\ op' = op
<1>1. CASE Kill \/ Boot
  BY <1>1 DEF Kill, Boot, command
<1>2. CASE \E t \in Services : Collect(t)
  BY <1>2 DEF Collect, command
<1>3. CASE SaveOpen \/ SaveWrite
  BY <1>3 DEF SaveOpen, SaveWrite
<1>4. QED
  BY <1>1, <1>2, <1>3
  DEF Step, NextItem, Running, Return, AddOpen, AddRefused, AddFails, UpdateOne, UpdateFails, PauseOne,
      PauseUnconfigured, ResumeSkips, ResumeOne, ResumeFails, AddRegister, UpdateConfig, DeleteAll, PauseMissing,
      PauseConfig, ResumeMissing, ResumeConfig

LEMMA CreateAgent == SIInv /\ DownInv /\ CreateInv /\ AgentNext => CreateInv'
<1> SUFFICES ASSUME SIInv, DownInv, CreateInv, AgentNext, NEW p \in Handlers, Creating(p)'
             PROVE  CreateIs(p)'
  BY DEF CreateInv
<1>1. UNCHANGED <<fwd, task, caller>> /\ Creating(p) /\ CreateIs(p)
  BY DEF AgentNext, panel, Creating, CreateInv
<1>2. IInv /\ (Step \/ Kill \/ Boot) /\ phase \in {"idle", "items", "save", "write"}
  BY DEF AgentNext, SIInv, IInv, TypeOK, CommandTypeOK
<1>3. Head(task[p].queue) \in Services
  BY TasksType, HeadTailProperties DEF SIInv, SyncTypeOK, TaskInv
<1> DEFINE s0 == Head(task[p].queue)
<1>4. ASSUME task[p].goals = <<"clear", "readd">> PROVE ClearIs(p)'
  <2>1. ClearIs(p)
    BY <1>1, <1>4 DEF CreateIs
  <2>2. \A s \in Services \ Names(task[p].queue) : Off(s)'
    BY <1>2, <2>1, OffKept DEF ClearIs
  <2>3. caller # p => phase' = "idle"
    BY <1>2, <2>1, RestKept DEF ClearIs
  <2>4. ASSUME caller = p
        PROVE  /\ phase' = "items" => op' = "Delete" /\ todo' = <<s0>>
               /\ phase' # "items" => reply' \in {"none", "ok"}
               /\ phase' # "items" /\ reply' # "none" => reg'[s0] = "none" /\ config'.entries[s0] = 0
    <3>1. CASE phase = "idle"
      BY <1>2, <2>1, <2>4, <3>1, RestKept DEF ClearIs
    <3>2. CASE phase \in {"save", "write"}
      BY <1>2, <2>1, <2>4, <3>2, SaveKept DEF ClearIs
    <3>3. CASE phase = "items"
      BY <1>2, <1>3, <2>1, <2>4, <3>3, DeleteDone, DeleteReplies DEF ClearIs
    <3>4. QED
      BY <1>2, <3>1, <3>2, <3>3
  <2>5. QED
    BY <1>1, <2>2, <2>3, <2>4 DEF ClearIs
<1>5. ASSUME task[p].goals = <<"readd">> PROVE ReaddIs(p)'
  <2>1. ReaddIs(p)
    BY <1>1, <1>5 DEF CreateIs
  <2>2. CASE caller # p
    BY <1>1, <1>2, <2>1, <2>2, RestKept, OffKept DEF ReaddIs
  <2>3. CASE caller = p /\ phase = "items"
    BY <1>1, <1>2, <2>1, <2>3, AddDone DEF ReaddIs
  <2>4. CASE caller = p /\ phase # "items"
    <3>1. phase' # "items" /\ (reply' = "inuse" => reply = "inuse")
      BY <1>2, <2>4, RestKept, SaveKept
    <3>2. QED
      BY <1>1, <1>2, <2>1, <2>4, <3>1, OffKept DEF ReaddIs
  <2>5. QED
    BY <2>2, <2>3, <2>4
<1>6. QED
  BY <1>1, <1>4, <1>5 DEF CreateIs

LEMMA CreateBegins ==
  ASSUME SIInv, FwdInv, NEW p \in Handlers, Asked(p) \/ Report(p), Creating(p)'
  PROVE  CreateIs(p)'
<1>1. task \in [Handlers -> Tasks] /\ fwd \in Forwards
  BY DEF SIInv, SyncTypeOK
<1>2. ASSUME NEW j, NEW goals, Begins(p, j, goals) PROVE j = "create"
  BY <1>1, <1>2 DEF Begins, Creating
<1>3. Create(p)
  BY <1>2 DEF Asked, Request, Report
<1>4. fwd' = [fwd EXCEPT !.state = "there"] /\ fwd.status = 1 /\ Begins(p, "create", <<"sync">>)
  BY <1>3 DEF Create, FwdInv
<1>5. task'[p].goals = <<"sync">> /\ task'[p].rec = fwd'
  BY <1>1, <1>4 DEF Begins
<1>6. fwd'.state = "there" /\ fwd'.status = 1
  BY <1>1, <1>4 DEF Forwards
<1>7. <<"sync">> # <<"clear", "readd">> /\ <<"sync">> # <<"readd">>
  OBVIOUS
<1>8. QED
  BY <1>5, <1>6, <1>7 DEF CreateIs

\* A create that nothing disturbs falls back from the update to an Add, clears
\* and adds again.
LEMMA CreateHandles ==
  ASSUME SIInv, CreateInv, NEW p \in Handlers, Handle(p), Creating(p)'
  PROVE  CreateIs(p)'
<1>0. /\ task \in [Handlers -> Tasks] /\ ports \in BOOLEAN /\ PortsInv
      /\ task[p].queue \in Seq(Services) /\ task[p].queue # <<>>
      /\ config \in Configs /\ IInv
  BY TasksType DEF SIInv, SyncTypeOK, TypeOK, ConfigTypeOK, TaskInv
<1>g. ~GiveUp(p) /\ ~End(p)
  BY GiveUpMoves, EndMoves DEF Creating, NoTask
<1>1. task[p].job = "create" /\ trouble = {}
  <2>1. ASSUME NEW goals, Pursue(p, goals) PROVE task'[p].job = task[p].job
    BY <1>0, <2>1 DEF Pursue, Tasks
  <2>2. ASSUME NEW handled, NextName(p, handled) PROVE task'[p].job = task[p].job
    BY <1>0, <2>2 DEF NextName, Tasks
  <2>3. Store(p) => task'[p].job \in {task[p].job, "rollback"}
    BY <1>0, RollBackMoves DEF Store, Tasks
  <2>4. task'[p].job \in {task[p].job, "rollback"}
    BY <1>g, <2>1, <2>2, <2>3
    DEF Handle, Send, Synced, FallBack, Rebind, Clear, ControlName, ControlDone, Heal, Refused, Portless, Purged,
        Finish
  <2>5. QED
    BY <2>4, HandleOthers DEF Creating
<1>2. CreateIs(p)
  BY <1>1 DEF Creating, CreateInv
<1>3. task[p].goals # <<>>
  BY <1>g, HandleOthers
  DEF Handle, Send, Sending, Synced, Gets, FallBack, Rebind, Clear, ControlName, ControlDone, Heal, Refused,
      Portless, Purged, Store, Finish
<1>4. \/ task[p].goals = <<"sync">> /\ Goal(p) = "sync" /\ Rest(p) = <<>>
      \/ task[p].goals = <<"add">> /\ Goal(p) = "add" /\ Rest(p) = <<>>
      \/ task[p].goals = <<"clear", "readd">> /\ Goal(p) = "clear" /\ Rest(p) = <<"readd">>
      \/ task[p].goals = <<"readd">> /\ Goal(p) = "readd" /\ Rest(p) = <<>>
  <2>1. ASSUME NEW g, task[p].goals = <<g>> PROVE Goal(p) = g /\ Rest(p) = <<>>
    BY <2>1 DEF Goal, Rest
  <2>2. ASSUME NEW g, NEW h, task[p].goals = <<g, h>> PROVE Goal(p) = g /\ Rest(p) = <<h>>
    BY <2>2 DEF Goal, Rest
  <2>3. QED
    BY <1>2, <1>3, <2>1, <2>2 DEF CreateIs
<1>5. ~NoPorts(p)
  BY <1>0, <1>2 DEF CreateIs, PortsInv, NoPorts
<1>6. Send(p) \/ Synced(p) \/ FallBack(p) \/ Rebind(p) \/ Clear(p)
  BY <1>4, <1>5, <1>g DEF Handle, ControlName, ControlDone, Controlling, Heal, Refused, Portless, Purged, Store, Finish
<1>h. ASSUME NEW r, Gets(p, r)
      PROVE  /\ Hears(p, r) /\ caller' = "none" /\ caller = p /\ phase = "idle" /\ reply = r /\ r # "none"
             /\ UNCHANGED <<reg, config, disk, phase>> /\ disk = config
  <2>1. Hears(p, r)
    BY <1>h DEF Gets, Loses, Creating
  <2>2. QED
    BY <1>0, <1>h, <2>1 DEF Gets, Hears, AtRest, agent, vars, registry, files, command, IInv, FileInv
<1>n. "none" \notin Handlers
  BY ForwardAssumption
<1>p. ASSUME NEW goals, Pursue(p, goals)
      PROVE  /\ task'[p].goals = goals /\ task'[p].queue = Variants /\ task'[p].rec.status = 1
             /\ fwd'.state = "there"
  BY <1>0, <1>2, <1>p DEF Pursue, Tasks, CreateIs
<1> DEFINE s0 == Head(task[p].queue)
<1>7. CASE Send(p)
  <2>1. UNCHANGED <<task, fwd, reg, config, disk>> /\ caller' = p /\ phase' = "items" /\ caller # p
    BY <1>7, <1>n DEF Send, Sending, Receive, registry, files
  <2>2. op' = Kind(Goal(p)) /\ todo' = List(p)
    BY <1>7 DEF Send, Receive
  <2>3. ASSUME task[p].goals = <<"clear", "readd">> PROVE ClearIs(p)'
    <3>1. Goal(p) = "clear" /\ ClearIs(p)
      BY <1>2, <1>4, <2>3 DEF CreateIs
    <3>2. op' = "Delete" /\ todo' = <<s0>>
      BY <2>2, <3>1 DEF Kind, List
    <3>3. QED
      BY <2>1, <3>1, <3>2 DEF ClearIs, Off
  <2>4. ASSUME task[p].goals = <<"readd">> PROVE ReaddIs(p)'
    <3>1. Goal(p) = "readd" /\ ReaddIs(p)
      BY <1>2, <1>4, <2>4 DEF CreateIs
    <3>2. op' = "Add"
      BY <2>2, <3>1 DEF Kind
    <3>3. QED
      BY <2>1, <3>1, <3>2 DEF ReaddIs, Off
  <2>5. QED
    BY <1>2, <2>1, <2>3, <2>4 DEF CreateIs
<1>8. CASE Synced(p)
  <2>1. Pursue(p, Rest(p)) /\ Goal(p) # "clear"
    BY <1>2, <1>8 DEF Synced, CreateIs
  <2>2. task'[p].goals = <<>> /\ task'[p].rec.status = 1 /\ fwd'.state = "there"
    BY <1>4, <1>p, <2>1
  <2>3. <<>> # <<"clear", "readd">> /\ <<>> # <<"readd">>
    OBVIOUS
  <2>4. QED
    BY <2>2, <2>3 DEF CreateIs
<1>9. CASE FallBack(p)
  <2>1. <<"add">> \o Rest(p) = <<"add">>
    BY <1>4, <1>9 DEF FallBack
  <2>2. task'[p].goals = <<"add">> /\ task'[p].rec.status = 1 /\ fwd'.state = "there"
    BY <1>9, <1>p, <2>1 DEF FallBack
  <2>3. <<"add">> # <<"clear", "readd">> /\ <<"add">> # <<"readd">>
    OBVIOUS
  <2>4. QED
    BY <2>2, <2>3 DEF CreateIs
<1>10. CASE Rebind(p)
  <2>1. <<"clear", "readd">> \o Rest(p) = <<"clear", "readd">>
    BY <1>4, <1>10 DEF Rebind
  <2>2. /\ task'[p].goals = <<"clear", "readd">> /\ task'[p].queue = Variants
        /\ task'[p].rec.status = 1 /\ fwd'.state = "there"
    BY <1>10, <1>p, <2>1 DEF Rebind
  <2>3. caller' # p /\ phase' = "idle"
    BY <1>10, <1>h, <1>n DEF Rebind
  <2>4. Services \ Names(Variants) = {}
    BY ForwardAssumption
  <2>5. ClearIs(p)'
    BY <2>2, <2>3, <2>4 DEF ClearIs
  <2>6. <<"clear", "readd">> # <<"readd">>
    OBVIOUS
  <2>7. QED
    BY <2>2, <2>5, <2>6 DEF CreateIs
<1>11. CASE Clear(p)
  <2>1. Goal(p) = "clear" /\ task[p].goals = <<"clear", "readd">> /\ Rest(p) = <<"readd">> /\ ClearIs(p)
    BY <1>2, <1>4, <1>11 DEF Clear, CreateIs
  <2>2. /\ caller = p /\ phase = "idle" /\ reply = "ok" /\ caller' # p /\ phase' = "idle"
        /\ UNCHANGED <<reg, config, disk>> /\ disk = config
    BY <1>11, <1>h, <1>n DEF Clear
  <2>3. Off(s0)
    BY <2>1, <2>2 DEF ClearIs, Off
  <2>4. \A s \in (Services \ Names(task[p].queue)) \cup {s0} : Off(s)'
    BY <2>1, <2>2, <2>3 DEF ClearIs, Off
  <2>5. CASE NextName(p, FALSE)
    <3>1. /\ task'[p].goals = task[p].goals /\ task'[p].queue = Tail(task[p].queue)
          /\ task'[p].rec = task[p].rec /\ fwd' = fwd
      BY <1>0, <2>5 DEF NextName, Tasks
    <3>2. Names(task[p].queue) \subseteq Names(Tail(task[p].queue)) \cup {s0}
      BY <1>0, NamesTail
    <3>3. ClearIs(p)'
      BY <2>2, <2>4, <3>1, <3>2 DEF ClearIs
    <3>4. <<"clear", "readd">> # <<"readd">>
      OBVIOUS
    <3>5. QED
      BY <1>2, <2>1, <3>1, <3>3, <3>4 DEF CreateIs
  <2>6. CASE Pursue(p, Rest(p)) /\ ~(Len(task[p].queue) > 1)
    <3>1. task'[p].goals = <<"readd">> /\ task'[p].rec.status = 1 /\ fwd'.state = "there"
      BY <1>p, <2>1, <2>6
    <3>2. Names(task[p].queue) \subseteq {s0}
      <4>1. Len(task[p].queue) \in Nat /\ Len(task[p].queue) # 0
        BY <1>0, LenProperties, EmptySeq
      <4>2. \A n \in Nat : n # 0 /\ ~(n > 1) => n = 1
        OBVIOUS
      <4>3. Len(task[p].queue) = 1
        BY <2>6, <4>1, <4>2, Zenon
      <4>4. QED
        BY <1>0, <4>3, NamesOne
    <3>3. ReaddIs(p)'
      BY <2>2, <2>4, <3>2 DEF ReaddIs
    <3>4. <<"clear", "readd">> # <<"readd">>
      OBVIOUS
    <3>5. QED
      BY <3>1, <3>3, <3>4 DEF CreateIs
  <2>7. QED
    BY <1>11, <2>5, <2>6 DEF Clear
<1>12. QED
  BY <1>6, <1>7, <1>8, <1>9, <1>10, <1>11

LEMMA CreateNext == SIInv /\ DownInv /\ MetInv /\ FwdInv /\ CreateInv /\ [SyncNext]_syncVars => CreateInv'
<1> SUFFICES ASSUME SIInv, DownInv, MetInv, FwdInv, CreateInv, [SyncNext]_syncVars PROVE CreateInv'
  OBVIOUS
<1>0. CreateInv' <=> \A p \in Handlers : Creating(p)' => CreateIs(p)'
  BY DEF CreateInv
<1>1. CASE UNCHANGED syncVars
  BY <1>1
  DEF syncVars, agent, vars, panel, registry, files, command, CreateInv, CreateIs, Creating, ClearIs, ReaddIs, Off
<1>2. CASE AgentNext
  BY <1>2, CreateAgent
<1>3. CASE ForceDelete
  <2>1. \A p \in Handlers : ~Creating(p)'
    BY <1>3 DEF ForceDelete, Creating
  <2>2. QED
    BY <1>0, <2>1
<1>4. ASSUME NEW p \in Handlers, Asked(p) \/ Report(p) PROVE CreateInv'
  <2>1. ASSUME NEW q \in Handlers \ {p} PROVE ~Creating(q)'
    BY <1>4, AskedOthers DEF Met, Idle, Creating
  <2>2. QED
    BY <1>0, <1>4, <2>1, CreateBegins
<1>5. ASSUME NEW p \in Handlers, Handle(p) PROVE CreateInv'
  <2>1. ASSUME NEW q \in Handlers \ {p} PROVE ~Creating(q)'
    BY <1>5, HandleOthers DEF MetInv, Idle, Creating
  <2>2. QED
    BY <1>0, <1>5, <2>1, CreateHandles
<1>6. QED
  BY <1>1, <1>2, <1>3, <1>4, <1>5 DEF SyncNext

\* A create that gives up without trouble has just cleared the agent, where
\* another Add failed.
LEMMA UndoLeavesNothing ==
  ASSUME SIInv, CreateInv, NEW p \in Handlers, Handle(p), UndoCreate(p), trouble' = {}
  PROVE  /\ \A s \in Services : Off(s)'
         /\ phase' = "idle"
<1>0. task \in [Handlers -> Tasks] /\ PortsInv /\ ports \in BOOLEAN
  BY DEF SIInv, SyncTypeOK
<1>1. CreateIs(p)
  BY HandleOthers DEF UndoCreate, CreateInv, Creating
<1>2. task'[p] = NoTask /\ task[p].job = "create" /\ fwd' # fwd
  <2>1. fwd \in Forwards
    BY DEF SIInv, SyncTypeOK
  <2>2. QED
    BY <1>1, <2>1, EndMoves DEF UndoCreate, CreateIs, Forwards
<1>3. ~NoPorts(p)
  BY <1>0, <1>1 DEF CreateIs, PortsInv, NoPorts
<1>4. ~Store(p)
  <2>1. ASSUME task[p].goals # <<>>, Goal(p) = "store" PROVE FALSE
    BY <1>1, <2>1 DEF CreateIs, Goal
  <2>2. QED
    BY <2>1 DEF Store
<1>5. ~Finish(p)
  BY <1>2 DEF Finish
<1>6. Refused(p)
  BY <1>2, <1>3, <1>4, <1>5
  DEF Handle, Send, Synced, FallBack, Rebind, Clear, ControlName, ControlDone, Heal, Portless, Purged, Pursue, NextName
<1>7. PICK r \in {"inuse", "lost", "notfound"} : Gets(p, r)
  BY <1>6 DEF Refused
<1>8. Hears(p, r) /\ r \in {"inuse", "notfound"}
  <2>1. Hears(p, r)
    BY <1>7 DEF Gets, Loses
  <2>2. reply # "lost"
    BY DEF SIInv, SyncTypeOK, TypeOK, CommandTypeOK
  <2>3. QED
    BY <2>1, <2>2 DEF Hears
<1>9. /\ caller = p /\ phase = "idle" /\ reply = r
      /\ UNCHANGED <<reg, config, disk, phase>>
  BY <1>7, <1>8 DEF Gets, Hears, AtRest, agent, vars, registry, files, command
<1>10. task[p].goals # <<>> /\ ((r = "inuse" /\ Goal(p) \in {"clear", "readd"}) \/ Controlling(p))
  <2>1. ASSUME NEW x, Gets(p, x) PROVE x = r \/ x = "lost"
    BY <1>8, <2>1 DEF Gets, Hears, Loses
  <2>2. ASSUME NEW x, Gets(p, x) PROVE x # "lost"
    <3>1. Hears(p, x)
      BY <2>2 DEF Gets, Loses
    <3>2. reply # "lost"
      BY DEF SIInv, SyncTypeOK, TypeOK, CommandTypeOK
    <3>3. QED
      BY <3>1, <3>2 DEF Hears
  <2>3. QED
    BY <1>6, <1>7, <2>1, <2>2 DEF Refused, Gets, Controlling
<1>11. task[p].goals = <<"readd">> /\ r = "inuse"
  <2>1. task[p].goals = <<"clear", "readd">> => r # "inuse"
    BY <1>1, <1>9 DEF CreateIs, ClearIs
  <2>2. ASSUME NEW g, task[p].goals = <<g>> PROVE Goal(p) = g
    BY <2>2 DEF Goal
  <2>3. task[p].goals = <<"clear", "readd">> => Goal(p) = "clear"
    BY DEF Goal
  <2>4. task[p].goals \in {<<"clear", "readd">>, <<"readd">>} /\ r = "inuse"
    BY <1>1, <1>10, <2>2, <2>3 DEF CreateIs, Controlling
  <2>5. QED
    BY <2>1, <2>4
<1>12. \A s \in Services : Off(s)
  BY <1>1, <1>9, <1>11 DEF CreateIs, ReaddIs
<1>13. QED
  BY <1>9, <1>12 DEF Off

LEMMA GoneNext ==
  SIInv /\ DownInv /\ MetInv /\ DeleteInv /\ FwdInv /\ CreateInv /\ GoneInv /\ [SyncNext]_syncVars => GoneInv'
<1> SUFFICES ASSUME SIInv, DownInv, MetInv, DeleteInv, FwdInv, CreateInv, GoneInv, [SyncNext]_syncVars,
                    fwd'.state = "gone", trouble' = {}
             PROVE  /\ \A s \in Services : Off(s)'
                    /\ phase' = "items" => op' = "Delete"
                    /\ \A p \in Handlers : ~Idle(p)' => task'[p].job = "report" /\ task'[p].goals = <<"purge">>
  BY DEF GoneInv
<1>0. task \in [Handlers -> Tasks] /\ IInv /\ fwd \in Forwards
  BY DEF SIInv, SyncTypeOK
<1>1. CASE UNCHANGED syncVars
  BY <1>1 DEF syncVars, agent, vars, panel, registry, files, command, GoneInv, Idle, Off
<1>2. CASE AgentNext
  <2>1. UNCHANGED <<fwd, task, trouble>> /\ (Step \/ Kill \/ Boot)
    BY <1>2 DEF AgentNext, panel
  <2>2. QED
    BY <1>0, <2>1, OffKept, ItemsKept DEF GoneInv, Idle
<1>3. ~ForceDelete
  BY DEF ForceDelete
<1>4. ASSUME NEW p \in Handlers, Asked(p) \/ Report(p)
      PROVE  /\ \A s \in Services : Off(s)'
             /\ phase' = "items" => op' = "Delete"
             /\ \A q \in Handlers : ~Idle(q)' => task'[q].job = "report" /\ task'[q].goals = <<"purge">>
  <2>1. Report(p)
    BY <1>0, <1>4 DEF Asked, Create, Request, Forwards
  <2>2. fwd.state = "gone" /\ trouble = {} /\ Begins(p, "report", <<"purge">>)
    BY <2>1 DEF Report, Begins
  <2>3. task'[p].job = "report" /\ task'[p].goals = <<"purge">>
    BY <1>0, <2>2 DEF Begins
  <2>4. UNCHANGED <<reg, config, disk, phase, op>>
    BY <2>2 DEF Begins, agent, vars, registry, files, command
  <2>5. \A q \in Handlers \ {p} : task'[q] = task[q]
    BY <1>4, AskedOthers
  <2>6. QED
    BY <2>2, <2>3, <2>4, <2>5 DEF GoneInv, Idle, Off
<1>5. ASSUME NEW p \in Handlers, Handle(p)
      PROVE  /\ \A s \in Services : Off(s)'
             /\ phase' = "items" => op' = "Delete"
             /\ \A q \in Handlers : ~Idle(q)' => task'[q].job = "report" /\ task'[q].goals = <<"purge">>
  <2>1. trouble = {} /\ ~Idle(p) /\ \A q \in Handlers \ {p} : task'[q] = task[q]
    BY <1>5, HandleOthers
  <2>2. \A q \in Handlers \ {p} : Idle(q)'
    BY <2>1 DEF MetInv, Idle
  <2>3. CASE fwd.state = "gone"
    <3>1. task[p].job = "report" /\ task[p].goals = <<"purge">> /\ Goal(p) = "purge"
      BY <2>1, <2>3 DEF GoneInv, Goal
    <3>2. (\A s \in Services : Off(s)) /\ (phase = "items" => op = "Delete")
      BY <2>1, <2>3 DEF GoneInv
    <3>3. Send(p) \/ Purged(p)
      BY <1>5, <3>1
      DEF Handle, Synced, FallBack, Rebind, Clear, ControlName, ControlDone, Controlling, Heal, Refused, Portless,
          NoPorts, Store, Finish
    <3>4. CASE Send(p)
      <4>1. UNCHANGED <<reg, config, disk, task>> /\ op' = "Delete"
        BY <3>1, <3>4 DEF Send, Receive, Kind, registry, files
      <4>2. QED
        BY <2>2, <3>1, <3>2, <4>1 DEF Off, Idle
    <3>5. CASE Purged(p)
      <4>1. UNCHANGED <<reg, config, disk, phase, op>>
        BY <3>5 DEF Purged, Gets, agent, vars, registry, files, command
      <4>2. Idle(p)'
        BY <3>5, EndMoves DEF Purged, NoTask, Idle
      <4>3. QED
        BY <2>2, <3>2, <4>1, <4>2 DEF Off
    <3>6. QED
      BY <3>3, <3>4, <3>5
  <2>4. CASE UndoCreate(p)
    <3>1. Idle(p)'
      BY <2>4, EndMoves DEF UndoCreate, NoTask, Idle
    <3>2. QED
      BY <1>5, <2>2, <2>4, <3>1, UndoLeavesNothing
  <2>5. CASE Finish(p) /\ task[p].job = "delete" /\ fwd.state # "gone"
    <3>1. Idle(p)' /\ UNCHANGED <<reg, config, disk, phase, op>> /\ task[p].goals = <<>>
      BY <2>5, EndMoves DEF Finish, NoTask, Idle, agent, vars, registry, files, command
    <3>2. Deleting(p) /\ DeleteIs(p)
      BY <2>1, <2>5 DEF Deleting, DeleteInv
    <3>3. (\A s \in Services : Off(s)) /\ caller # p
      BY <3>1, <3>2 DEF DeleteIs, Through, SIInv, TaskInv
    <3>4. Services = {} \/ phase = "idle"
      BY <3>1, <3>2, <3>3 DEF DeleteIs, Through
    <3>5. Services # {}
      <4>1. Variants \in Seq(Services) /\ Variants # <<>>
        BY ForwardAssumption
      <4>2. Head(Variants) \in Services
        BY <4>1, HeadTailProperties
      <4>3. QED
        BY <4>2
    <3>6. QED
      BY <2>2, <3>1, <3>3, <3>4, <3>5 DEF Off
  <2>6. QED
    BY <1>5, <2>3, <2>4, <2>5, FwdAfter
<1>6. QED
  BY <1>1, <1>2, <1>3, <1>4, <1>5 DEF SyncNext

LEMMA InitGone == SyncInit => FwdInv /\ CreateInv /\ GoneInv
<1> SUFFICES ASSUME SyncInit PROVE FwdInv /\ CreateInv /\ GoneInv
  OBVIOUS
<1>1. \A p \in Handlers : task[p].job = "none"
  BY DEF SyncInit, NoTask
<1>2. fwd.state = "new" /\ fwd.status = 1
  BY DEF SyncInit
<1>3. QED
  BY <1>1, <1>2 DEF FwdInv, CreateInv, Creating, GoneInv, Idle

LEMMA SpecGoneInv == SyncSpec => [](SIInv /\ GoneInv)
<1> DEFINE Inv == SIInv /\ DownInv /\ MetInv /\ DeleteInv /\ FwdInv /\ CreateInv /\ GoneInv
<1>1. SyncInit => Inv
  BY InitSIInv, InitDelete, InitGone
<1>2. Inv /\ [SyncNext]_syncVars => Inv'
  BY SIInvNext, AgentOnly, DownNext, MetNext, DeleteNext, FwdNext, CreateNext, GoneNext DEF SIInv
<1> HIDE DEF Inv
<1>3. SyncSpec => []Inv
  BY <1>1, <1>2, PTL DEF SyncSpec
<1>4. QED
  BY <1>3, PTL DEF Inv

\* A forward that is gone is not served, deleted or given up in its creation,
\* whatever failed on the agent and however often it was killed, if no two
\* requests met, no answer was lost and none deleted it by force.
THEOREM SyncSpecGoneIsGone == SyncSpec => []GoneIsGone
<1>1. SIInv /\ GoneInv => GoneIsGone
  BY DEF GoneInv, GoneIsGone, Serving, Off
<1>2. QED
  BY SpecGoneInv, <1>1, PTL

-----------------------------------------------------------------------------
(* A forward that is shown, and one that is paused *)

\* As long as no update failed midway, what is registered is configured, and
\* what is configured is registered, or marked by a resume that failed.
Kept(s) ==
  /\ reg[s] = "none" /\ config.entries[s] > 0 => s \in config.paused
  /\ reg[s] # "none" /\ ~(Restarted(s) /\ op = "Update") => config.entries[s] > 0

KeptInv == "Update" \notin mishaps => \A s \in Services : Kept(s)

\* The name that p's control is at, and those it is through with.
Name(p) == Head(task[p].queue)

Passed(p) == Services \ Names(task[p].queue)

\* The agent works through what p sent, and answers to it.
SyncSent(p) ==
  /\ phase = "items" => op = "Update" /\ Names(task[p].rec.protos) \subseteq done \cup Names(todo)
  /\ phase # "items" => reply \in {"none", "ok", "inuse"}

ControlSent(p) ==
  /\ phase = "items" =>
       /\ op = Kind(Goal(p))
       /\ \/ todo = <<Name(p)>> /\ done = {}
          \/ todo = <<>> /\ done \subseteq {Name(p)}
  /\ phase # "items" =>
       /\ reply = "inuse" => Goal(p) \in {"Resume", "Resume again"}
       /\ reply = "notfound" => Goal(p) # "Delete"
       /\ reply # "exists"

SentInv ==
  \A p \in Handlers : caller = p =>
    /\ Goal(p) = "sync" => SyncSent(p)
    /\ Controlling(p) => ControlSent(p)

\* A request that is alone works on the row that is there.
AloneIs(p) ==
  /\ fwd.state = "there" /\ task[p].rec = fwd
  /\ task[p].job = "update" => task[p].old.status = fwd.status

AloneInv == "race" \notin trouble => \A p \in Handlers : ~Idle(p) /\ task[p].job # "report" => AloneIs(p)

\* If no answer is lost, the agent works for somebody.
LossInv == "lost" \notin trouble /\ caller = "none" => phase = "idle"

\* A pause ends with a pause, whatever else it has to do before; an update begins
\* with what it stores, and a report has one thing to do.
Pauses == {"Pause", "Pause again"}

LastOf(j) == IF j \in {"pause", "suspend"} THEN Pauses ELSE Pauses \cup {"sync", "add", "readd"}

Silencers == {"pause", "suspend", "redeploy", "update", "rollback"}

Final(list) == list[Len(list)]

GoalsIs(t) ==
  /\ t.job \in Silencers /\ t.goals # <<>> => Final(t.goals) \in LastOf(t.job)
  /\ t.goals \in Seq(Goals \ {"store"}) \/ (t.job = "update" /\ t.goals = <<"store", "sync">>)
  /\ t.job = "report" => t.goals = <<"purge">>

GoalsInv == \A p \in Handlers : GoalsIs(task[p])

\* s does not serve, and does not come back unnoticed with a restart.
Halted(s) == reg[s] # "serving" /\ (config.entries[s] = 1 => s \in config.paused)

Stays(s) == Halted(s) /\ (disk.entries[s] = 1 => s \in disk.paused)

\* p pauses the services name by name.
PauseIs(p) ==
  /\ \A s \in Passed(p) : Stays(s)
  /\ caller # p => Passed(p) = {} \/ phase = "idle"
  /\ caller = p =>
       /\ phase = "items" => \A s \in done : reg[s] = "closed"
       /\ phase = "items" /\ todo = <<>> => done = {Name(p)}
       /\ phase # "items" /\ reply # "none" => Halted(Name(p))

\* p's request has paused them all.
Silences(p) ==
  \/ task[p].job \in {"pause", "suspend"}
  \/ task[p].job \in Silencers /\ task[p].rec.status = 0

Unbroken == "race" \notin trouble /\ mishaps \cap {"Update", "boot"} = {}

PausingIs(p) == task[p].goals # <<>> /\ Goal(p) \in Pauses => PauseIs(p)

PausedIs(p) == task[p].goals = <<>> /\ Silences(p) => phase = "idle" /\ \A s \in Services : Stays(s)

PauseInv == Unbroken => \A p \in Handlers : PausingIs(p) /\ PausedIs(p)

\* Nothing that a name needs is in doubt.
Smooth == trouble \cap {"race", "lost"} = {} /\ mishaps \cap {"Update", "Resume"} = {}

\* s is on the agent, and on it again after a restart; and serves.
Present(s) == disk.entries[s] = 1 /\ (up => config.entries[s] = 1 /\ reg[s] # "none")

Served(s) == Present(s) /\ (up => reg[s] = "serving")

\* What a request that is alone goes through if nothing fails.
Shapes(j) ==
  CASE j = "create" -> {<<"sync">>, <<>>}
    [] j = "update" -> {<<"store", "sync">>, <<"sync">>, <<"Pause">>, <<>>}
    [] j = "redeploy" -> {<<"sync">>, <<"Pause">>, <<>>}
    [] j \in {"pause", "suspend"} -> {<<"Pause">>, <<>>}
    [] j = "resume" -> {<<"Resume">>, <<>>}
    [] j = "delete" -> {<<"Delete">>, <<>>}
    [] j = "report" -> {<<"purge">>}
    [] OTHER -> {}

Shown == Names(fwd.protos)

\* The services of the row are yet to be made, or to go.
Making(p) ==
  \/ task[p].job \in {"delete", "report"}
  \/ task[p].job \in {"create", "update"} /\ task[p].goals = <<"sync">>

\* p has come to a proper goal, and what is shown stays there but for those.
ShapeIs(p) ==
  /\ task[p].goals \in Shapes(task[p].job)
  /\ task[p].job = "create" => fwd.status = 1
  /\ task[p].job = "report" => fwd.state = "gone"
  /\ task[p].job \in {"update", "redeploy"} /\ task[p].goals = <<"Pause">> => fwd.status = 0
  /\ ~Making(p) => \A s \in Shown : Present(s)

\* An update that is answered made every service of the row.
SyncIs(p) ==
  task[p].goals = <<"sync">> /\ caller = p /\ phase # "items" /\ reply # "none" =>
    reply = "ok" /\ \A s \in Shown : reg[s] = "serving"

\* A control finds what is shown, so it need not make it.
FindIs(p) ==
  task[p].goals \in {<<"Pause">>, <<"Resume">>} =>
    /\ Shown \subseteq Names(task[p].queue) \/ task[p].handled
    /\ caller = p /\ phase # "items" =>
         reply # "inuse" /\ (reply # "none" /\ Name(p) \in Shown => reply = "ok")

\* What a resume is through with serves.
ResumeIs(p) ==
  task[p].goals = <<"Resume">> =>
    /\ \A s \in Shown \ Names(task[p].queue) : Served(s)
    /\ caller = p /\ Name(p) \in Shown /\ (IF phase = "items" THEN todo = <<>> ELSE reply # "none") =>
         reg[Name(p)] = "serving"

\* So does everything that is shown, when the row is to say so.
EndIs(p) ==
  task[p].goals = <<>> =>
    (task[p].job = "resume" \/ (task[p].job \in {"create", "update", "redeploy"} /\ fwd.status = 1) =>
       \A s \in Shown : Served(s))

ShowIs(p) == ShapeIs(p) /\ SyncIs(p) /\ FindIs(p) /\ ResumeIs(p) /\ EndIs(p)

ShowInv == Smooth => \A p \in Handlers : ~Idle(p) => ShowIs(p)

\* Nobody works on the forward.
Free == fwd.state = "there" /\ \A p \in Handlers : Idle(p)

FreeInv ==
  Smooth /\ Free =>
    /\ \A s \in Shown : Present(s) /\ (fwd.status = 1 => Served(s))
    /\ fwd.status = 0 /\ "boot" \notin mishaps => \A s \in Services : Stays(s)

LEMMA KeptNext == IInv /\ KeptInv /\ [AgentStep]_vars => KeptInv'
<1> SUFFICES ASSUME IInv, KeptInv, [AgentStep]_vars, "Update" \notin mishaps', NEW t \in Services
             PROVE  Kept(t)'
  BY DEF KeptInv
<1>0. /\ config \in Configs /\ config.entries \in [Services -> Nat] /\ config.paused \subseteq Services
      /\ reg \in [Services -> {"none", "serving", "closed"}] /\ done \subseteq Services
      /\ TypeOK /\ DoneInv /\ FileInv /\ MarkInv
  BY DEF IInv, TypeOK, RegistryTypeOK, ConfigTypeOK, CommandTypeOK, Configs
<1>1. Kept(t)
  BY MishapsNext DEF KeptInv
<1>2. CASE config' = config /\ reg' = reg /\ (Restarted(t) /\ op = "Update" => Restarted(t)' /\ op' = "Update")
  BY <1>1, <1>2 DEF Kept
<1>3. ASSUME NEW s \in Services, CommandStep(s)
      PROVE  Kept(t)'
  <2>0. config' = config
    BY <1>0, <1>3, ConfigKept
  <2>1. CASE AddOpen(s)
    BY <1>2, <2>0, <2>1 DEF AddOpen, NextItem, Running, registry, Restarted
  <2>2. CASE AddRefused(s) \/ AddFails(s) \/ PauseUnconfigured(s)
    BY <1>2, <2>0, <2>2 DEF AddRefused, AddFails, PauseUnconfigured, Running, registry, Restarted
  <2>3. CASE UpdateOne(s)
    BY <1>0, <1>1, <2>0, <2>3 DEF UpdateOne, NextItem, Running, Restarted, Kept
  <2>4. CASE ResumeOne(s)
    <3>1. config.entries[s] > 0
      BY <1>0, <2>4 DEF ResumeOne, MarkInv
    <3>2. QED
      BY <1>0, <1>1, <2>0, <2>4, <3>1 DEF ResumeOne, NextItem, Running, Restarted, Kept
  <2>5. CASE UpdateFails(s)
    BY <2>5 DEF UpdateFails, BindFails, Running
  <2>6. CASE ResumeFails(s)
    <3>1. phase = "items" /\ op = "Resume" /\ s \in config.paused /\ (t \in done => reg[t] # "none")
      BY <1>0, <2>6 DEF ResumeFails, Running, DoneInv
    <3>2. reg'[t] = (IF t = s THEN "none" ELSE IF t \in done THEN "closed" ELSE reg[t])
      BY <1>0, <2>6 DEF ResumeFails, RolledBack
    <3>3. QED
      BY <1>1, <2>0, <3>1, <3>2 DEF Kept
  <2>7. CASE PauseOne(s)
    BY <1>0, <1>1, <2>0, <2>7 DEF PauseOne, NextItem, Running, Kept
  <2>8. CASE ResumeSkips(s)
    BY <1>2, <2>0, <2>8 DEF ResumeSkips, NextItem, Running, registry, Restarted
  <2>9. QED
    BY <1>3, <2>1, <2>2, <2>3, <2>4, <2>5, <2>6, <2>7, <2>8 DEF CommandStep
<1>4. CASE AddRegister
  <2>1. /\ config'.paused = config.paused /\ phase = "items" /\ op = "Add"
        /\ config'.entries[t] = (IF t \in done THEN config.entries[t] + 1 ELSE config.entries[t])
        /\ reg'[t] = (IF t \in done THEN "serving" ELSE reg[t])
    BY <1>0, <1>4 DEF AddRegister, Running, Configs
  <2>2. config.entries[t] \in Nat
    BY <1>0
  <2>3. QED
    BY <1>1, <2>1, <2>2 DEF Kept
<1>5. CASE UpdateConfig
  <2>1. /\ config'.paused = config.paused \ done /\ reg' = reg
        /\ config'.entries[t] = (IF t \in done /\ config.entries[t] = 0 THEN 1 ELSE config.entries[t])
    BY <1>5 DEF UpdateConfig, Upserted, registry
  <2>2. phase = "items" /\ op = "Update" /\ (t \in done => reg[t] = "serving")
    BY <1>0, <1>5 DEF UpdateConfig, Running, DoneInv
  <2>3. config.entries[t] \in Nat
    BY <1>0
  <2>4. QED
    BY <1>1, <2>1, <2>2, <2>3 DEF Kept, Restarted
<1>6. CASE DeleteAll
  <2>1. phase = "items" /\ op = "Delete"
    BY <1>6 DEF DeleteAll, Running
  <2>2. CASE t \in Names(todo)
    BY <1>6, <2>2 DEF DeleteAll, Removed, Kept
  <2>3. CASE t \notin Names(todo)
    <3>1. reg'[t] = reg[t] /\ config'.entries[t] = config.entries[t] /\ (t \in config'.paused <=> t \in config.paused)
      BY <1>6, <2>3 DEF DeleteAll, Removed
    <3>2. QED
      BY <1>1, <2>1, <3>1 DEF Kept
  <2>4. QED
    BY <2>2, <2>3
<1>7. CASE PauseConfig
  <2>1. /\ config'.paused = config.paused \cup done /\ config'.entries = config.entries /\ reg' = reg
        /\ op = "Pause"
    BY <1>0, <1>7 DEF PauseConfig, Configs, registry, Running
  <2>2. QED
    BY <1>1, <2>1 DEF Kept
<1>8. CASE ResumeConfig
  <2>1. /\ config'.paused = config.paused \ done /\ config'.entries = config.entries /\ reg' = reg
        /\ phase = "items" /\ op = "Resume" /\ (t \in done => reg[t] = "serving")
    BY <1>0, <1>8 DEF ResumeConfig, Configs, registry, Running, DoneInv
  <2>2. QED
    BY <1>1, <2>1 DEF Kept
<1>9. CASE SaveOpen \/ SaveWrite
  BY <1>2, <1>9 DEF SaveOpen, SaveWrite, registry, Restarted
<1>10. CASE Kill
  BY <1>10 DEF Kill, NoConfig, NoServices, Kept
<1>11. CASE Boot
  BY <1>0, <1>11 DEF Boot, Bootable, Kept, ConfigTypeOK, TypeOK, Configs
<1>12. CASE PauseMissing \/ ResumeMissing
  BY <1>2, <1>12 DEF PauseMissing, ResumeMissing, Running, registry, Restarted
<1>13. CASE (\E s \in Services : Collect(s)) \/ UNCHANGED vars
  BY <1>2, <1>13 DEF Collect, vars, command, registry, Restarted
<1>14. CASE \E o \in Commands, list \in Seq(Services) : Receives(o, list)
  <2>1. config' = config /\ reg' = reg /\ phase = "idle"
    BY <1>14 DEF Receive, Receives, registry
  <2>2. QED
    BY <1>2, <2>1 DEF Restarted
<1>15. QED
  BY <1>3, <1>4, <1>5, <1>6, <1>7, <1>8, <1>9, <1>10, <1>11, <1>12, <1>13, <1>14 DEF AgentStep, Step, CommandStep

\* The first or the rest of a list has what it ends with.
LEMMA FinalTail ==
  ASSUME NEW S, NEW list \in Seq(S), list # <<>>
  PROVE  /\ Tail(list) = <<>> => Final(list) = Head(list)
         /\ Tail(list) # <<>> => Final(Tail(list)) = Final(list)
<1>1. /\ Len(list) \in Nat /\ Len(list) # 0 /\ Head(list) = list[1]
      /\ Tail(list) \in Seq(S) /\ Len(Tail(list)) = Len(list) - 1
      /\ \A i \in 1..Len(Tail(list)) : Tail(list)[i] = list[i + 1]
  BY LenProperties, HeadTailProperties, EmptySeq
<1>2. Tail(list) = <<>> => Len(Tail(list)) = 0
  BY EmptySeq
<1>3. Tail(list) # <<>> => Len(Tail(list)) # 0
  BY <1>1, EmptySeq
<1>4. CASE Tail(list) = <<>>
  <2>1. Len(list) = 1
    BY <1>1, <1>2, <1>4
  <2> QED
    BY <1>1, <1>4, <2>1 DEF Final
<1>5. CASE Tail(list) # <<>>
  <2>1. Len(list) - 1 \in 1..Len(Tail(list)) /\ (Len(list) - 1) + 1 = Len(list)
    BY <1>1, <1>3, <1>5
  <2>2. Tail(list)[Len(list) - 1] = list[Len(list)]
    BY <1>1, <2>1
  <2> QED
    BY <1>1, <1>5, <2>2 DEF Final
<1> QED
  BY <1>4, <1>5

LEMMA FinalBefore ==
  ASSUME NEW S, NEW rest \in Seq(S), NEW pre \in Seq(S), pre # <<>>
  PROVE  /\ rest = <<>> => Final(pre \o rest) = Final(pre)
         /\ rest # <<>> => Final(pre \o rest) = Final(rest)
         /\ pre \o rest # <<>>
<1>1. /\ Len(rest) \in Nat /\ Len(pre) \in Nat /\ Len(pre) # 0 /\ (rest # <<>> => Len(rest) # 0)
      /\ rest = <<>> => Len(rest) = 0
  BY LenProperties, EmptySeq
<1>2. /\ pre \o rest \in Seq(S) /\ Len(pre \o rest) = Len(pre) + Len(rest)
      /\ \A i \in 1..Len(pre) + Len(rest) : (pre \o rest)[i] = IF i <= Len(pre) THEN pre[i] ELSE rest[i - Len(pre)]
  BY ConcatProperties
<1>3. pre \o rest # <<>>
  <2>1. Len(pre \o rest) # 0
    BY <1>1, <1>2
  <2> QED
    BY <2>1, EmptySeq
<1>4. CASE rest = <<>>
  <2>1. Len(pre \o rest) = Len(pre) /\ Len(pre) \in 1..Len(pre) + Len(rest)
    BY <1>1, <1>2, <1>4
  <2> QED
    BY <1>1, <1>2, <1>3, <1>4, <2>1 DEF Final
<1>5. CASE rest # <<>>
  <2>1. /\ Len(pre) + Len(rest) \in 1..Len(pre) + Len(rest) /\ ~(Len(pre) + Len(rest) <= Len(pre))
        /\ (Len(pre) + Len(rest)) - Len(pre) = Len(rest)
    BY <1>1, <1>5
  <2>2. (pre \o rest)[Len(pre) + Len(rest)] = rest[Len(rest)]
    BY <1>2, <2>1
  <2> QED
    BY <1>2, <1>3, <1>5, <2>2 DEF Final
<1> QED
  BY <1>3, <1>4, <1>5

\* A list of one or two goals.
LEMMA FinalShort ==
  \A g, h : /\ Final(<<g>>) = g /\ Final(<<g, h>>) = h
            /\ <<g>> # <<>> /\ <<g, h>> # <<>>
BY DEF Final

-----------------------------------------------------------------------------
(* What a handler is at *)

\* p sends, or has an answer, or needs none.
LEMMA HandleKinds ==
  ASSUME NEW p \in Handlers, Handle(p)
  PROVE  \/ Send(p)
         \/ \E r \in {"ok", "exists", "notfound", "inuse", "lost"} : Gets(p, r)
         \/ (Portless(p) \/ Store(p) \/ Finish(p)) /\ UNCHANGED <<agent, caller, trouble>>
BY DEF Handle, Synced, FallBack, Rebind, Clear, ControlName, ControlDone, Heal, Refused, Purged, Portless, Store,
       Finish

\* The agent comes to work for p when p sends.
LEMMA CallerKept ==
  ASSUME SIInv, [SyncNext]_syncVars, NEW p \in Handlers, caller' = p
  PROVE  \/ Send(p)
         \/ caller = p /\ task'[p] = task[p] /\ (AgentNext \/ UNCHANGED agent)
<1>0. "none" \notin Handlers
  BY ForwardAssumption
<1>t. caller \in Handlers => task[caller].goals # <<>> /\ Goal(caller) # "store"
  BY DEF SIInv, TaskInv
<1>1. CASE UNCHANGED syncVars
  BY <1>1 DEF syncVars, panel
<1>2. CASE AgentNext
  BY <1>2 DEF AgentNext, panel
<1>3. CASE ForceDelete
  BY <1>3 DEF ForceDelete
<1>4. ASSUME NEW q \in Handlers, Asked(q) \/ Report(q)
      PROVE  caller = p /\ task'[p] = task[p] /\ UNCHANGED agent
  <2>1. UNCHANGED <<agent, caller>>
    BY <1>4 DEF Asked, Create, Request, Report, Begins
  <2>2. task[q].goals = <<>>
    BY <1>4, AskedOthers DEF SIInv, TaskInv
  <2> QED
    BY <1>4, <1>t, <2>1, <2>2, AskedOthers
<1>5. ASSUME NEW q \in Handlers, Handle(q)
      PROVE  \/ Send(p)
             \/ caller = p /\ task'[p] = task[p] /\ UNCHANGED agent
  <2>1. CASE Send(q)
    BY <2>1 DEF Send
  <2>2. CASE \E r \in {"ok", "exists", "notfound", "inuse", "lost"} : Gets(q, r)
    BY <1>0, <2>2 DEF Gets
  <2>3. CASE (Portless(q) \/ Store(q) \/ Finish(q)) /\ UNCHANGED <<agent, caller, trouble>>
    <3>1. caller # q
      BY <1>t, <2>3 DEF Portless, Store, Finish
    <3> QED
      BY <1>5, <2>3, <3>1, HandleOthers
  <2> QED
    BY <1>5, <2>1, <2>2, <2>3, HandleKinds
<1> QED
  BY <1>1, <1>2, <1>3, <1>4, <1>5 DEF SyncNext

LEMMA LossNext == SIInv /\ DownInv /\ LossInv /\ [SyncNext]_syncVars => LossInv'
<1> SUFFICES ASSUME SIInv, DownInv, LossInv, [SyncNext]_syncVars, "lost" \notin trouble', caller' = "none"
             PROVE  phase' = "idle"
  BY DEF LossInv
<1>1. CASE UNCHANGED syncVars
  BY <1>1 DEF syncVars, panel, agent, vars, command, LossInv
<1>2. CASE AgentNext
  BY <1>2, RestKept DEF AgentNext, panel, LossInv, SIInv
<1>3. CASE ForceDelete
  BY <1>3 DEF ForceDelete, agent, vars, command, LossInv
<1>4. ASSUME NEW p \in Handlers, Asked(p) \/ Report(p) PROVE phase' = "idle"
  <2>1. UNCHANGED <<agent, caller>>
    BY <1>4 DEF Asked, Create, Request, Report, Begins
  <2> QED
    BY <1>4, <2>1, AskedOthers DEF agent, vars, command, LossInv
<1>5. ASSUME NEW p \in Handlers, Handle(p) PROVE phase' = "idle"
  <2>1. CASE Send(p)
    BY <2>1, ForwardAssumption DEF Send
  <2>2. CASE \E r \in {"ok", "exists", "notfound", "inuse", "lost"} : Gets(p, r)
    BY <2>2 DEF Gets, Hears, Loses, AtRest, agent, vars, command
  <2>3. CASE UNCHANGED <<agent, caller, trouble>>
    BY <2>3 DEF agent, vars, command, LossInv
  <2> QED
    BY <1>5, <2>1, <2>2, <2>3, HandleKinds
<1> QED
  BY <1>1, <1>2, <1>3, <1>4, <1>5 DEF SyncNext

LEMMA PursueTask ==
  ASSUME SIInv, NEW p \in Handlers, NEW goals, Pursue(p, goals)
  PROVE  /\ task'[p].job = task[p].job /\ task'[p].rec = task[p].rec /\ task'[p].old = task[p].old
         /\ task'[p].goals = goals /\ task'[p].queue = Variants /\ task'[p].handled = FALSE
         /\ UNCHANGED <<fwd, ports>>
<1>1. task[p] \in Tasks /\ task \in [Handlers -> Tasks]
  BY DEF SIInv, SyncTypeOK
<1>2. task'[p] = [task[p] EXCEPT !.goals = goals, !.queue = Variants, !.handled = FALSE]
  BY <1>1 DEF Pursue
<1> QED
  BY <1>1, <1>2 DEF Pursue, Tasks

LEMMA NextNameTask ==
  ASSUME SIInv, NEW p \in Handlers, NEW handled, NextName(p, handled)
  PROVE  /\ task'[p].job = task[p].job /\ task'[p].rec = task[p].rec /\ task'[p].old = task[p].old
         /\ task'[p].goals = task[p].goals /\ task'[p].queue = Tail(task[p].queue) /\ task'[p].handled = handled
         /\ UNCHANGED <<fwd, ports>>
<1>1. task[p] \in Tasks /\ task \in [Handlers -> Tasks]
  BY DEF SIInv, SyncTypeOK
<1>2. task'[p] = [task[p] EXCEPT !.queue = Tail(task[p].queue), !.handled = handled]
  BY <1>1 DEF NextName
<1> QED
  BY <1>1, <1>2 DEF NextName, Tasks

LEMMA RollBackTask ==
  ASSUME SIInv, NEW p \in Handlers, RollBack(p)
  PROVE  /\ task'[p].job = "rollback" /\ task'[p].rec = task[p].old /\ task'[p].goals = <<"sync">>
         /\ task'[p].queue = Variants
<1>1. task[p] \in Tasks /\ task \in [Handlers -> Tasks]
  BY DEF SIInv, SyncTypeOK
<1>2. task'[p] = [task[p] EXCEPT !.job = "rollback", !.rec = task[p].old, !.goals = <<"sync">>,
                                 !.queue = Variants, !.handled = FALSE]
  BY <1>1 DEF RollBack
<1> QED
  BY <1>1, <1>2 DEF Tasks

LEMMA StoreTask ==
  ASSUME SIInv, NEW p \in Handlers, Store(p), fwd.state = "there"
  PROVE  /\ task'[p].job = task[p].job /\ task'[p].rec = fwd' /\ task'[p].old = task[p].old
         /\ task'[p].goals = Rest(p) /\ task'[p].queue = task[p].queue /\ task'[p].handled = task[p].handled
         /\ \E ps \in Protos : fwd' = [fwd EXCEPT !.protos = ps]
         /\ fwd'.state = fwd.state /\ fwd'.status = fwd.status
<1>1. task[p] \in Tasks /\ task \in [Handlers -> Tasks] /\ fwd \in Forwards
  BY DEF SIInv, SyncTypeOK
<1>2. PICK ps \in Protos : /\ fwd' = [fwd EXCEPT !.protos = ps]
                           /\ task' = [task EXCEPT ![p].rec = fwd', ![p].goals = Tail(task[p].goals)]
  BY <1>1 DEF Store
<1>3. task'[p] = [task[p] EXCEPT !.rec = fwd', !.goals = Tail(task[p].goals)]
  BY <1>1, <1>2
<1> QED
  BY <1>1, <1>2, <1>3 DEF Tasks, Forwards, Rest

LEMMA BeginsTask ==
  ASSUME SIInv, NEW p \in Handlers, NEW j, NEW goals, Begins(p, j, goals)
  PROVE  /\ task'[p].job = j /\ task'[p].rec = fwd' /\ task'[p].old = fwd
         /\ task'[p].goals = goals /\ task'[p].queue = Variants /\ task'[p].handled = FALSE
         /\ UNCHANGED <<agent, caller>> /\ caller # p
<1>1. task \in [Handlers -> Tasks]
  BY DEF SIInv, SyncTypeOK
<1>2. task'[p] = [job |-> j, rec |-> fwd', old |-> fwd, goals |-> goals, queue |-> Variants, handled |-> FALSE]
  BY <1>1 DEF Begins
<1> QED
  BY <1>2 DEF Begins, SIInv, TaskInv

\* A handler that gives up is done, or puts back what it updated.
LEMMA GiveUpTask ==
  ASSUME SIInv, NEW p \in Handlers, GiveUp(p)
  PROVE  (End(p) /\ task'[p] = NoTask) \/ (RollBack(p) /\ task[p].job = "update")
BY EndMoves DEF GiveUp, UndoCreate, SuspendAnyway

-----------------------------------------------------------------------------
(* Lists of goals *)

\* A handler goes on with what is left of its goals, and some before it.
LEMMA PursueGoals ==
  ASSUME SIInv, NEW p \in Handlers, GoalsIs(task[p]), task[p].goals # <<>>, Goal(p) \notin {"store", "purge"},
         NEW goals, Pursue(p, goals),
         \/ goals = Rest(p)
         \/ \E pre \in Seq(Goals \ {"store"}) :
              /\ pre # <<>> /\ goals = pre \o Rest(p)
              /\ Rest(p) = <<>> /\ task[p].job \in Silencers => Final(pre) \in LastOf(task[p].job)
  PROVE  GoalsIs(task'[p])
<1>g. DEFINE G == Goals \ {"store"}
<1>1. task[p].goals \in Seq(G)
  <2>1. task[p].goals # <<"store", "sync">>
    BY DEF Goal
  <2> QED
    BY <2>1 DEF GoalsIs
<1>2. Rest(p) \in Seq(G)
  BY <1>1, HeadTailProperties DEF Rest
<1>3. task[p].job # "report"
  BY DEF GoalsIs, Goal
<1>4. Rest(p) # <<>> => Final(Rest(p)) = Final(task[p].goals)
  BY <1>1, FinalTail DEF Rest
<1>5. task'[p].job = task[p].job /\ task'[p].goals = goals
  BY PursueTask
<1>6. CASE goals = Rest(p)
  BY <1>2, <1>3, <1>4, <1>5, <1>6 DEF GoalsIs
<1>7. ASSUME NEW pre \in Seq(G), pre # <<>>, goals = pre \o Rest(p),
             Rest(p) = <<>> /\ task[p].job \in Silencers => Final(pre) \in LastOf(task[p].job)
      PROVE  GoalsIs(task'[p])
  <2>1. goals \in Seq(G)
    BY <1>2, <1>7, ConcatProperties
  <2>2. Final(goals) = (IF Rest(p) = <<>> THEN Final(pre) ELSE Final(Rest(p)))
    BY <1>2, <1>7, FinalBefore
  <2> QED
    BY <1>3, <1>4, <1>5, <1>7, <2>1, <2>2 DEF GoalsIs
<1> QED
  BY <1>6, <1>7

LEMMA GoalsHandles ==
  ASSUME SIInv, GoalsInv, NEW p \in Handlers, Handle(p)
  PROVE  GoalsIs(task'[p])
<1>0. GoalsIs(task[p])
  BY DEF GoalsInv
<1>g. DEFINE G == Goals \ {"store"}
<1>e. task'[p] = NoTask => GoalsIs(task'[p])
  BY EmptySeq DEF NoTask, GoalsIs
<1>b. RollBack(p) => GoalsIs(task'[p])
  <2>1. <<"sync">> \in Seq(G)
    BY DEF Goals
  <2> QED
    BY <2>1, RollBackTask, FinalShort DEF GoalsIs, LastOf, Silencers
<1>u. GiveUp(p) => GoalsIs(task'[p])
  BY <1>e, <1>b, GiveUpTask
<1>s. ASSUME task[p].goals # <<>>, Rest(p) = <<>>, task[p].job \in Silencers PROVE Goal(p) \in LastOf(task[p].job)
  <2>1. task[p].goals \in Seq(Goals)
    BY TasksType DEF SIInv, SyncTypeOK
  <2>2. Final(task[p].goals) = Goal(p)
    BY <1>s, <2>1, FinalTail DEF Rest, Goal
  <2> QED
    BY <1>0, <1>s, <2>2 DEF GoalsIs
<1>l. /\ "Pause" \in LastOf(task[p].job)
      /\ "sync" \in LastOf(task[p].job) => "add" \in LastOf(task[p].job)
      /\ "add" \in LastOf(task[p].job) => "readd" \in LastOf(task[p].job)
      /\ "Pause again" \in LastOf(task[p].job) /\ "Resume" \notin LastOf(task[p].job)
  BY DEF LastOf, Pauses
<1>f. /\ <<"Pause">> \in Seq(G) /\ <<"add">> \in Seq(G) /\ <<"clear", "readd">> \in Seq(G)
      /\ <<"sync", "Pause again">> \in Seq(G) /\ <<"sync", "Resume again">> \in Seq(G)
  BY DEF Goals
<1>1. CASE Send(p)
  BY <1>0, <1>1 DEF Send
<1>2. CASE Synced(p)
  <2>1. task[p].goals # <<>> /\ Goal(p) \notin {"store", "purge"}
    BY <1>2 DEF Synced, Gets
  <2>2. CASE Pursue(p, Rest(p))
    BY <1>0, <2>1, <2>2, PursueGoals
  <2>3. CASE Pursue(p, <<"Pause">> \o Rest(p))
    BY <1>0, <1>l, <1>f, <2>1, <2>3, PursueGoals, FinalShort
  <2> QED
    BY <1>2, <2>2, <2>3 DEF Synced
<1>3. CASE FallBack(p)
  <2>1. task[p].goals # <<>> /\ Goal(p) = "sync" /\ Pursue(p, <<"add">> \o Rest(p))
    BY <1>3 DEF FallBack, Gets
  <2>2. Rest(p) = <<>> /\ task[p].job \in Silencers => Final(<<"add">>) \in LastOf(task[p].job)
    BY <1>s, <1>l, <2>1, FinalShort
  <2> QED
    BY <1>0, <1>f, <2>1, <2>2, PursueGoals, FinalShort
<1>4. CASE Rebind(p)
  <2>1. task[p].goals # <<>> /\ Goal(p) = "add" /\ Pursue(p, <<"clear", "readd">> \o Rest(p))
    BY <1>4 DEF Rebind, Gets
  <2>2. Rest(p) = <<>> /\ task[p].job \in Silencers => Final(<<"clear", "readd">>) \in LastOf(task[p].job)
    <3>1. Final(<<"clear", "readd">>) = "readd"
      BY FinalShort
    <3>2. Rest(p) = <<>> /\ task[p].job \in Silencers => "readd" \in LastOf(task[p].job)
      BY <1>s, <1>l, <2>1
    <3> QED
      BY <3>1, <3>2
  <2> QED
    BY <1>0, <1>f, <2>1, <2>2, PursueGoals, FinalShort
<1>5. CASE Clear(p)
  <2>1. task[p].goals # <<>> /\ Goal(p) = "clear"
    BY <1>5 DEF Clear, Gets
  <2>2. CASE NextName(p, FALSE)
    BY <1>0, <2>2, NextNameTask DEF GoalsIs
  <2>3. CASE Pursue(p, Rest(p))
    BY <1>0, <2>1, <2>3, PursueGoals
  <2> QED
    BY <1>5, <2>2, <2>3 DEF Clear
<1>6. CASE ControlName(p)
  BY <1>0, <1>6, NextNameTask DEF ControlName, GoalsIs
<1>7. CASE ControlDone(p)
  <2>1. task[p].goals # <<>> /\ Goal(p) \notin {"store", "purge"} /\ Pursue(p, Rest(p))
    BY <1>7 DEF ControlDone, Gets, Controlling
  <2> QED
    BY <1>0, <2>1, PursueGoals
<1>8. CASE Heal(p)
  <2>1. task[p].goals # <<>> /\ Goal(p) \in {"Pause", "Resume"}
    BY <1>8 DEF Heal, Gets
  <2>2. CASE Goal(p) = "Pause"
    <3>1. Pursue(p, <<"sync", "Pause again">> \o Rest(p))
      BY <1>8, <2>2 DEF Heal
    <3>2. Final(<<"sync", "Pause again">>) \in LastOf(task[p].job) /\ <<"sync", "Pause again">> # <<>>
      BY <1>l, FinalShort
    <3> QED
      BY <1>0, <1>f, <2>1, <3>1, <3>2, PursueGoals
  <2>3. CASE Goal(p) = "Resume"
    <3>1. Pursue(p, <<"sync", "Resume again">> \o Rest(p))
      BY <1>8, <2>3 DEF Heal
    <3>2. ~(Rest(p) = <<>> /\ task[p].job \in Silencers)
      BY <1>s, <1>l, <2>1, <2>3
    <3> QED
      BY <1>0, <1>f, <2>1, <3>1, <3>2, PursueGoals, FinalShort
  <2> QED
    BY <2>1, <2>2, <2>3
<1>9. CASE Refused(p)
  BY <1>9, <1>u DEF Refused
<1>10. CASE Portless(p)
  <2>1. task[p].goals # <<>> /\ Goal(p) \notin {"store", "purge"}
    BY <1>10 DEF Portless, NoPorts
  <2>2. CASE Pursue(p, Rest(p))
    BY <1>0, <2>1, <2>2, PursueGoals
  <2> QED
    BY <1>10, <1>u, <2>2 DEF Portless
<1>11. CASE Purged(p)
  BY <1>11, <1>e, EndMoves DEF Purged
<1>12. CASE Store(p)
  <2>1. CASE RollBack(p)
    BY <1>b, <2>1
  <2>2. CASE fwd.state = "there"
    <3>1. task[p].goals = <<"store", "sync">> /\ task[p].job = "update"
      <4>1. task[p].goals # <<>> /\ Goal(p) = "store"
        BY <1>12 DEF Store
      <4>2. task[p].goals \in Seq(G) => Goal(p) \in G
        BY <4>1, HeadTailProperties DEF Goal
      <4> QED
        BY <1>0, <4>1, <4>2 DEF GoalsIs
    <3>2. Rest(p) = <<"sync">>
      BY <3>1 DEF Rest
    <3>3. <<"sync">> \in Seq(G)
      BY DEF Goals
    <3>4. task'[p].goals = <<"sync">> /\ task'[p].job = "update"
      BY <1>12, <2>2, <3>1, <3>2, StoreTask
    <3>5. Final(task'[p].goals) \in LastOf("update")
      BY <3>4, FinalShort DEF LastOf
    <3> QED
      BY <3>3, <3>4, <3>5 DEF GoalsIs
  <2> QED
    BY <1>12, <2>1, <2>2 DEF Store
<1>13. CASE Finish(p)
  BY <1>13, <1>e, EndMoves DEF Finish
<1> QED
  BY <1>1, <1>2, <1>3, <1>4, <1>5, <1>6, <1>7, <1>8, <1>9, <1>10, <1>11, <1>12, <1>13
  DEF Handle

LEMMA GoalsNext == SIInv /\ GoalsInv /\ [SyncNext]_syncVars => GoalsInv'
<1> SUFFICES ASSUME SIInv, GoalsInv, [SyncNext]_syncVars, NEW q \in Handlers PROVE GoalsIs(task'[q])
  BY DEF GoalsInv
<1>0. GoalsIs(task[q])
  BY DEF GoalsInv
<1>1. CASE UNCHANGED task
  BY <1>0, <1>1
<1>2. ASSUME NEW p \in Handlers, Asked(p) \/ Report(p) PROVE GoalsIs(task'[q])
  <2>1. CASE q # p
    BY <1>0, <1>2, <2>1, AskedOthers
  <2>2. ASSUME NEW j, NEW goals, Begins(q, j, goals),
               \/ goals \in Seq(Goals \ {"store"})
               \/ j = "update" /\ goals = <<"store", "sync">>,
               j = "report" => goals = <<"purge">>, j \in Silencers => Final(goals) \in LastOf(j)
        PROVE  GoalsIs(task'[q])
    BY <2>2, BeginsTask DEF GoalsIs
  <2>3. /\ <<"sync">> \in Seq(Goals \ {"store"}) /\ <<"Pause">> \in Seq(Goals \ {"store"})
        /\ <<"Resume">> \in Seq(Goals \ {"store"}) /\ <<"Delete">> \in Seq(Goals \ {"store"})
        /\ <<"purge">> \in Seq(Goals \ {"store"})
    BY DEF Goals
  <2>4. Create(q) \/ Report(q) => GoalsIs(task'[q])
    BY <2>2, <2>3 DEF Create, Report, Silencers
  <2>5. Request(q, "update", <<"store", "sync">>) \/ Request(q, "redeploy", <<"sync">>) => GoalsIs(task'[q])
    BY <2>2, <2>3, FinalShort DEF Request, LastOf
  <2>6. Request(q, "pause", <<"Pause">>) \/ Request(q, "suspend", <<"Pause">>) => GoalsIs(task'[q])
    BY <2>2, <2>3, FinalShort DEF Request, LastOf, Pauses
  <2>7. Request(q, "resume", <<"Resume">>) \/ Request(q, "delete", <<"Delete">>) => GoalsIs(task'[q])
    BY <2>2, <2>3 DEF Request, Silencers
  <2> QED
    BY <1>2, <2>1, <2>4, <2>5, <2>6, <2>7 DEF Asked
<1>3. ASSUME NEW p \in Handlers, Handle(p) PROVE GoalsIs(task'[q])
  BY <1>0, <1>3, GoalsHandles, HandleOthers
<1> QED
  BY <1>1, <1>2, <1>3 DEF SyncNext, AgentNext, ForceDelete, panel, syncVars

-----------------------------------------------------------------------------
(* Who is alone *)

LEMMA AloneHandles ==
  ASSUME SIInv, FwdInv, GoalsInv, AloneInv, NEW p \in Handlers, Handle(p), "race" \notin trouble',
         ~Idle(p)', task'[p].job # "report"
  PROVE  AloneIs(p)'
<1>0. "race" \notin trouble /\ ~Idle(p) /\ fwd \in Forwards
  BY HandleOthers DEF SIInv, SyncTypeOK
<1>n. ~Idle(p)' => task'[p] # NoTask
  BY DEF Idle, NoTask
<1>1. task[p].job # "report"
  <2>1. ASSUME task[p].job = "report" PROVE FALSE
    <3>1. task[p].goals = <<"purge">> /\ Goal(p) = "purge"
      BY <2>1 DEF GoalsInv, GoalsIs, Goal
    <3>2. Send(p) \/ Purged(p)
      BY <3>1
      DEF Handle, Synced, FallBack, Rebind, Clear, ControlName, ControlDone, Controlling, Heal, Refused, Portless,
          NoPorts, Store, Finish
    <3> QED
      BY <1>n, <2>1, <3>2, EndMoves DEF Send, Purged
  <2> QED
    BY <2>1
<1>2. AloneIs(p)
  BY <1>0, <1>1 DEF AloneInv
<1>3. ASSUME task'[p].job = task[p].job, task'[p].rec = task[p].rec, task'[p].old = task[p].old, fwd' = fwd
      PROVE  AloneIs(p)'
  BY <1>2, <1>3 DEF AloneIs
<1>4. ASSUME NEW goals, Pursue(p, goals) PROVE AloneIs(p)'
  BY <1>3, <1>4, PursueTask
<1>5. ASSUME NEW handled, NextName(p, handled) PROVE AloneIs(p)'
  BY <1>3, <1>5, NextNameTask
<1>6. GiveUp(p) => AloneIs(p)'
  <2>1. ASSUME RollBack(p), task[p].job = "update" PROVE AloneIs(p)'
    <3>1. task[p].old.state = "there" /\ fwd' = task[p].old
      BY <1>2, <2>1 DEF FwdInv, RollBack, AloneIs
    <3>2. task'[p].rec = task[p].old /\ task'[p].job = "rollback"
      BY <2>1, RollBackTask
    <3> QED
      BY <3>1, <3>2 DEF AloneIs
  <2> QED
    BY <1>n, <2>1, GiveUpTask
<1>7. Store(p) => AloneIs(p)'
  BY <1>2, StoreTask DEF AloneIs
<1>8. Send(p) => AloneIs(p)'
  BY <1>3 DEF Send
<1> QED
  BY <1>n, <1>4, <1>5, <1>6, <1>7, <1>8, EndMoves
  DEF Handle, Synced, FallBack, Rebind, Clear, ControlName, ControlDone, Heal, Refused, Portless, Purged, Finish

LEMMA AloneNext ==
  SIInv /\ MetInv /\ FwdInv /\ GoalsInv /\ AloneInv /\ [SyncNext]_syncVars => AloneInv'
<1> SUFFICES ASSUME SIInv, MetInv, FwdInv, GoalsInv, AloneInv, [SyncNext]_syncVars, "race" \notin trouble',
                    NEW q \in Handlers, ~Idle(q)', task'[q].job # "report"
             PROVE  AloneIs(q)'
  BY DEF AloneInv
<1>1. CASE UNCHANGED panel
  BY <1>1 DEF panel, AloneInv, AloneIs, Idle
<1>2. CASE ForceDelete
  BY <1>2 DEF ForceDelete, Met, Idle
<1>3. ASSUME NEW p \in Handlers, Asked(p) \/ Report(p) PROVE AloneIs(q)'
  <2>1. q = p
    BY <1>3, AskedOthers DEF Met, Idle
  <2>2. ~Report(q)
    BY BeginsTask DEF Report
  <2>3. fwd \in Forwards
    BY DEF SIInv, SyncTypeOK
  <2>4. CASE Create(q)
    <3>1. fwd'.state = "there"
      BY <2>3, <2>4 DEF Create, Forwards
    <3>2. task'[q].job = "create" /\ task'[q].rec = fwd'
      BY <2>4, BeginsTask DEF Create
    <3> QED
      BY <3>1, <3>2 DEF AloneIs
  <2>5. ASSUME NEW j, NEW goals, Request(q, j, goals) PROVE AloneIs(q)'
    BY <2>5, BeginsTask DEF Request, AloneIs
  <2> QED
    BY <1>3, <2>1, <2>2, <2>4, <2>5 DEF Asked
<1>4. ASSUME NEW p \in Handlers, Handle(p) PROVE AloneIs(q)'
  <2>1. "race" \notin trouble /\ q = p
    BY <1>4, HandleOthers DEF MetInv, Idle
  <2> QED
    BY <1>4, <2>1, AloneHandles
<1> QED
  BY <1>1, <1>2, <1>3, <1>4 DEF SyncNext, AgentNext, syncVars

-----------------------------------------------------------------------------
(* What the agent makes of a command *)

\* What leaves a command in its items, or cuts it off.
Unmoved ==
  /\ phase' = "items" /\ UNCHANGED <<op, todo, done, reg, config, disk, up>>

Dropped ==
  /\ up' = FALSE /\ phase' = "idle" /\ reply' = "none"
  /\ reg' = NoServices /\ config' = NoConfig /\ disk' = disk

\* An update goes on with its list, or is answered: every service was made anew,
\* or one of them failed.
LEMMA UpdateStep ==
  ASSUME IInv, Step \/ Kill \/ Boot, phase = "items", op = "Update", NEW N, N \subseteq done \cup Names(todo)
  PROVE  \/ phase' = "items" /\ op' = "Update" /\ N \subseteq done' \cup Names(todo')
         \/ Dropped
         \/ phase' = "save" /\ reply' = "inuse" /\ "Update" \in mishaps'
         \/ phase' = "save" /\ reply' = "ok" /\ \A s \in N : reg'[s] = "serving"
<1>1. CASE Kill
  BY <1>1 DEF Kill, files, Dropped
<1>2. up
  BY DEF IInv, FileInv
<1>3. CASE \E t \in Services : Collect(t)
  BY <1>3 DEF Collect, command
<1>4. ASSUME NEW s \in Services, UpdateOne(s)
      PROVE  phase' = "items" /\ op' = "Update" /\ N \subseteq done' \cup Names(todo')
  <2>1. /\ phase' = "items" /\ op' = "Update" /\ done' = done \cup {s} /\ todo' = Tail(todo)
        /\ todo # <<>> /\ s = Head(todo)
    BY <1>4 DEF UpdateOne, NextItem, Running
  <2>2. Names(todo) \subseteq Names(Tail(todo)) \cup {Head(todo)}
    BY <2>1, NamesTail DEF IInv, TypeOK, CommandTypeOK
  <2> QED
    BY <2>1, <2>2
<1>5. ASSUME NEW s \in Services, UpdateFails(s) PROVE phase' = "save" /\ reply' = "inuse" /\ "Update" \in mishaps'
  BY <1>5 DEF UpdateFails, BindFails, Running, Return
<1>6. CASE UpdateConfig
  <2>1. phase' = "save" /\ reply' = "ok" /\ reg' = reg /\ todo = <<>>
    BY <1>6 DEF UpdateConfig, Return, registry, Running
  <2>2. Names(todo) = {}
    BY <2>1 DEF Names
  <2>3. \A s \in done : reg[s] = "serving"
    BY DEF IInv, DoneInv
  <2> QED
    BY <2>1, <2>2, <2>3
<1> QED
  BY <1>1, <1>2, <1>3, <1>4, <1>5, <1>6
  DEF Boot, Step, NextItem, Running, AddOpen, AddRefused, AddFails, PauseOne, PauseUnconfigured, ResumeSkips,
      ResumeOne, ResumeFails, AddRegister, DeleteAll, PauseMissing, PauseConfig, ResumeMissing, ResumeConfig,
      SaveOpen, SaveWrite

\* A command is about s, which is yet to be done or done.
About(s) == (todo = <<s>> /\ done = {}) \/ (todo = <<>> /\ done \subseteq {s})

LEMMA AboutOne ==
  ASSUME NEW s
  PROVE  /\ Names(<<s>>) = {s} /\ Head(<<s>>) = s /\ Tail(<<s>>) = <<>> /\ <<s>> # <<>>
         /\ Names(<<>>) = {}
BY DEF Names

\* The pause of s closes it and marks it as paused, or does not find it.
PauseMakes(s) ==
  \/ Unmoved
  \/ Dropped
  \/ /\ todo = <<s>> /\ phase' = "items" /\ op' = op /\ todo' = <<>> /\ done' = {s}
     /\ reg' = [reg EXCEPT ![s] = "closed"] /\ UNCHANGED <<config, disk, up>>
  \/ /\ todo = <<s>> /\ phase' = "save" /\ reply' = "notfound" /\ (reg[s] = "none" \/ config.entries[s] = 0)
     /\ reg[s] # "none" => config.entries[s] = 0
     /\ UNCHANGED <<reg, config, disk, up>>
  \/ /\ todo = <<>> /\ phase' = "save" /\ reply' = "ok"
     /\ config' = [config EXCEPT !.paused = @ \cup done] /\ UNCHANGED <<reg, disk, up>>

LEMMA PauseStep ==
  ASSUME IInv, Step \/ Kill \/ Boot, phase = "items", op = "Pause", NEW s \in Services, About(s)
  PROVE  PauseMakes(s)
<1>1. CASE Kill
  BY <1>1 DEF Kill, files, Dropped, PauseMakes
<1>2. up
  BY DEF IInv, FileInv
<1>3. CASE \E t \in Services : Collect(t)
  BY <1>3 DEF Collect, command, files, Unmoved, PauseMakes
<1>4. todo = <<s>> \/ todo = <<>>
  BY DEF About
<1>5. ASSUME NEW t \in Services, PauseOne(t) PROVE PauseMakes(s)
  <2>1. todo = <<s>> /\ t = s /\ done = {} /\ Tail(todo) = <<>>
    BY <1>5, <1>4, AboutOne DEF PauseOne, NextItem, About
  <2>2. done' = {s}
    BY <1>5, <2>1 DEF PauseOne
  <2> QED
    BY <1>5, <2>1, <2>2 DEF PauseOne, NextItem, Running, files, PauseMakes
<1>6. ASSUME NEW t \in Services, PauseUnconfigured(t) PROVE PauseMakes(s)
  <2>1. todo = <<s>> /\ t = s
    BY <1>6, <1>4, AboutOne DEF PauseUnconfigured
  <2> QED
    BY <1>6, <2>1 DEF PauseUnconfigured, Return, registry, files, PauseMakes
<1>7. CASE PauseMissing
  <2>0. (todo = <<s>> /\ Names(todo) = {s}) \/ Names(todo) = {}
    BY <1>4, AboutOne
  <2>1. todo = <<s>> /\ reg[s] = "none"
    BY <1>7, <2>0 DEF PauseMissing, Unregistered
  <2>2. phase' = "save" /\ reply' = "notfound" /\ UNCHANGED <<reg, config, disk, up>>
    BY <1>7 DEF PauseMissing, Return, registry, files
  <2> QED
    BY <2>1, <2>2 DEF PauseMakes
<1>8. CASE PauseConfig
  BY <1>8 DEF PauseConfig, Return, registry, files, PauseMakes
<1> QED
  BY <1>1, <1>2, <1>3, <1>5, <1>6, <1>7, <1>8
  DEF Boot, Step, NextItem, Running, AddOpen, AddRefused, AddFails, UpdateOne, UpdateFails, ResumeSkips,
      ResumeOne, ResumeFails, AddRegister, UpdateConfig, DeleteAll, ResumeMissing, ResumeConfig, SaveOpen, SaveWrite

\* The resume of s makes it serve again, unless it is not marked as paused; or it
\* does not find it, or fails.
ResumeMakes(s) ==
  \/ Unmoved
  \/ Dropped
  \/ /\ todo = <<s>> /\ phase' = "items" /\ op' = op /\ todo' = <<>> /\ done' = {}
     /\ s \notin config.paused /\ reg[s] # "none" /\ UNCHANGED <<reg, config, disk, up>>
  \/ /\ todo = <<s>> /\ phase' = "items" /\ op' = op /\ todo' = <<>> /\ done' = {s}
     /\ reg' = [reg EXCEPT ![s] = "serving"] /\ UNCHANGED <<config, disk, up>>
  \/ /\ todo = <<s>> /\ phase' = "save" /\ reply' = "notfound" /\ (reg[s] = "none" \/ config.entries[s] = 0)
     /\ UNCHANGED <<reg, config, disk, up>>
  \/ todo = <<s>> /\ phase' = "save" /\ reply' = "inuse" /\ "Resume" \in mishaps'
  \/ /\ todo = <<>> /\ phase' = "save" /\ reply' = "ok"
     /\ config' = [config EXCEPT !.paused = @ \ done] /\ UNCHANGED <<reg, disk, up>>

LEMMA ResumeStep ==
  ASSUME IInv, Step \/ Kill \/ Boot, phase = "items", op = "Resume", NEW s \in Services, About(s)
  PROVE  ResumeMakes(s)
<1>1. CASE Kill
  BY <1>1 DEF Kill, files, Dropped, ResumeMakes
<1>2. up
  BY DEF IInv, FileInv
<1>3. CASE \E t \in Services : Collect(t)
  BY <1>3 DEF Collect, command, files, Unmoved, ResumeMakes
<1>4. todo = <<s>> \/ todo = <<>>
  BY DEF About
<1>5. ASSUME NEW t \in Services, ResumeSkips(t) PROVE ResumeMakes(s)
  <2>1. todo = <<s>> /\ t = s /\ done = {} /\ Tail(todo) = <<>> /\ ~Unresumable
    BY <1>5, <1>4, AboutOne DEF ResumeSkips, NextItem, About
  <2>2. reg[s] # "none"
    BY <2>1, AboutOne DEF Unresumable, Unregistered
  <2> QED
    BY <1>5, <2>1, <2>2 DEF ResumeSkips, NextItem, Running, registry, files, ResumeMakes
<1>6. ASSUME NEW t \in Services, ResumeOne(t) PROVE ResumeMakes(s)
  <2>1. todo = <<s>> /\ t = s /\ done = {} /\ Tail(todo) = <<>>
    BY <1>6, <1>4, AboutOne DEF ResumeOne, NextItem, About
  <2>2. done' = {s}
    BY <1>6, <2>1 DEF ResumeOne
  <2> QED
    BY <1>6, <2>1, <2>2 DEF ResumeOne, NextItem, Running, files, ResumeMakes
<1>7. ASSUME NEW t \in Services, ResumeFails(t) PROVE ResumeMakes(s)
  <2>1. todo = <<s>>
    BY <1>7, <1>4 DEF ResumeFails
  <2> QED
    BY <1>7, <2>1 DEF ResumeFails, BindFails, Return, ResumeMakes
<1>8. CASE ResumeMissing
  <2>0. (todo = <<s>> /\ Names(todo) = {s}) \/ Names(todo) = {}
    BY <1>4, AboutOne
  <2>1. todo = <<s>> /\ (reg[s] = "none" \/ config.entries[s] = 0)
    BY <1>8, <2>0 DEF ResumeMissing, Unresumable, Unregistered
  <2>2. phase' = "save" /\ reply' = "notfound" /\ UNCHANGED <<reg, config, disk, up>>
    BY <1>8 DEF ResumeMissing, Return, registry, files
  <2> QED
    BY <2>1, <2>2 DEF ResumeMakes
<1>9. CASE ResumeConfig
  BY <1>9 DEF ResumeConfig, Return, registry, files, ResumeMakes
<1> QED
  BY <1>1, <1>2, <1>3, <1>5, <1>6, <1>7, <1>8, <1>9
  DEF Boot, Step, NextItem, Running, AddOpen, AddRefused, AddFails, UpdateOne, UpdateFails, PauseOne,
      PauseUnconfigured, AddRegister, UpdateConfig, DeleteAll, PauseMissing, PauseConfig, SaveOpen, SaveWrite

LEMMA DeleteStep ==
  ASSUME IInv, Step \/ Kill \/ Boot, phase = "items", op = "Delete"
  PROVE  \/ phase' = "items" /\ UNCHANGED <<op, todo, done>>
         \/ phase' # "items" /\ reply' \in {"none", "ok"}
<1>1. CASE Kill
  BY <1>1 DEF Kill
<1>2. up
  BY DEF IInv, FileInv
<1>3. CASE \E t \in Services : Collect(t)
  BY <1>3 DEF Collect, command
<1>4. CASE DeleteAll
  BY <1>4 DEF DeleteAll, Return
<1> QED
  BY <1>1, <1>2, <1>3, <1>4
  DEF Boot, Step, NextItem, Running, AddOpen, AddRefused, AddFails, UpdateOne, UpdateFails, PauseOne,
      PauseUnconfigured, ResumeSkips, ResumeOne, ResumeFails, AddRegister, UpdateConfig, PauseMissing, PauseConfig,
      ResumeMissing, ResumeConfig, SaveOpen, SaveWrite

-----------------------------------------------------------------------------
(* What the agent works on *)

LEMMA SentAgent ==
  ASSUME SIInv, DownInv, SentInv, Step \/ Kill \/ Boot, UNCHANGED <<task, caller>>
  PROVE  SentInv'
<1> SUFFICES ASSUME NEW p \in Handlers, caller = p
             PROVE  /\ Goal(p) = "sync" => SyncSent(p)'
                    /\ Controlling(p) => ControlSent(p)'
  BY DEF SentInv, Goal, Controlling
<1>0. IInv /\ phase \in {"idle", "items", "save", "write"} /\ Name(p) \in Services
  BY TasksType, HeadTailProperties DEF SIInv, SyncTypeOK, TaskInv, IInv, TypeOK, CommandTypeOK, Name
<1>1. Goal(p)' = Goal(p) /\ Name(p)' = Name(p)
  BY DEF Goal, Name
<1>2. CASE phase # "items"
  <2>1. phase' # "items" /\ reply' \in {"none", reply}
    BY <1>0, <1>2, RestKept, SaveKept
  <2>2. Goal(p) = "sync" => SyncSent(p)'
    BY <1>2, <2>1 DEF SentInv, SyncSent
  <2>3. Controlling(p) => ControlSent(p)'
    BY <1>1, <1>2, <2>1 DEF SentInv, ControlSent
  <2> QED
    BY <2>2, <2>3
<1>3. CASE phase = "items"
  <2>1. ASSUME Goal(p) = "sync" PROVE SyncSent(p)'
    <3>1. PICK N : N = Names(task[p].rec.protos)
      OBVIOUS
    <3>2. op = "Update" /\ N \subseteq done \cup Names(todo)
      BY <1>3, <2>1, <3>1 DEF SentInv, SyncSent
    <3>3. \/ phase' = "items" /\ op' = "Update" /\ N \subseteq done' \cup Names(todo')
          \/ phase' # "items" /\ reply' \in {"none", "ok", "inuse"}
      BY <1>0, <1>3, <3>2, UpdateStep DEF Dropped
    <3>4. N = Names(task'[p].rec.protos)
      BY <3>1
    <3>5. SyncSent(p)' <=> /\ phase' = "items" => op' = "Update" /\ N \subseteq done' \cup Names(todo')
                           /\ phase' # "items" => reply' \in {"none", "ok", "inuse"}
      BY <3>4 DEF SyncSent, Names
    <3> QED
      BY <3>3, <3>5
  <2>2. ASSUME Controlling(p) PROVE ControlSent(p)'
    <3>1. op = Kind(Goal(p)) /\ About(Name(p))
      BY <1>3, <2>2 DEF SentInv, ControlSent, About
    <3>2. PICK s : s = Name(p)
      OBVIOUS
    <3>c. ControlSent(p)' <=>
            /\ phase' = "items" => /\ op' = Kind(Goal(p))
                                   /\ (todo' = <<s>> /\ done' = {}) \/ (todo' = <<>> /\ done' \subseteq {s})
            /\ phase' # "items" => /\ reply' = "inuse" => Goal(p) \in {"Resume", "Resume again"}
                                   /\ reply' = "notfound" => Goal(p) # "Delete"
                                   /\ reply' # "exists"
      BY <1>1, <3>2 DEF ControlSent, Kind
    <3>3. ASSUME Unmoved PROVE ControlSent(p)'
      BY <3>1, <3>2, <3>3, <3>c DEF Unmoved, About
    <3>4. ASSUME Dropped PROVE ControlSent(p)'
      BY <3>4, <3>c DEF Dropped
    <3>5. CASE Goal(p) \in Pauses
      <4>1. op = "Pause"
        BY <3>1, <3>5 DEF Kind, Pauses
      <4>2. PauseMakes(s)
        BY <1>0, <1>3, <3>1, <3>2, <4>1, PauseStep
      <4> QED
        BY <3>1, <3>3, <3>4, <3>5, <3>c, <4>1, <4>2 DEF PauseMakes, Pauses
    <3>6. CASE Goal(p) \in {"Resume", "Resume again"}
      <4>1. op = "Resume"
        BY <3>1, <3>6 DEF Kind
      <4>2. ResumeMakes(s)
        BY <1>0, <1>3, <3>1, <3>2, <4>1, ResumeStep
      <4> QED
        BY <3>1, <3>3, <3>4, <3>6, <3>c, <4>1, <4>2 DEF ResumeMakes
    <3>7. CASE Goal(p) = "Delete"
      <4>1. op = "Delete"
        BY <3>1, <3>7 DEF Kind
      <4>2. \/ phase' = "items" /\ UNCHANGED <<op, todo, done>>
            \/ phase' # "items" /\ reply' \in {"none", "ok"}
        BY <1>0, <1>3, <4>1, DeleteStep
      <4> QED
        BY <3>1, <3>2, <3>7, <3>c, <4>1, <4>2 DEF About
    <3> QED
      BY <2>2, <3>5, <3>6, <3>7 DEF Controlling, Pauses
  <2> QED
    BY <2>1, <2>2
<1> QED
  BY <1>2, <1>3

LEMMA SentSends ==
  ASSUME SIInv, NEW p \in Handlers, Send(p)
  PROVE  SentInv'
<1>0. phase' = "items" /\ op' = Kind(Goal(p)) /\ todo' = List(p) /\ done' = {} /\ caller' = p /\ task' = task
  BY DEF Send, Receive
<1>1. Goal(p) = "sync" => SyncSent(p)'
  <2>1. ASSUME Goal(p) = "sync" PROVE op' = "Update" /\ todo' = task[p].rec.protos
    BY <1>0, <2>1 DEF Kind, List
  <2> QED
    BY <1>0, <2>1 DEF SyncSent, Names
<1>2. Controlling(p) => ControlSent(p)'
  <2>1. ASSUME Controlling(p) PROVE todo' = <<Name(p)>>
    BY <1>0, <2>1 DEF List, Controlling, Name
  <2>2. Kind(Goal(p))' = Kind(Goal(p)) /\ Name(p)' = Name(p)
    BY <1>0 DEF Kind, Goal, Name
  <2> QED
    BY <1>0, <2>1, <2>2 DEF ControlSent
<1> QED
  BY <1>0, <1>1, <1>2 DEF SentInv, Goal, Controlling

LEMMA SentNext == SIInv /\ DownInv /\ SentInv /\ [SyncNext]_syncVars => SentInv'
<1> SUFFICES ASSUME SIInv, DownInv, SentInv, [SyncNext]_syncVars PROVE SentInv'
  OBVIOUS
<1>1. ASSUME NEW p \in Handlers, Send(p) PROVE SentInv'
  BY <1>1, SentSends
<1>2. CASE AgentNext
  BY <1>2, SentAgent DEF AgentNext, panel
<1>3. ASSUME NEW p \in Handlers, caller' = p, caller = p, task'[p] = task[p], UNCHANGED agent
      PROVE  /\ Goal(p)' = "sync" => SyncSent(p)'
             /\ Controlling(p)' => ControlSent(p)'
  <2>1. Goal(p)' = Goal(p) /\ Name(p)' = Name(p)
    BY <1>3 DEF Goal, Name
  <2>2. UNCHANGED <<phase, op, todo, done, reply>>
    BY <1>3 DEF agent, vars, command
  <2>3. (Controlling(p)' <=> Controlling(p)) /\ (SyncSent(p)' <=> SyncSent(p)) /\ (ControlSent(p)' <=> ControlSent(p))
    BY <1>3, <2>1, <2>2 DEF Controlling, SyncSent, ControlSent, Kind, Names
  <2> QED
    BY <1>3, <2>1, <2>3 DEF SentInv
<1>4. CASE ~AgentNext /\ \A p \in Handlers : ~Send(p)
  BY <1>3, <1>4, CallerKept DEF SentInv
<1> QED
  BY <1>1, <1>2, <1>4

-----------------------------------------------------------------------------
(* A pause *)

LEMMA StaysKept ==
  ASSUME IInv, Step \/ Kill \/ Boot, phase # "items", "boot" \notin mishaps', NEW s \in Services, Stays(s)
  PROVE  Stays(s)'
<1>0. config \in Configs /\ disk \in Configs /\ reg \in [Services -> {"none", "serving", "closed"}]
  BY DEF IInv, TypeOK, ConfigTypeOK, RegistryTypeOK
<1>1. CASE Kill
  BY <1>1 DEF Kill, files, NoServices, NoConfig, Stays, Halted
<1>2. CASE Boot
  <2>1. disk.paused = {} /\ disk.entries[s] # 1
    BY <1>2 DEF Boot, Stays
  <2>2. reg'[s] = "none" /\ config' = disk /\ disk' = disk
    BY <1>2, <2>1 DEF Boot, files
  <2> QED
    BY <2>1, <2>2 DEF Stays, Halted
<1>3. CASE SaveOpen \/ SaveWrite \/ \E t \in Services : Collect(t)
  BY <1>3 DEF SaveOpen, SaveWrite, Collect, registry, files, Stays, Halted
<1> QED
  BY <1>1, <1>2, <1>3
  DEF Step, NextItem, Running, AddOpen, AddRefused, AddFails, UpdateOne, UpdateFails, PauseOne, PauseUnconfigured,
      ResumeSkips, ResumeOne, ResumeFails, AddRegister, UpdateConfig, DeleteAll, PauseMissing, PauseConfig,
      ResumeMissing, ResumeConfig

\* The pause of t leaves s as it is, or paused as well.
LEMMA StaysPausing ==
  ASSUME IInv, NEW s \in Services, NEW t \in Services, Stays(s), PauseMakes(t)
  PROVE  Stays(s)'
<1>0. config \in Configs /\ reg \in [Services -> {"none", "serving", "closed"}]
  BY DEF IInv, TypeOK, ConfigTypeOK, RegistryTypeOK
<1>1. ASSUME UNCHANGED <<reg, config, disk>> PROVE Stays(s)'
  BY <1>1 DEF Stays, Halted
<1>2. ASSUME Dropped PROVE Stays(s)'
  BY <1>2 DEF Dropped, NoServices, NoConfig, Stays, Halted
<1>3. ASSUME reg' = [reg EXCEPT ![t] = "closed"], UNCHANGED <<config, disk>> PROVE Stays(s)'
  BY <1>0, <1>3 DEF Stays, Halted
<1>4. ASSUME config' = [config EXCEPT !.paused = @ \cup done], UNCHANGED <<reg, disk>> PROVE Stays(s)'
  <2>1. config'.entries = config.entries /\ config.paused \subseteq config'.paused
    BY <1>0, <1>4 DEF Configs
  <2> QED
    BY <1>4, <2>1 DEF Stays, Halted
<1> QED
  BY <1>1, <1>2, <1>3, <1>4 DEF PauseMakes, Unmoved

\* What the agent answers to a pause is true of the name.
LEMMA HaltedAfter ==
  ASSUME IInv, KeptInv, "Update" \notin mishaps, phase = "items", op = "Pause", NEW s \in Services, PauseMakes(s),
         \A t \in done : reg[t] = "closed", todo = <<>> => done = {s}
  PROVE  /\ phase' = "items" => \A t \in done' : reg'[t] = "closed"
         /\ phase' = "items" /\ todo' = <<>> => done' = {s}
         /\ phase' # "items" /\ reply' # "none" => Halted(s)'
<1>0. /\ config \in Configs /\ config.entries \in [Services -> Nat]
      /\ reg \in [Services -> {"none", "serving", "closed"}] /\ Kept(s)
  BY DEF IInv, TypeOK, ConfigTypeOK, RegistryTypeOK, KeptInv, Configs
<1>1. CASE Unmoved \/ Dropped
  BY <1>1 DEF Unmoved, Dropped
<1>2. CASE phase' = "items" /\ done' = {s} /\ reg' = [reg EXCEPT ![s] = "closed"]
  BY <1>0, <1>2
<1>3. CASE /\ phase' = "save" /\ reply' = "notfound" /\ UNCHANGED <<reg, config>>
           /\ reg[s] = "none" \/ config.entries[s] = 0
  BY <1>0, <1>3 DEF Kept, Halted
<1>4. CASE todo = <<>> /\ phase' = "save" /\ config' = [config EXCEPT !.paused = @ \cup done] /\ reg' = reg
  <2>1. config'.paused = config.paused \cup done
    BY <1>0, <1>4 DEF Configs
  <2> QED
    BY <1>4, <2>1 DEF Halted
<1> QED
  BY <1>1, <1>2, <1>3, <1>4 DEF PauseMakes

LEMMA PauseAgent ==
  ASSUME SIInv, DownInv, KeptInv, SentInv, PauseInv, Step \/ Kill \/ Boot, UNCHANGED panel, Unbroken'
  PROVE  PauseInv'
<1>0. IInv /\ Unbroken /\ "boot" \notin mishaps' /\ UNCHANGED <<task, caller>> /\ task \in [Handlers -> Tasks]
      /\ phase \in {"idle", "items", "save", "write"} /\ "Update" \notin mishaps
  BY MishapsNext DEF SIInv, SyncTypeOK, AgentStep, Unbroken, panel, IInv, TypeOK, CommandTypeOK
<1> SUFFICES ASSUME NEW p \in Handlers PROVE PausingIs(p)' /\ PausedIs(p)'
  BY DEF PauseInv
<1>n. Name(p) \in Services /\ Passed(p) \subseteq Services /\ Name(p)' = Name(p) /\ Passed(p)' = Passed(p)
      /\ Goal(p)' = Goal(p)
  BY <1>0, TasksType, HeadTailProperties DEF SIInv, SyncTypeOK, TaskInv, Name, Passed, Goal, Names
<1>1. PausedIs(p)'
  <2>1. ASSUME task[p].goals = <<>>, Silences(p) PROVE phase' = "idle" /\ \A s \in Services : Stays(s)'
    <3>1. phase = "idle" /\ \A s \in Services : Stays(s)
      BY <1>0, <2>1 DEF PauseInv, PausedIs
    <3> QED
      BY <1>0, <3>1, StaysKept, RestKept
  <2> QED
    BY <1>0, <2>1 DEF PausedIs, Silences
<1>2. ASSUME task[p].goals # <<>>, Goal(p) \in Pauses PROVE PauseIs(p)'
  <2>0. PauseIs(p)
    BY <1>0, <1>2 DEF PauseInv, PausingIs
  <2>1. CASE caller # p
    <3>1. CASE Passed(p) = {}
      BY <1>0, <1>n, <2>1, <3>1 DEF PauseIs
    <3>2. CASE phase = "idle"
      <4>1. phase' = "idle" /\ \A s \in Passed(p) : Stays(s)'
        BY <1>0, <1>n, <2>0, <3>2, StaysKept, RestKept DEF PauseIs
      <4> QED
        BY <1>0, <1>n, <2>1, <4>1 DEF PauseIs
    <3> QED
      BY <2>0, <2>1, <3>1, <3>2 DEF PauseIs
  <2>2. CASE caller = p /\ phase # "items"
    <3>1. \A s \in Passed(p) : Stays(s)'
      BY <1>0, <1>n, <2>0, <2>2, StaysKept DEF PauseIs
    <3>2. phase' # "items" /\ (reply' # "none" => reply' = reply /\ UNCHANGED <<reg, config>>)
      BY <1>0, <2>2, RestKept, SaveKept
    <3>3. reply' # "none" => Halted(Name(p))'
      BY <1>n, <2>0, <2>2, <3>2 DEF PauseIs, Halted
    <3> QED
      BY <1>0, <1>n, <2>2, <3>1, <3>2, <3>3 DEF PauseIs
  <2>3. CASE caller = p /\ phase = "items"
    <3>1. op = "Pause" /\ About(Name(p))
      BY <1>2, <2>3 DEF SentInv, ControlSent, Controlling, Pauses, Kind, About
    <3>2. PICK s \in Services : s = Name(p)
      BY <1>n
    <3>3. PauseMakes(s)
      BY <1>0, <2>3, <3>1, <3>2, PauseStep
    <3>4. \A t \in Passed(p) : Stays(t)'
      BY <1>0, <1>n, <2>0, <3>3, StaysPausing DEF PauseIs
    <3>5. /\ phase' = "items" => \A t \in done' : reg'[t] = "closed"
          /\ phase' = "items" /\ todo' = <<>> => done' = {s}
          /\ phase' # "items" /\ reply' # "none" => Halted(s)'
      BY <1>0, <2>0, <2>3, <3>1, <3>2, <3>3, HaltedAfter DEF PauseIs
    <3>6. Halted(Name(p))' <=> Halted(s)'
      BY <1>n, <3>2 DEF Halted
    <3> QED
      BY <1>0, <1>n, <2>3, <3>2, <3>4, <3>5, <3>6 DEF PauseIs
  <2> QED
    BY <2>1, <2>2, <2>3
<1> QED
  BY <1>0, <1>n, <1>1, <1>2 DEF PausingIs

\* An answer of the agent reaches p when the agent is done.
LEMMA Heard ==
  ASSUME SIInv, NEW p \in Handlers, NEW r, r # "lost", Gets(p, r)
  PROVE  /\ caller = p /\ caller' = "none" /\ caller' # p /\ task[p].goals # <<>>
         /\ up /\ phase = "idle" /\ reply = r /\ r # "none" /\ disk = config
         /\ trouble' = trouble
         /\ UNCHANGED <<up, reg, config, disk, phase, op, todo, done, reply, mishaps>>
<1>1. Hears(p, r)
  BY DEF Gets, Loses
<1> QED
  BY <1>1, ForwardAssumption
  DEF Gets, Hears, AtRest, SIInv, IInv, FileInv, agent, vars, registry, files, command

LEMMA NotLost ==
  ASSUME SIInv, NEW p \in Handlers, Gets(p, "lost")
  PROVE  "lost" \in trouble'
<1>1. reply # "lost"
  BY DEF SIInv, SyncTypeOK, TypeOK, CommandTypeOK
<1> QED
  BY <1>1 DEF Gets, Hears, Loses

\* The last name of a list is where p's control is.
LEMMA LastName ==
  ASSUME SIInv, NEW p \in Handlers, Len(task[p].queue) = 1
  PROVE  Services \subseteq Passed(p) \cup {Name(p)}
BY NamesOne, TasksType DEF SIInv, SyncTypeOK, Passed, Name

LEMMA NextPassed ==
  ASSUME SIInv, NEW p \in Handlers, NEW handled, NextName(p, handled)
  PROVE  Passed(p)' \subseteq Passed(p) \cup {Name(p)}
<1>1. task[p].queue \in Seq(Services) /\ task[p].queue # <<>>
  BY TasksType DEF SIInv, SyncTypeOK, TaskInv
<1>2. Names(task[p].queue) \subseteq Names(Tail(task[p].queue)) \cup {Name(p)}
  BY <1>1, NamesTail DEF Name
<1>3. Passed(p)' = Services \ Names(Tail(task[p].queue))
  BY NextNameTask DEF Passed
<1> QED
  BY <1>2, <1>3 DEF Passed

LEMMA AnewPassed ==
  ASSUME NEW p \in Handlers, task'[p].queue = Variants
  PROVE  Passed(p)' = {}
BY ForwardAssumption DEF Passed

\* A handler that pauses has paused the name that is answered.
LEMMA PauseHeard ==
  ASSUME SIInv, PauseInv, Unbroken, NEW p \in Handlers, NEW r, r # "lost", Gets(p, r), Goal(p) \in Pauses
  PROVE  phase' = "idle" /\ \A s \in Passed(p) \cup {Name(p)} : Stays(s)'
<1>1. PauseIs(p)
  BY Heard DEF PauseInv, PausingIs
<1>2. Halted(Name(p)) /\ disk = config
  BY <1>1, Heard DEF PauseIs
<1>3. \A s \in Passed(p) \cup {Name(p)} : Stays(s)
  BY <1>1, <1>2 DEF PauseIs, Stays, Halted
<1> QED
  BY <1>3, Heard DEF Stays, Halted

\* What a handler ends with if its request is a pause of some kind.
LEMMA LastGoal ==
  ASSUME SIInv, GoalsInv, NEW p \in Handlers, task[p].goals # <<>>, Rest(p) = <<>>, Silences(p)
  PROVE  Goal(p) \in LastOf(task[p].job)
<1>1. task[p].goals \in Seq(Goals)
  BY TasksType DEF SIInv, SyncTypeOK
<1>2. Final(task[p].goals) = Goal(p)
  BY <1>1, FinalTail DEF Rest, Goal
<1> QED
  BY <1>2 DEF GoalsInv, GoalsIs, Silences, Silencers

LEMMA PauseHandles ==
  ASSUME SIInv, GoalsInv, AloneInv, PauseInv, Unbroken, NEW p \in Handlers, Handle(p), ~Send(p)
  PROVE  PausingIs(p)' /\ PausedIs(p)'
<1>0. ~Idle(p) /\ task[p].job # "none" /\ "none" \notin Handlers /\ PortsInv
  BY HandleOthers, ForwardAssumption DEF Idle, SIInv
<1>e. task'[p] = NoTask => PausingIs(p)' /\ PausedIs(p)'
  BY DEF NoTask, PausingIs, PausedIs, Silences, Silencers
<1>b. RollBack(p) => PausingIs(p)' /\ PausedIs(p)'
  <2>1. ASSUME RollBack(p) PROVE task'[p].goals # <<>> /\ Goal(p)' = "sync"
    BY <2>1, RollBackTask DEF Goal
  <2> QED
    BY <2>1 DEF PausingIs, PausedIs, Pauses
<1>u. GiveUp(p) => PausingIs(p)' /\ PausedIs(p)'
  BY <1>e, <1>b, GiveUpTask
<1>p. ASSUME NEW goals, Pursue(p, goals), caller' # p,
             goals = <<>> /\ Silences(p) => phase' = "idle" /\ \A s \in Services : Stays(s)'
      PROVE  PausingIs(p)' /\ PausedIs(p)'
  <2>1. Silences(p)' <=> Silences(p)
    BY <1>p, PursueTask DEF Silences
  <2>2. PausedIs(p)'
    BY <1>p, <2>1, PursueTask DEF PausedIs
  <2>3. Passed(p)' = {}
    BY <1>p, PursueTask, AnewPassed
  <2>4. PauseIs(p)'
    BY <1>p, <2>3 DEF PauseIs
  <2> QED
    BY <2>2, <2>4 DEF PausingIs
<1>l. ASSUME task[p].goals # <<>>, Goal(p) \notin Pauses,
             Goal(p) \in {"sync", "add", "readd"} => task[p].rec.status = 1
      PROVE  ~(Rest(p) = <<>> /\ Silences(p))
  BY <1>l, LastGoal DEF LastOf, Silences, Forwards
<1>g. ASSUME NEW r, Gets(p, r) PROVE caller' # p /\ task[p].goals # <<>>
  BY <1>0, <1>g DEF Gets
<1>r. ASSUME task[p].goals # <<>>
      PROVE  /\ <<"Pause">> \o Rest(p) # <<>>
             /\ <<"add">> \o Rest(p) # <<>> /\ <<"clear", "readd">> \o Rest(p) # <<>>
             /\ <<"sync", "Pause again">> \o Rest(p) # <<>> /\ <<"sync", "Resume again">> \o Rest(p) # <<>>
  <2>1. Rest(p) \in Seq(Goals)
    BY <1>r, RestType DEF SIInv, SyncTypeOK
  <2>2. /\ <<"Pause">> \in Seq(Goals)
        /\ <<"add">> \in Seq(Goals) /\ <<"clear", "readd">> \in Seq(Goals)
        /\ <<"sync", "Pause again">> \in Seq(Goals) /\ <<"sync", "Resume again">> \in Seq(Goals)
    BY DEF Goals
  <2> QED
    BY <2>1, <2>2, FinalBefore, FinalShort
<1>1. CASE Synced(p)
  <2>1. caller' # p /\ task[p].goals # <<>> /\ Goal(p) \in {"sync", "add", "readd"}
    BY <1>1, <1>g DEF Synced
  <2>2. CASE task[p].rec.status = 1
    <3>1. Pursue(p, Rest(p))
      BY <1>1, <2>2 DEF Synced
    <3> QED
      BY <1>p, <1>l, <2>1, <2>2, <3>1 DEF Pauses
  <2>3. CASE task[p].rec.status # 1
    <3>1. Pursue(p, <<"Pause">> \o Rest(p))
      BY <1>1, <2>3 DEF Synced
    <3> QED
      BY <1>p, <1>r, <2>1, <3>1
  <2> QED
    BY <2>2, <2>3
<1>2. CASE FallBack(p)
  BY <1>2, <1>p, <1>r, <1>g DEF FallBack
<1>3. CASE Rebind(p)
  BY <1>3, <1>p, <1>r, <1>g DEF Rebind
<1>4. CASE Heal(p)
  <2>1. CASE Goal(p) = "Pause"
    BY <1>4, <1>p, <1>r, <1>g, <2>1 DEF Heal
  <2>2. CASE Goal(p) = "Resume"
    BY <1>4, <1>p, <1>r, <1>g, <2>2 DEF Heal
  <2> QED
    BY <1>4, <2>1, <2>2 DEF Heal
<1>5. CASE Clear(p)
  <2>1. caller' # p /\ task[p].goals # <<>> /\ Goal(p) = "clear"
    BY <1>5, <1>g DEF Clear
  <2>2. CASE NextName(p, FALSE)
    <3>1. task'[p].goals # <<>> /\ Goal(p)' = "clear"
      BY <2>1, <2>2, NextNameTask DEF Goal
    <3> QED
      BY <3>1 DEF PausingIs, PausedIs, Pauses
  <2>3. CASE Pursue(p, Rest(p))
    BY <1>p, <1>l, <2>1, <2>3 DEF Pauses
  <2> QED
    BY <1>5, <2>2, <2>3 DEF Clear
<1>6. CASE ControlName(p)
  <2>1. PICK r \in {"ok", "notfound"} : Gets(p, r) /\ NextName(p, task[p].handled \/ r = "ok")
    BY <1>6 DEF ControlName
  <2>2. task'[p].goals = task[p].goals /\ task[p].goals # <<>> /\ Goal(p)' = Goal(p) /\ caller' # p
    BY <1>g, <2>1, NextNameTask DEF Goal
  <2>3. ASSUME Goal(p) \in Pauses PROVE PauseIs(p)'
    <3>1. phase' = "idle" /\ \A s \in Passed(p) \cup {Name(p)} : Stays(s)'
      BY <2>1, <2>3, PauseHeard
    <3>2. Passed(p)' \subseteq Passed(p) \cup {Name(p)}
      BY <2>1, NextPassed
    <3> QED
      BY <2>2, <3>1, <3>2 DEF PauseIs
  <2> QED
    BY <2>2, <2>3 DEF PausingIs, PausedIs
<1>7. CASE ControlDone(p)
  <2>1. PICK r \in {"ok", "notfound"} : Gets(p, r)
    BY <1>7 DEF ControlDone
  <2>2. Pursue(p, Rest(p)) /\ Len(task[p].queue) = 1 /\ caller' # p /\ task[p].goals # <<>> /\ Controlling(p)
    BY <1>7, <1>g DEF ControlDone
  <2>3. ASSUME Rest(p) = <<>>, Silences(p) PROVE phase' = "idle" /\ \A s \in Services : Stays(s)'
    <3>1. Goal(p) \in Pauses
      BY <1>l, <2>2, <2>3 DEF Controlling
    <3>2. phase' = "idle" /\ \A s \in Passed(p) \cup {Name(p)} : Stays(s)'
      BY <2>1, <3>1, PauseHeard
    <3> QED
      BY <2>2, <3>2, LastName
  <2> QED
    BY <1>p, <2>2, <2>3
<1>8. CASE Refused(p)
  BY <1>8, <1>u DEF Refused
<1>9. CASE Portless(p)
  <2>1. caller' # p
    BY <1>9 DEF Portless
  <2>2. CASE Pursue(p, Rest(p))
    <3>1. ASSUME Silences(p) PROVE FALSE
      <4>1. task[p].job # "report"
        BY <3>1 DEF Silences, Silencers
      <4>2. fwd.state = "there"
        BY <1>0, <4>1 DEF Unbroken, AloneInv, AloneIs
      <4> QED
        BY <1>0, <1>9, <4>2 DEF PortsInv, Portless, NoPorts
    <3> QED
      BY <1>p, <2>1, <2>2, <3>1
  <2> QED
    BY <1>9, <1>u, <2>2 DEF Portless
<1>10. CASE Purged(p)
  BY <1>10, <1>e, EndMoves DEF Purged
<1>11. CASE Store(p)
  <2>1. CASE fwd.state = "there"
    <3>1. task[p].goals = <<"store", "sync">>
      <4>1. task[p].goals # <<>> /\ Goal(p) = "store"
        BY <1>11 DEF Store
      <4>2. task[p].goals \in Seq(Goals \ {"store"}) => Goal(p) # "store"
        BY <4>1, HeadTailProperties DEF Goal
      <4> QED
        BY <4>1, <4>2 DEF GoalsInv, GoalsIs
    <3>2. Rest(p) = <<"sync">>
      BY <3>1 DEF Rest
    <3>3. task'[p].goals # <<>> /\ Goal(p)' = "sync"
      BY <1>11, <2>1, <3>2, StoreTask DEF Goal
    <3> QED
      BY <3>3 DEF PausingIs, PausedIs, Pauses
  <2> QED
    BY <1>11, <1>b, <2>1 DEF Store
<1>12. CASE Finish(p)
  BY <1>12, <1>e, EndMoves DEF Finish
<1> QED
  BY <1>1, <1>2, <1>3, <1>4, <1>5, <1>6, <1>7, <1>8, <1>9, <1>10, <1>11, <1>12
  DEF Handle

LEMMA PauseSends ==
  ASSUME SIInv, PauseInv, Unbroken, NEW p \in Handlers, Send(p)
  PROVE  PausingIs(p)' /\ PausedIs(p)'
<1>1. /\ UNCHANGED <<task, reg, config, disk>> /\ caller' = p /\ phase' = "items" /\ done' = {}
      /\ todo' = List(p) /\ task[p].goals # <<>>
  BY DEF Send, Sending, Receive, registry, files
<1>2. ASSUME Goal(p) \in Pauses PROVE PauseIs(p)'
  <2>1. \A s \in Passed(p) : Stays(s)'
    BY <1>1, <1>2 DEF PauseInv, PausingIs, PauseIs, Stays, Halted
  <2>2. Passed(p)' = Passed(p)
    BY <1>1 DEF Passed
  <2>3. todo' # <<>>
    BY <1>1, <1>2 DEF List, Pauses
  <2> QED
    BY <1>1, <2>1, <2>2, <2>3 DEF PauseIs
<1> QED
  BY <1>1, <1>2 DEF PausingIs, PausedIs, Goal

LEMMA PauseNext ==
  SIInv /\ DownInv /\ MetInv /\ KeptInv /\ SentInv /\ GoalsInv /\ AloneInv /\ PauseInv /\ [SyncNext]_syncVars
    => PauseInv'
<1> SUFFICES ASSUME SIInv, DownInv, MetInv, KeptInv, SentInv, GoalsInv, AloneInv, PauseInv, [SyncNext]_syncVars,
                    Unbroken'
             PROVE  PauseInv'
  BY DEF PauseInv
<1>0. \A q \in Handlers : Idle(q) => task[q].goals = <<>>
  BY DEF SIInv, TaskInv
<1>i. ASSUME NEW q \in Handlers, task'[q].job = "none", task'[q].goals = <<>> PROVE PausingIs(q)' /\ PausedIs(q)'
  BY <1>i DEF PausingIs, PausedIs, Silences, Silencers
<1>1. CASE UNCHANGED syncVars
  BY <1>1
  DEF syncVars, agent, vars, panel, registry, files, command, PauseInv, PausingIs, PausedIs, PauseIs, Passed, Name,
      Names, Goal, Silences, Stays, Halted, Unbroken
<1>2. CASE AgentNext
  BY <1>2, PauseAgent DEF AgentNext
<1>3. CASE ForceDelete
  BY <1>0, <1>3, <1>i DEF ForceDelete, Met, Idle, Unbroken, PauseInv
<1>4. ASSUME NEW p \in Handlers, Asked(p) \/ Report(p) PROVE PauseInv'
  <2>1. \A q \in Handlers \ {p} : Idle(q) /\ task'[q] = task[q]
    BY <1>4, AskedOthers DEF Met, Unbroken
  <2>2. ASSUME NEW j, NEW goals, Begins(p, j, goals), goals # <<>> PROVE PausingIs(p)' /\ PausedIs(p)'
    <3>1. Passed(p)' = {} /\ caller' # p /\ task'[p].goals # <<>>
      BY <2>2, BeginsTask, AnewPassed
    <3>2. PauseIs(p)'
      BY <3>1 DEF PauseIs
    <3> QED
      BY <3>1, <3>2 DEF PausingIs, PausedIs
  <2>3. PausingIs(p)' /\ PausedIs(p)'
    BY <1>4, <2>2 DEF Asked, Create, Request, Report
  <2> QED
    BY <1>0, <1>i, <2>1, <2>3 DEF PauseInv, Idle
<1>5. ASSUME NEW p \in Handlers, Handle(p) PROVE PauseInv'
  <2>1. AgentStep \/ UNCHANGED agent
    BY <1>5, SendReceives, HandleKinds DEF Gets
  <2>2. Unbroken
    BY <1>5, <2>1, HandleOthers, MishapsNext DEF Unbroken, agent, vars
  <2>3. \A q \in Handlers \ {p} : Idle(q) /\ task'[q] = task[q]
    BY <1>5, <2>2, HandleOthers DEF MetInv, Unbroken
  <2>4. PausingIs(p)' /\ PausedIs(p)'
    BY <1>5, <2>2, PauseSends, PauseHandles
  <2> QED
    BY <1>0, <1>i, <2>3, <2>4 DEF PauseInv, Idle
<1> QED
  BY <1>1, <1>2, <1>3, <1>4, <1>5 DEF SyncNext

-----------------------------------------------------------------------------
(* What is shown *)

\* What is on the agent stays there, unless it is added or deleted.
LEMMA PresentKept ==
  ASSUME IInv, Step \/ Kill \/ Boot, mishaps' \cap {"Update", "Resume"} = {},
         phase = "items" => op \in {"Update", "Pause", "Resume"}, NEW s \in Services, Present(s)
  PROVE  Present(s)'
<1>0. /\ config \in Configs /\ config.entries \in [Services -> Nat] /\ disk \in Configs
      /\ reg \in [Services -> {"none", "serving", "closed"}] /\ (phase = "items" => up)
  BY DEF IInv, TypeOK, ConfigTypeOK, RegistryTypeOK, Configs, FileInv
<1>1. CASE Kill
  BY <1>1 DEF Kill, files, Present
<1>2. CASE Boot
  BY <1>2 DEF Boot, files, Present
<1>3. CASE SaveOpen \/ \E t \in Services : Collect(t)
  BY <1>3 DEF SaveOpen, Collect, registry, files, Present
<1>4. CASE SaveWrite
  <2>1. up
    BY <1>4 DEF IInv, FileInv, SaveWrite
  <2> QED
    BY <1>4, <2>1 DEF SaveWrite, registry, Present
<1>5. ASSUME UNCHANGED <<up, config, disk>>, reg'[s] # "none" \/ reg' = reg PROVE Present(s)'
  BY <1>5 DEF Present
<1>6. ASSUME NEW t \in Services, UpdateOne(t) \/ ResumeOne(t) PROVE Present(s)'
  <2>1. UNCHANGED <<up, config, disk>> /\ reg' = [reg EXCEPT ![t] = "serving"]
    BY <1>6 DEF UpdateOne, ResumeOne, files
  <2>2. reg'[s] # "none" \/ ~up
    BY <1>0, <2>1 DEF Present
  <2> QED
    BY <2>1, <2>2 DEF Present
<1>7. ASSUME NEW t \in Services, PauseOne(t) PROVE Present(s)'
  <2>1. UNCHANGED <<up, config, disk>> /\ reg' = [reg EXCEPT ![t] = "closed"]
    BY <1>7 DEF PauseOne, files
  <2>2. reg'[s] # "none" \/ ~up
    BY <1>0, <2>1 DEF Present
  <2> QED
    BY <2>1, <2>2 DEF Present
<1>8. ASSUME NEW t \in Services, UpdateFails(t) \/ ResumeFails(t) PROVE FALSE
  BY <1>8 DEF UpdateFails, ResumeFails, BindFails, Running
<1>9. ASSUME NEW t \in Services, PauseUnconfigured(t) \/ ResumeSkips(t) PROVE Present(s)'
  BY <1>9 DEF PauseUnconfigured, ResumeSkips, registry, files, Present
<1>10. CASE PauseMissing \/ ResumeMissing
  BY <1>10 DEF PauseMissing, ResumeMissing, registry, files, Present
<1>11. ASSUME UNCHANGED <<up, reg, disk>>, config'.entries[s] = config.entries[s] \/ config'.entries[s] = 1
       PROVE  Present(s)'
  BY <1>11 DEF Present
<1>12. CASE UpdateConfig
  <2>1. UNCHANGED <<up, reg, disk>>
    BY <1>12 DEF UpdateConfig, registry, files
  <2>2. config'.entries[s] = config.entries[s] \/ config'.entries[s] = 1
    BY <1>12 DEF UpdateConfig, Upserted
  <2> QED
    BY <1>11, <2>1, <2>2
<1>13. CASE PauseConfig \/ ResumeConfig
  <2>1. UNCHANGED <<up, reg, disk>>
    BY <1>13 DEF PauseConfig, ResumeConfig, registry, files
  <2>2. config'.entries = config.entries
    BY <1>0, <1>13 DEF PauseConfig, ResumeConfig, Configs
  <2> QED
    BY <1>11, <2>1, <2>2
<1> QED
  BY <1>1, <1>2, <1>3, <1>4, <1>6, <1>7, <1>8, <1>9, <1>10, <1>12, <1>13
  DEF Step, NextItem, Running, AddOpen, AddRefused, AddFails, AddRegister, DeleteAll

\* What serves goes on to serve, unless it is added, paused or deleted.
LEMMA ServedKept ==
  ASSUME IInv, Step \/ Kill \/ Boot, mishaps' \cap {"Update", "Resume"} = {},
         phase = "items" => op = "Resume", NEW s \in Services, Served(s)
  PROVE  Served(s)'
<1>0. reg \in [Services -> {"none", "serving", "closed"}]
  BY DEF IInv, TypeOK, RegistryTypeOK
<1>1. Present(s)'
  BY PresentKept DEF Served
<1>2. up' => reg'[s] = "serving"
  <2>1. CASE Kill
    BY <2>1 DEF Kill
  <2>2. CASE Boot
    BY <2>2 DEF Boot, Served, Present
  <2>3. ASSUME up' = up, reg' = reg PROVE up' => reg'[s] = "serving"
    BY <2>3 DEF Served
  <2>4. ASSUME NEW t \in Services, ResumeOne(t) PROVE up' => reg'[s] = "serving"
    BY <1>0, <2>4 DEF ResumeOne, Served
  <2>5. ASSUME NEW t \in Services, ResumeFails(t) PROVE FALSE
    BY <2>5 DEF ResumeFails, BindFails, Running
  <2>6. SaveOpen \/ SaveWrite \/ ResumeMissing \/ ResumeConfig => up' = up /\ reg' = reg
    BY DEF SaveOpen, SaveWrite, ResumeMissing, ResumeConfig, registry
  <2>7. ASSUME NEW t \in Services, Collect(t) \/ ResumeSkips(t) PROVE up' = up /\ reg' = reg
    BY <2>7 DEF Collect, ResumeSkips, registry
  <2> QED
    BY <2>1, <2>2, <2>3, <2>4, <2>5, <2>6, <2>7
    DEF Step, NextItem, Running, AddOpen, AddRefused, AddFails, UpdateOne, UpdateFails, PauseOne, PauseUnconfigured,
        AddRegister, UpdateConfig, DeleteAll, PauseMissing, PauseConfig
<1> QED
  BY <1>1, <1>2 DEF Served

\* What serves when the agent has answered is on it for good.
LEMMA ServedAtRest ==
  ASSUME SIInv, up, phase = "idle", mishaps \cap {"Update", "Resume"} = {}, NEW s \in Services, reg[s] = "serving"
  PROVE  Served(s)
<1>1. config.entries[s] = 1
  BY IInvPromises DEF SIInv, RegistryMatchesConfig, AtRest
<1>2. disk = config
  BY DEF SIInv, IInv, FileInv
<1> QED
  BY <1>1, <1>2 DEF Served, Present

\* A forward has services.
LEMMA ShownType ==
  ASSUME SIInv
  PROVE  Shown \subseteq Services /\ Shown # {}
<1>1. fwd.protos \in Seq(Services) /\ fwd.protos # <<>>
  BY ForwardAssumption DEF SIInv, SyncTypeOK, Forwards
<1>2. Head(fwd.protos) \in Names(fwd.protos)
  <2>1. 1 \in DOMAIN fwd.protos /\ Head(fwd.protos) = fwd.protos[1]
    BY <1>1, HeadTailProperties, LenProperties, EmptySeq
  <2> QED
    BY <2>1 DEF Names
<1>3. Names(fwd.protos) \subseteq Services
  BY <1>1 DEF Names
<1> QED
  BY <1>2, <1>3 DEF Shown

\* What Shapes says of a goal.
LEMMA ShapeGoals ==
  ASSUME SIInv, NEW p \in Handlers, ShapeIs(p), task[p].goals # <<>>
  PROVE  /\ Goal(p) \in {"store", "sync", "Pause", "Resume", "Delete", "purge"}
         /\ Goal(p) = "store" => task[p].goals = <<"store", "sync">> /\ task[p].job = "update"
         /\ Goal(p) # "store" => task[p].goals = <<Goal(p)>> /\ Rest(p) = <<>>
         /\ Goal(p) = "sync" => task[p].job \in {"create", "update", "redeploy"}
         /\ Goal(p) = "Pause" => task[p].job \in {"update", "redeploy", "pause", "suspend"}
         /\ Goal(p) = "Resume" => task[p].job = "resume"
         /\ Goal(p) = "Delete" => task[p].job = "delete"
         /\ Goal(p) = "purge" <=> task[p].job = "report"
<1>1. task[p].goals \in Shapes(task[p].job) /\ task[p].job \in Jobs
  BY TasksType DEF SIInv, SyncTypeOK, ShapeIs, Tasks
<1>2. \/ task[p].job \in {"create", "update", "redeploy"} /\ task[p].goals = <<"sync">>
      \/ task[p].job = "update" /\ task[p].goals = <<"store", "sync">>
      \/ task[p].job \in {"update", "redeploy", "pause", "suspend"} /\ task[p].goals = <<"Pause">>
      \/ task[p].job = "resume" /\ task[p].goals = <<"Resume">>
      \/ task[p].job = "delete" /\ task[p].goals = <<"Delete">>
      \/ task[p].job = "report" /\ task[p].goals = <<"purge">>
  BY <1>1 DEF Shapes, Jobs
<1>3. ASSUME NEW g, task[p].goals = <<g>> PROVE Goal(p) = g /\ Rest(p) = <<>>
  BY <1>3 DEF Goal, Rest
<1>4. CASE task[p].job = "update" /\ task[p].goals = <<"store", "sync">>
  BY <1>4 DEF Goal
<1>5. CASE task[p].job \in {"create", "update", "redeploy"} /\ task[p].goals = <<"sync">>
  BY <1>3, <1>5
<1>6. CASE task[p].job \in {"update", "redeploy", "pause", "suspend"} /\ task[p].goals = <<"Pause">>
  BY <1>3, <1>6
<1>7. CASE task[p].job = "resume" /\ task[p].goals = <<"Resume">>
  BY <1>3, <1>7
<1>8. CASE task[p].job = "delete" /\ task[p].goals = <<"Delete">>
  BY <1>3, <1>8
<1>9. CASE task[p].job = "report" /\ task[p].goals = <<"purge">>
  BY <1>3, <1>9
<1> QED
  BY <1>2, <1>4, <1>5, <1>6, <1>7, <1>8, <1>9

\* Nobody else has the agent work.
LEMMA AgentFor ==
  ASSUME SIInv, MetInv, LossInv, Smooth, NEW p \in Handlers, ~Idle(p)
  PROVE  caller # p => phase = "idle"
<1>1. \A q \in Handlers \ {p} : Idle(q) /\ task[q].goals = <<>>
  BY DEF MetInv, SIInv, TaskInv, Smooth
<1>2. caller \in Handlers \cup {"none"}
  BY DEF SIInv, SyncTypeOK
<1> QED
  BY <1>1, <1>2 DEF SIInv, TaskInv, LossInv, Smooth

LEMMA ShowAgent ==
  ASSUME SIInv, DownInv, MetInv, SentInv, AloneInv, LossInv, ShowInv, Step \/ Kill \/ Boot, UNCHANGED panel,
         Smooth', NEW p \in Handlers, ~Idle(p)
  PROVE  ShowIs(p)'
<1>0. /\ IInv /\ Smooth /\ UNCHANGED <<task, caller, fwd>> /\ task \in [Handlers -> Tasks]
      /\ phase \in {"idle", "items", "save", "write"} /\ mishaps' \cap {"Update", "Resume"} = {}
      /\ mishaps \cap {"Update", "Resume"} = {}
  BY MishapsNext DEF SIInv, SyncTypeOK, AgentStep, Smooth, panel, IInv, TypeOK, CommandTypeOK
<1>1. ShowIs(p)
  BY <1>0 DEF ShowInv
<1>2. PICK N : N = Shown
  OBVIOUS
<1>3. PICK s \in Services : s = Name(p)
  BY TasksType, HeadTailProperties DEF SIInv, SyncTypeOK, TaskInv, Name
<1>n. Shown' = N /\ Name(p)' = s /\ Goal(p)' = Goal(p) /\ N \subseteq Services
  BY <1>0, <1>2, <1>3, ShownType DEF Shown, Name, Goal, Names
<1>g. task[p].goals # <<>> =>
        /\ Goal(p) \in {"store", "sync", "Pause", "Resume", "Delete", "purge"}
        /\ task[p].goals \in {<<Goal(p)>>, <<"store", "sync">>}
  BY <1>1, ShapeGoals DEF ShowIs
<1>i. phase = "items" => caller = p /\ task[p].goals # <<>> /\ Goal(p) # "store"
  BY <1>0, AgentFor DEF SIInv, TaskInv
<1>s. phase = "items" /\ Goal(p) = "sync" => op = "Update" /\ N \subseteq done \cup Names(todo)
  <2>1. ASSUME phase = "items", Goal(p) = "sync" PROVE op = "Update" /\ N \subseteq done \cup Names(todo)
    <3>1. task[p].job # "report"
      BY <1>1, <1>i, <2>1, ShapeGoals DEF ShowIs
    <3>2. task[p].rec = fwd
      BY <1>0, <3>1 DEF AloneInv, AloneIs, Smooth
    <3>3. SyncSent(p)
      BY <1>i, <2>1 DEF SentInv
    <3> QED
      BY <1>2, <2>1, <3>2, <3>3 DEF SyncSent, Shown
  <2> QED
    BY <2>1
<1>c. ASSUME phase = "items", Goal(p) \in {"Pause", "Resume"} PROVE op = Goal(p) /\ About(s)
  <2>1. ControlSent(p)
    BY <1>c, <1>i DEF SentInv, Controlling
  <2> QED
    BY <1>3, <1>c, <2>1 DEF ControlSent, About, Kind
<1>r. phase # "items" => phase' # "items" /\ (reply' # "none" => reply' = reply /\ UNCHANGED <<reg, config>>)
  BY <1>0, RestKept, SaveKept
<1>o. ~Making(p) => (phase = "items" => op \in {"Update", "Pause", "Resume"})
  BY <1>1, <1>c, <1>i, <1>s, ShapeGoals DEF ShowIs, Making
<1>p. ~Making(p) => \A t \in N : Present(t)
  BY <1>1, <1>2 DEF ShowIs, ShapeIs
<1>4. ShapeIs(p)'
  <2>1. ~Making(p) => \A t \in N : Present(t)'
    BY <1>0, <1>n, <1>o, <1>p, PresentKept
  <2> QED
    BY <1>0, <1>1, <1>n, <2>1 DEF ShowIs, ShapeIs, Making
<1>5. SyncIs(p)'
  <2>1. ASSUME task[p].goals = <<"sync">>, caller = p, phase' # "items", reply' # "none"
        PROVE  reply' = "ok" /\ \A t \in N : reg'[t] = "serving"
    <3>1. Goal(p) = "sync"
      BY <2>1 DEF Goal
    <3>2. CASE phase = "items"
      <4>1. \/ phase' = "items" /\ op' = "Update" /\ N \subseteq done' \cup Names(todo')
            \/ Dropped
            \/ phase' = "save" /\ reply' = "inuse" /\ "Update" \in mishaps'
            \/ phase' = "save" /\ reply' = "ok" /\ \A t \in N : reg'[t] = "serving"
        BY <1>0, <1>s, <3>1, <3>2, UpdateStep
      <4> QED
        BY <1>0, <2>1, <4>1 DEF Dropped
    <3>3. CASE phase # "items"
      BY <1>1, <1>2, <1>r, <2>1, <3>3 DEF ShowIs, SyncIs
    <3> QED
      BY <3>2, <3>3
  <2> QED
    BY <1>0, <1>n, <2>1 DEF SyncIs
<1>m. task[p].goals \in {<<"Pause">>, <<"Resume">>} => Goal(p) \in {"Pause", "Resume"} /\ ~Making(p)
  <2>1. ASSUME task[p].goals \in {<<"Pause">>, <<"Resume">>} PROVE Goal(p) \in {"Pause", "Resume"} /\ ~Making(p)
    <3>1. Goal(p) \in {"Pause", "Resume"} /\ task[p].goals # <<>> /\ task[p].goals # <<"sync">>
      BY <2>1 DEF Goal
    <3> QED
      BY <1>1, <3>1, ShapeGoals DEF ShowIs, Making
  <2> QED
    BY <2>1
<1>6. FindIs(p)'
  <2>1. ASSUME task[p].goals \in {<<"Pause">>, <<"Resume">>}, caller = p, phase' # "items"
        PROVE  reply' # "inuse" /\ (reply' # "none" /\ s \in N => reply' = "ok")
    <3>1. Goal(p) \in {"Pause", "Resume"} /\ ~Making(p)
      BY <1>m, <2>1
    <3>2. CASE phase = "items"
      <4>0. op = Goal(p) /\ About(s) /\ up
        BY <1>0, <1>c, <3>1, <3>2 DEF IInv, FileInv
      <4>1. s \in N => reg[s] # "none" /\ config.entries[s] # 0
        BY <1>p, <3>1, <4>0 DEF Present
      <4>2. CASE op = "Pause"
        <5>1. PauseMakes(s)
          BY <1>0, <3>2, <4>0, <4>2, PauseStep
        <5> QED
          BY <2>1, <4>1, <5>1 DEF PauseMakes, Unmoved, Dropped
      <4>3. CASE op = "Resume"
        <5>1. ResumeMakes(s)
          BY <1>0, <3>2, <4>0, <4>3, ResumeStep
        <5> QED
          BY <1>0, <2>1, <4>1, <5>1 DEF ResumeMakes, Unmoved, Dropped
      <4> QED
        BY <3>1, <4>0, <4>2, <4>3
    <3>3. CASE phase # "items"
      BY <1>1, <1>2, <1>3, <1>r, <2>1, <3>3 DEF ShowIs, FindIs
    <3> QED
      BY <3>2, <3>3
  <2>2. task[p].goals \in {<<"Pause">>, <<"Resume">>} => N \subseteq Names(task[p].queue) \/ task[p].handled
    BY <1>1, <1>2 DEF ShowIs, FindIs
  <2> QED
    BY <1>0, <1>n, <2>1, <2>2 DEF FindIs, Names
<1>7. ResumeIs(p)'
  <2>1. ASSUME task[p].goals = <<"Resume">> PROVE \A t \in N \ Names(task[p].queue) : Served(t)'
    <3>1. phase = "items" => op = "Resume"
      BY <1>c, <2>1 DEF Goal
    <3>2. \A t \in N \ Names(task[p].queue) : Served(t)
      BY <1>1, <1>2, <2>1 DEF ShowIs, ResumeIs
    <3> QED
      BY <1>0, <1>n, <3>1, <3>2, ServedKept
  <2>2. ASSUME task[p].goals = <<"Resume">>, caller = p, s \in N,
               IF phase' = "items" THEN todo' = <<>> ELSE reply' # "none"
        PROVE  reg'[s] = "serving"
    <3>0. Goal(p) = "Resume"
      BY <2>2 DEF Goal
    <3>1. (IF phase = "items" THEN todo = <<>> ELSE reply # "none") => reg[s] = "serving"
      BY <1>1, <1>2, <1>3, <2>2 DEF ShowIs, ResumeIs
    <3>2. CASE phase # "items"
      BY <1>r, <2>2, <3>1, <3>2
    <3>3. CASE phase = "items"
      <4>1. op = "Resume" /\ About(s) /\ up
        BY <1>0, <1>c, <3>0, <3>3 DEF IInv, FileInv
      <4>2. reg[s] # "none" /\ config.entries[s] # 0
        BY <1>m, <1>p, <2>2, <4>1 DEF Present
      <4>3. reg[s] \in {"none", "serving", "closed"} /\ reg \in [Services -> {"none", "serving", "closed"}]
        BY <1>0 DEF IInv, TypeOK, RegistryTypeOK
      <4>4. s \notin config.paused => reg[s] = "serving"
        BY <1>0, <4>1, <4>2, <4>3 DEF IInv, MatchInv, Matches
      <4>5. ResumeMakes(s)
        BY <1>0, <3>3, <4>1, ResumeStep
      <4>6. CASE Unmoved
        BY <2>2, <3>1, <3>3, <4>6 DEF Unmoved
      <4> QED
        BY <1>0, <2>2, <3>1, <3>3, <4>2, <4>3, <4>4, <4>5, <4>6 DEF ResumeMakes, Dropped
    <3> QED
      BY <3>2, <3>3
  <2> QED
    BY <1>0, <1>n, <2>1, <2>2 DEF ResumeIs, Names
<1>8. EndIs(p)'
  <2>1. ASSUME task[p].goals = <<>>,
               task[p].job = "resume" \/ (task[p].job \in {"create", "update", "redeploy"} /\ fwd.status = 1)
        PROVE  \A t \in N : Served(t)'
    <3>1. phase # "items" /\ \A t \in N : Served(t)
      BY <1>1, <1>2, <1>i, <2>1 DEF ShowIs, EndIs
    <3> QED
      BY <1>0, <1>n, <3>1, ServedKept
  <2> QED
    BY <1>0, <1>n, <2>1 DEF EndIs
<1> QED
  BY <1>4, <1>5, <1>6, <1>7, <1>8 DEF ShowIs

LEMMA ShowSends ==
  ASSUME SIInv, NEW p \in Handlers, Send(p), ShowIs(p)
  PROVE  ShowIs(p)'
<1>0. /\ UNCHANGED <<task, fwd, up, reg, config, disk>> /\ phase' = "items" /\ todo' = List(p) /\ task[p].goals # <<>>
  BY DEF Send, Sending, Receive, registry, files
<1>1. ShapeIs(p)' /\ SyncIs(p)' /\ EndIs(p)'
  BY <1>0 DEF ShowIs, ShapeIs, SyncIs, EndIs, Making, Shown, Names, Present
<1>2. FindIs(p)'
  BY <1>0 DEF ShowIs, FindIs, Shown, Names
<1>3. ResumeIs(p)'
  <2>1. task[p].goals = <<"Resume">> => List(p) # <<>>
    BY DEF List, Goal
  <2>2. (\A s \in Shown \ Names(task[p].queue) : Served(s))' <=> \A s \in Shown \ Names(task[p].queue) : Served(s)
    BY <1>0 DEF Shown, Names, Served, Present
  <2> QED
    BY <1>0, <2>1, <2>2 DEF ShowIs, ResumeIs
<1> QED
  BY <1>1, <1>2, <1>3 DEF ShowIs

\* A request begins with everything that is shown in place.
LEMMA ShowBegins ==
  ASSUME SIInv, FwdInv, FreeInv, Smooth', NEW p \in Handlers, Asked(p) \/ Report(p)
  PROVE  ShowIs(p)'
<1>0. /\ Smooth /\ (\A q \in Handlers : Idle(q)) /\ UNCHANGED <<agent, caller>> /\ caller # p
      /\ fwd \in Forwards
  <2>1. "race" \notin trouble' /\ trouble \subseteq trouble' /\ Met = {}
    BY AskedOthers DEF Smooth, Met
  <2>2. UNCHANGED <<agent, caller>> /\ caller # p
    BY BeginsTask DEF Asked, Create, Request, Report
  <2> QED
    BY <2>1, <2>2 DEF Smooth, Met, agent, vars, SIInv, SyncTypeOK
<1>1. UNCHANGED <<up, reg, config, disk>> /\ caller' # p
  BY <1>0 DEF agent, vars, registry, files
<1>2. ASSUME NEW j, NEW goals, Begins(p, j, goals), goals # <<>>, goals \in Shapes(j),
             fwd'.protos = fwd.protos, j = "create" => fwd'.status = 1, j = "report" => fwd'.state = "gone",
             j \in {"update", "redeploy"} => goals # <<"Pause">>,
             fwd.state = "there" \/ j \in {"delete", "report"} \/ (j = "create" /\ goals = <<"sync">>)
      PROVE  ShowIs(p)'
  <2>1. /\ task'[p].job = j /\ task'[p].goals = goals /\ task'[p].queue = Variants
    BY <1>2, BeginsTask
  <2>2. Shown' = Shown /\ Shown \subseteq Services /\ Names(task'[p].queue) = Services
    BY <1>2, <2>1, ShownType, ForwardAssumption DEF Shown, Names
  <2>3. ~Making(p)' => \A s \in Shown : Present(s)'
    <3>1. fwd.state = "there" => \A s \in Shown : Present(s)
      BY <1>0 DEF FreeInv, Free
    <3>2. ~Making(p)' => fwd.state = "there"
      BY <1>2, <2>1 DEF Making
    <3> QED
      BY <1>1, <3>1, <3>2 DEF Present
  <2>4. ShapeIs(p)'
    BY <1>2, <2>1, <2>2, <2>3 DEF ShapeIs
  <2>5. SyncIs(p)'
    BY <1>1 DEF SyncIs
  <2>6. FindIs(p)'
    BY <1>1, <2>2 DEF FindIs, Names
  <2>7. ResumeIs(p)'
    BY <1>1, <2>2 DEF ResumeIs, Names
  <2>8. EndIs(p)'
    BY <1>2, <2>1 DEF EndIs
  <2> QED
    BY <2>4, <2>5, <2>6, <2>7, <2>8 DEF ShowIs
<1>3. CASE Create(p)
  <2>1. fwd'.protos = fwd.protos /\ fwd'.status = 1
    BY <1>0, <1>3 DEF Create, FwdInv, Forwards
  <2> QED
    BY <1>2, <1>3, <2>1 DEF Create, Shapes
<1>4. CASE Report(p)
  BY <1>2, <1>4 DEF Report, Shapes
<1>5. ASSUME NEW j, NEW goals, Request(p, j, goals), goals \in Shapes(j), goals # <<>>,
             j \in {"update", "redeploy", "pause", "suspend", "resume", "delete"},
             j \in {"update", "redeploy"} => goals # <<"Pause">>
      PROVE  ShowIs(p)'
  BY <1>2, <1>5 DEF Request
<1>6. /\ <<"store", "sync">> \in Shapes("update") /\ <<"sync">> \in Shapes("redeploy")
      /\ <<"Pause">> \in Shapes("pause") /\ <<"Pause">> \in Shapes("suspend")
      /\ <<"Resume">> \in Shapes("resume") /\ <<"Delete">> \in Shapes("delete")
  BY DEF Shapes
<1>7. /\ <<"store", "sync">> # <<"Pause">> /\ <<"sync">> # <<"Pause">> /\ <<"store", "sync">> # <<>>
      /\ <<"sync">> # <<>> /\ <<"Pause">> # <<>> /\ <<"Resume">> # <<>> /\ <<"Delete">> # <<>>
  OBVIOUS
<1>8. Request(p, "update", <<"store", "sync">>) \/ Request(p, "redeploy", <<"sync">>) => ShowIs(p)'
  BY <1>5, <1>6, <1>7
<1>9. Request(p, "pause", <<"Pause">>) \/ Request(p, "suspend", <<"Pause">>) => ShowIs(p)'
  BY <1>5, <1>6, <1>7
<1>10. Request(p, "resume", <<"Resume">>) \/ Request(p, "delete", <<"Delete">>) => ShowIs(p)'
  BY <1>5, <1>6, <1>7
<1> QED
  BY <1>3, <1>4, <1>8, <1>9, <1>10 DEF Asked

\* When nothing is in doubt, nothing has to be made up for.
LEMMA NoFallBack ==
  ASSUME SIInv, SentInv, AloneInv, Smooth, Smooth', NEW p \in Handlers, ~Idle(p), ShowIs(p)
  PROVE  ~FallBack(p) /\ ~Rebind(p) /\ ~Clear(p) /\ ~Heal(p) /\ ~Refused(p) /\ ~Portless(p)
<1>1. ~Gets(p, "lost")
  BY NotLost DEF Smooth
<1>2. task[p].goals # <<>> =>
        /\ Goal(p) \in {"store", "sync", "Pause", "Resume", "Delete", "purge"}
        /\ Goal(p) # "store" => task[p].goals = <<Goal(p)>>
        /\ Goal(p) = "purge" <=> task[p].job = "report"
  BY ShapeGoals DEF ShowIs
<1>3. ASSUME NEW r, Gets(p, r), r # "lost"
      PROVE  caller = p /\ phase # "items" /\ reply = r /\ r # "none" /\ task[p].goals # <<>>
  BY <1>3, Heard
<1>4. Gets(p, "inuse") => Goal(p) = "purge"
  <2>1. ASSUME Gets(p, "inuse"), Goal(p) # "purge" PROVE FALSE
    <3>1. caller = p /\ phase # "items" /\ reply = "inuse" /\ task[p].goals # <<>>
      BY <1>3, <2>1
    <3>2. CASE Goal(p) = "sync"
      BY <1>2, <3>1, <3>2 DEF ShowIs, SyncIs
    <3>3. CASE Goal(p) \in {"Pause", "Resume"}
      BY <1>2, <3>1, <3>3 DEF ShowIs, FindIs
    <3>4. CASE Goal(p) = "Delete"
      BY <3>1, <3>4 DEF SentInv, Controlling, ControlSent
    <3>5. Goal(p) # "store"
      BY <3>1 DEF SIInv, TaskInv
    <3> QED
      BY <1>2, <2>1, <3>1, <3>2, <3>3, <3>4, <3>5
  <2> QED
    BY <2>1
<1>5. ~FallBack(p)
  BY <1>1, <1>4 DEF FallBack
<1>6. ~Rebind(p) /\ ~Clear(p)
  <2>1. ASSUME NEW r, Gets(p, r), Goal(p) \in {"add", "clear"} PROVE FALSE
    <3>1. task[p].goals # <<>>
      BY <2>1 DEF Gets
    <3> QED
      BY <1>2, <2>1, <3>1
  <2> QED
    BY <2>1 DEF Rebind, Clear
<1>7. ~Heal(p)
  <2>1. ASSUME Heal(p) PROVE FALSE
    <3>1. /\ caller = p /\ phase # "items" /\ reply = "notfound" /\ task[p].goals # <<>>
          /\ Goal(p) \in {"Pause", "Resume"} /\ Len(task[p].queue) = 1 /\ ~task[p].handled
      BY <1>3, <2>1 DEF Heal
    <3>2. task[p].goals \in {<<"Pause">>, <<"Resume">>}
      BY <1>2, <3>1
    <3>3. Shown \subseteq Names(task[p].queue) /\ Name(p) \notin Shown
      BY <3>1, <3>2 DEF ShowIs, FindIs
    <3>4. Names(task[p].queue) \subseteq {Name(p)}
      BY <3>1, NamesOne, TasksType DEF SIInv, SyncTypeOK, Name
    <3> QED
      BY <3>3, <3>4, ShownType
  <2> QED
    BY <2>1
<1>8. ~Refused(p)
  <2>1. ASSUME NEW r, Gets(p, r), Goal(p) \in {"clear", "readd", "Pause again", "Resume again"} PROVE FALSE
    <3>1. task[p].goals # <<>>
      BY <2>1 DEF Gets
    <3> QED
      BY <1>2, <2>1, <3>1
  <2>2. ~(Gets(p, "inuse") /\ Controlling(p))
    BY <1>4 DEF Controlling
  <2> QED
    BY <1>1, <2>1, <2>2 DEF Refused
<1>9. ~Portless(p)
  <2>1. ASSUME Portless(p) PROVE FALSE
    <3>1. task[p].goals # <<>> /\ Goal(p) # "purge" /\ ~ports
      BY <2>1 DEF Portless, NoPorts
    <3>2. fwd.state = "there"
      BY <1>2, <3>1 DEF AloneInv, AloneIs, Smooth
    <3> QED
      BY <3>1, <3>2 DEF SIInv, PortsInv
  <2> QED
    BY <2>1
<1> QED
  BY <1>5, <1>6, <1>7, <1>8, <1>9

LEMMA ShowSynced ==
  ASSUME SIInv, AloneInv, Smooth, NEW p \in Handlers, ~Idle(p), ShowIs(p), Synced(p)
  PROVE  ShowIs(p)'
<1>1. PICK r \in {"ok", "exists"} : Gets(p, r) /\ (Goal(p) \in {"add", "readd"} \/ (Goal(p) = "sync" /\ r = "ok"))
  BY DEF Synced
<1>2. /\ caller = p /\ caller' # p /\ up /\ phase = "idle" /\ reply # "none" /\ task[p].goals # <<>>
      /\ UNCHANGED <<up, reg, config, disk>>
  BY <1>1, Heard
<1>3. /\ Goal(p) = "sync" /\ task[p].goals = <<"sync">> /\ Rest(p) = <<>>
      /\ task[p].job \in {"create", "update", "redeploy"} /\ task[p].rec = fwd
  <2>1. Goal(p) \in {"store", "sync", "Pause", "Resume", "Delete", "purge"}
    BY <1>2, ShapeGoals DEF ShowIs
  <2>2. Goal(p) = "sync"
    BY <1>1, <2>1
  <2> QED
    BY <1>2, <2>2, ShapeGoals DEF ShowIs, AloneInv, AloneIs, Smooth
<1>4. \A s \in Shown : Served(s)
  <2>1. \A s \in Shown : reg[s] = "serving"
    BY <1>2, <1>3 DEF ShowIs, SyncIs
  <2> QED
    BY <1>2, <2>1, ShownType, ServedAtRest DEF Smooth
<1>5. PICK goals : /\ Pursue(p, goals)
                   /\ (goals = <<>> /\ fwd.status = 1) \/ (goals = <<"Pause">> /\ fwd.status = 0)
  <2>1. fwd.status \in {0, 1}
    BY DEF SIInv, SyncTypeOK, Forwards
  <2>2. <<"Pause">> \o <<>> = <<"Pause">>
    OBVIOUS
  <2> QED
    BY <1>3, <2>1, <2>2 DEF Synced
<1>6. /\ task'[p].job = task[p].job /\ task'[p].goals = goals /\ task'[p].queue = Variants /\ fwd' = fwd
  BY <1>5, PursueTask
<1>7. Shown' = Shown /\ \A s \in Shown : Served(s)'
  BY <1>2, <1>4, <1>6 DEF Shown, Names, Served, Present
<1>8. fwd.status = 1 \/ task[p].job # "create"
  BY <1>3 DEF ShowIs, ShapeIs
<1>9. ShapeIs(p)'
  <2>1. goals \in Shapes(task[p].job)
    BY <1>3, <1>5, <1>8 DEF Shapes
  <2>2. goals = <<"Pause">> => fwd.status = 0
    BY <1>5
  <2>3. task[p].job = "create" => fwd.status = 1
    BY <1>8
  <2> QED
    BY <1>3, <1>6, <1>7, <2>1, <2>2, <2>3 DEF ShapeIs, Served
<1>10. SyncIs(p)' /\ EndIs(p)'
  BY <1>2, <1>7 DEF SyncIs, EndIs
<1>11. FindIs(p)' /\ ResumeIs(p)'
  <2>1. Names(Variants) = Services /\ Shown \subseteq Services
    BY ShownType, ForwardAssumption
  <2>2. Names(task'[p].queue) = Services
    BY <1>6, <2>1
  <2> QED
    BY <1>2, <1>7, <2>1, <2>2 DEF FindIs, ResumeIs, Names
<1> QED
  BY <1>9, <1>10, <1>11 DEF ShowIs

\* A control's name is answered, and in place if it is shown.
LEMMA ShowNamed ==
  ASSUME SIInv, Smooth, NEW p \in Handlers, ~Idle(p), ShowIs(p), NEW r \in {"ok", "notfound"}, Gets(p, r),
         Controlling(p)
  PROVE  /\ Goal(p) \in {"Pause", "Resume", "Delete"} /\ task[p].goals = <<Goal(p)>> /\ Rest(p) = <<>>
         /\ caller' # p /\ UNCHANGED <<up, reg, config, disk>>
         /\ Goal(p) # "Delete" /\ Name(p) \in Shown => r = "ok"
         /\ Goal(p) = "Resume" => \A s \in Shown : s \notin Names(task[p].queue) \/ s = Name(p) => Served(s)
<1>1. /\ caller = p /\ caller' # p /\ up /\ phase = "idle" /\ reply = r /\ r # "none" /\ task[p].goals # <<>>
      /\ UNCHANGED <<up, reg, config, disk>>
  BY Heard
<1>2. Goal(p) \in {"Pause", "Resume", "Delete"} /\ task[p].goals = <<Goal(p)>> /\ Rest(p) = <<>>
  <2>1. Goal(p) \in {"Pause", "Resume", "Delete"}
    BY <1>1, ShapeGoals DEF ShowIs, Controlling
  <2> QED
    BY <1>1, <2>1, ShapeGoals DEF ShowIs
<1>3. Goal(p) # "Delete" /\ Name(p) \in Shown => r = "ok"
  BY <1>1, <1>2 DEF ShowIs, FindIs
<1>4. ASSUME Goal(p) = "Resume" PROVE \A s \in Shown : s \notin Names(task[p].queue) \/ s = Name(p) => Served(s)
  <2>1. \A s \in Shown \ Names(task[p].queue) : Served(s)
    BY <1>2, <1>4 DEF ShowIs, ResumeIs
  <2>2. Name(p) \in Shown => reg[Name(p)] = "serving"
    BY <1>1, <1>2, <1>4 DEF ShowIs, ResumeIs
  <2>3. \A s \in Shown : s = Name(p) => Served(s)
    BY <1>1, <2>2, ShownType, ServedAtRest DEF Smooth
  <2> QED
    BY <2>1, <2>3
<1> QED
  BY <1>1, <1>2, <1>3, <1>4

LEMMA ShowHandles ==
  ASSUME SIInv, SentInv, AloneInv, Smooth, Smooth', NEW p \in Handlers, ~Idle(p), ShowIs(p), Handle(p), ~Idle(p)'
  PROVE  ShowIs(p)'
<1>0. ~Idle(p)' => task'[p] # NoTask
  BY DEF Idle, NoTask
<1>n. Names(Variants) = Services /\ Shown \subseteq Services
  BY ShownType, ForwardAssumption
<1>q. task[p].queue \in Seq(Services) /\ task[p].queue # <<>>
  BY TasksType DEF SIInv, SyncTypeOK, TaskInv
<1>1. CASE ControlName(p)
  <2>1. PICK r \in {"ok", "notfound"} : Gets(p, r) /\ NextName(p, task[p].handled \/ r = "ok")
    BY <1>1 DEF ControlName
  <2>2. /\ Goal(p) \in {"Pause", "Resume", "Delete"} /\ task[p].goals = <<Goal(p)>>
        /\ caller' # p /\ UNCHANGED <<up, reg, config, disk>>
        /\ Goal(p) # "Delete" /\ Name(p) \in Shown => r = "ok"
        /\ Goal(p) = "Resume" => \A s \in Shown : s \notin Names(task[p].queue) \/ s = Name(p) => Served(s)
    BY <1>1, <2>1, ShowNamed DEF ControlName
  <2>3. /\ task'[p].job = task[p].job /\ task'[p].goals = task[p].goals /\ task'[p].queue = Tail(task[p].queue)
        /\ task'[p].handled = (task[p].handled \/ r = "ok") /\ fwd' = fwd
    BY <2>1, NextNameTask
  <2>4. PICK N, Q : N = Shown /\ Q = Names(Tail(task[p].queue))
    OBVIOUS
  <2>5. Shown' = N /\ Names(task'[p].queue) = Q /\ Names(task[p].queue) \subseteq Q \cup {Name(p)}
    BY <1>q, <2>3, <2>4, NamesTail DEF Shown, Names, Name
  <2>6. (\A s \in N : Present(s)' <=> Present(s)) /\ (\A s \in N : Served(s)' <=> Served(s))
    BY <2>2 DEF Served, Present
  <2>7. ShapeIs(p)'
    BY <2>3, <2>4, <2>5, <2>6 DEF ShowIs, ShapeIs, Making
  <2>8. SyncIs(p)' /\ EndIs(p)'
    BY <2>2, <2>3 DEF SyncIs, EndIs
  <2>9. FindIs(p)'
    <3>1. task[p].goals \in {<<"Pause">>, <<"Resume">>} => N \subseteq Q \/ task'[p].handled
      <4>1. ASSUME task[p].goals \in {<<"Pause">>, <<"Resume">>} PROVE N \subseteq Q \/ task'[p].handled
        <5>1. Goal(p) # "Delete"
          BY <4>1 DEF Goal
        <5>2. Shown \subseteq Names(task[p].queue) \/ task[p].handled
          BY <4>1 DEF ShowIs, FindIs
        <5> QED
          BY <2>2, <2>3, <2>4, <2>5, <5>1, <5>2
      <4> QED
        BY <4>1
    <3> QED
      BY <2>2, <2>3, <2>5, <3>1 DEF FindIs, Names
  <2>10. ResumeIs(p)'
    <3>1. ASSUME task[p].goals = <<"Resume">> PROVE \A s \in N \ Q : Served(s)'
      <4>1. Goal(p) = "Resume"
        BY <3>1 DEF Goal
      <4> QED
        BY <2>2, <2>4, <2>5, <2>6, <4>1
    <3> QED
      BY <2>2, <2>3, <2>5, <3>1 DEF ResumeIs, Names
  <2> QED
    BY <2>7, <2>8, <2>9, <2>10 DEF ShowIs
<1>2. CASE ControlDone(p)
  <2>1. PICK r \in {"ok", "notfound"} : Gets(p, r)
    BY <1>2 DEF ControlDone
  <2>2. /\ Goal(p) \in {"Pause", "Resume", "Delete"} /\ task[p].goals = <<Goal(p)>> /\ Rest(p) = <<>>
        /\ caller' # p /\ UNCHANGED <<up, reg, config, disk>>
        /\ Goal(p) = "Resume" => \A s \in Shown : s \notin Names(task[p].queue) \/ s = Name(p) => Served(s)
    BY <1>2, <2>1, ShowNamed DEF ControlDone
  <2>3. task'[p].job = task[p].job /\ task'[p].goals = <<>> /\ fwd' = fwd
    BY <1>2, <2>2, PursueTask DEF ControlDone
  <2>4. PICK N : N = Shown
    OBVIOUS
  <2>5. Shown' = N
    BY <2>3, <2>4 DEF Shown, Names
  <2>6. (\A s \in N : Present(s)' <=> Present(s)) /\ (\A s \in N : Served(s)' <=> Served(s))
    BY <2>2 DEF Served, Present
  <2>7. /\ Goal(p) = "Pause" => task[p].job \in {"update", "redeploy", "pause", "suspend"}
        /\ Goal(p) = "Resume" => task[p].job = "resume"
        /\ Goal(p) = "Delete" => task[p].job = "delete"
    BY <2>2, ShapeGoals DEF ShowIs
  <2>8. ShapeIs(p)'
    <3>1. <<>> \in Shapes(task[p].job)
      BY <2>2, <2>7 DEF Shapes
    <3>2. Making(p) <=> task[p].job = "delete"
      BY <2>2, <2>7 DEF Making
    <3>3. task[p].job # "delete" => \A s \in N : Present(s)'
      BY <2>4, <2>6, <3>2 DEF ShowIs, ShapeIs
    <3>4. Making(p)' <=> task[p].job = "delete"
      BY <2>2, <2>3, <2>7 DEF Making
    <3> QED
      BY <2>2, <2>3, <2>5, <2>7, <3>1, <3>3, <3>4 DEF ShapeIs
  <2>9. SyncIs(p)' /\ FindIs(p)' /\ ResumeIs(p)'
    BY <2>3 DEF SyncIs, FindIs, ResumeIs
  <2>10. EndIs(p)'
    <3>1. task[p].job \in {"update", "redeploy"} => fwd.status = 0
      <4>1. task[p].job \in {"update", "redeploy"} => task[p].goals = <<"Pause">>
        BY <2>2, <2>7
      <4> QED
        BY <4>1 DEF ShowIs, ShapeIs
    <3>2. task[p].job = "resume" => \A s \in N : Served(s)'
      <4>1. Names(task[p].queue) \subseteq {Name(p)}
        BY <1>2, <1>q, NamesOne DEF ControlDone, Name
      <4> QED
        BY <2>2, <2>4, <2>6, <2>7, <4>1
    <3> QED
      BY <2>2, <2>3, <2>5, <2>7, <3>1, <3>2 DEF EndIs
  <2> QED
    BY <2>8, <2>9, <2>10 DEF ShowIs
<1>3. CASE Store(p)
  <2>1. task[p].goals = <<"store", "sync">> /\ task[p].job = "update" /\ caller # p
    <3>1. task[p].goals # <<>> /\ Goal(p) = "store"
      BY <1>3 DEF Store
    <3> QED
      BY <3>1, ShapeGoals DEF ShowIs, SIInv, TaskInv
  <2>2. fwd.state = "there"
    BY <2>1 DEF AloneInv, AloneIs, Smooth
  <2>3. task'[p].job = "update" /\ task'[p].goals = <<"sync">> /\ caller' # p
    <3>1. Rest(p) = <<"sync">> /\ caller' = caller
      BY <1>3, <2>1 DEF Rest, Store
    <3> QED
      BY <1>3, <2>1, <2>2, <3>1, StoreTask
  <2>4. ShapeIs(p)'
    BY <2>3 DEF ShapeIs, Shapes, Making
  <2> QED
    BY <2>3, <2>4 DEF ShowIs, SyncIs, FindIs, ResumeIs, EndIs
<1>4. CASE Purged(p) \/ Finish(p)
  BY <1>0, <1>4, EndMoves DEF Purged, Finish
<1> QED
  BY <1>1, <1>2, <1>3, <1>4, NoFallBack, ShowSends, ShowSynced DEF Handle

LEMMA ShowNext ==
  SIInv /\ DownInv /\ MetInv /\ FwdInv /\ SentInv /\ AloneInv /\ LossInv /\ ShowInv /\ FreeInv
    /\ [SyncNext]_syncVars => ShowInv'
<1> SUFFICES ASSUME SIInv, DownInv, MetInv, FwdInv, SentInv, AloneInv, LossInv, ShowInv, FreeInv,
                    [SyncNext]_syncVars, Smooth', NEW q \in Handlers, ~Idle(q)'
             PROVE  ShowIs(q)'
  BY DEF ShowInv
<1>1. CASE UNCHANGED syncVars
  <2>1. (Smooth' <=> Smooth) /\ (Idle(q)' <=> Idle(q)) /\ (ShowIs(q)' <=> ShowIs(q))
    BY <1>1
    DEF syncVars, agent, vars, panel, registry, files, command, Smooth, Idle, ShowIs, ShapeIs, SyncIs, FindIs,
        ResumeIs, EndIs, Making, Shown, Names, Name, Served, Present
  <2> QED
    BY <2>1 DEF ShowInv
<1>2. CASE AgentNext
  BY <1>2, ShowAgent DEF AgentNext, panel, Idle
<1>3. CASE ForceDelete
  BY <1>3 DEF ForceDelete, Met, Smooth, Idle
<1>4. ASSUME NEW p \in Handlers, Asked(p) \/ Report(p) PROVE ShowIs(q)'
  <2>1. q = p
    BY <1>4, AskedOthers DEF Met, Smooth, Idle
  <2> QED
    BY <1>4, <2>1, ShowBegins
<1>5. ASSUME NEW p \in Handlers, Handle(p) PROVE ShowIs(q)'
  <2>1. AgentStep \/ UNCHANGED agent
    BY <1>5, SendReceives, HandleKinds DEF Gets
  <2>2. Smooth /\ ~Idle(p)
    BY <1>5, <2>1, HandleOthers, MishapsNext DEF Smooth, agent, vars
  <2>3. q = p
    BY <1>5, <2>2, HandleOthers DEF MetInv, Smooth, Idle
  <2> QED
    BY <1>5, <2>2, <2>3, ShowHandles DEF ShowInv
<1> QED
  BY <1>1, <1>2, <1>3, <1>4, <1>5 DEF SyncNext

LEMMA FreeAgent ==
  ASSUME SIInv, DownInv, LossInv, FreeInv, Step \/ Kill \/ Boot, UNCHANGED panel
  PROVE  FreeInv'
<1> SUFFICES ASSUME Smooth', Free'
             PROVE  /\ \A s \in Shown' : Present(s)' /\ (fwd'.status = 1 => Served(s)')
                    /\ fwd'.status = 0 /\ "boot" \notin mishaps' => \A s \in Services : Stays(s)'
  BY DEF FreeInv
<1>1. /\ IInv /\ Smooth /\ Free /\ UNCHANGED <<fwd, task, caller>> /\ mishaps \subseteq mishaps'
      /\ mishaps' \cap {"Update", "Resume"} = {}
  BY MishapsNext DEF SIInv, AgentStep, Smooth, Free, Idle, panel
<1>2. phase = "idle"
  <2>1. caller = "none"
    BY <1>1 DEF SIInv, SyncTypeOK, TaskInv, Free
  <2> QED
    BY <1>1, <2>1 DEF LossInv, Smooth
<1>3. PICK N : N = Shown
  OBVIOUS
<1>4. Shown' = N /\ N \subseteq Services
  BY <1>1, <1>3, ShownType DEF Shown, Names
<1>5. \A s \in N : Present(s) /\ (fwd.status = 1 => Served(s))
  BY <1>1, <1>3 DEF FreeInv
<1>6. \A s \in N : Present(s)' /\ (fwd.status = 1 => Served(s)')
  BY <1>1, <1>2, <1>4, <1>5, PresentKept, ServedKept
<1>7. ASSUME fwd.status = 0, "boot" \notin mishaps' PROVE \A s \in Services : Stays(s)'
  <2>1. \A s \in Services : Stays(s)
    BY <1>1, <1>7 DEF FreeInv
  <2> QED
    BY <1>1, <1>2, <1>7, <2>1, StaysKept
<1> QED
  BY <1>1, <1>4, <1>6, <1>7

\* A request ends with a row that says what the agent does.
LEMMA FreeFinish ==
  ASSUME SIInv, AloneInv, PauseInv, Smooth, NEW p \in Handlers, ~Idle(p), ShowIs(p), Finish(p), fwd'.state = "there"
  PROVE  /\ \A s \in Shown' : Present(s)' /\ (fwd'.status = 1 => Served(s)')
         /\ fwd'.status = 0 /\ "boot" \notin mishaps' => \A s \in Services : Stays(s)'
<1>0. /\ task[p].goals = <<>> /\ UNCHANGED <<up, reg, config, disk, mishaps>> /\ fwd \in Forwards
      /\ task[p].goals \in Shapes(task[p].job) /\ task[p].job \in Jobs
  BY TasksType
  DEF Finish, agent, vars, registry, files, SIInv, SyncTypeOK, ShowIs, ShapeIs, Tasks
<1>1. task[p].job \in {"create", "update", "redeploy", "pause", "suspend", "resume", "delete"}
  BY <1>0 DEF Shapes, Jobs
<1>2. fwd.state = "there" /\ task[p].rec = fwd
  BY <1>1 DEF AloneInv, AloneIs, Smooth
<1>3. /\ fwd' = CASE task[p].job \in {"pause", "suspend"} -> [fwd EXCEPT !.status = 0]
                  [] task[p].job = "resume" -> [fwd EXCEPT !.status = 1]
                  [] task[p].job = "delete" -> [fwd EXCEPT !.state = "gone"]
                  [] OTHER -> fwd
  BY <1>1, <1>2 DEF Finish
<1>4. /\ task[p].job # "delete" /\ fwd'.protos = fwd.protos
      /\ task[p].job \in {"pause", "suspend"} => fwd'.status = 0
      /\ task[p].job = "resume" => fwd'.status = 1
      /\ task[p].job \in {"create", "update", "redeploy"} => fwd'.status = fwd.status
  BY <1>0, <1>1, <1>3 DEF Forwards
<1>5. PICK N : N = Shown
  OBVIOUS
<1>6. Shown' = N
  BY <1>4, <1>5 DEF Shown, Names
<1>7. \A s \in N : Present(s)
  BY <1>0, <1>1, <1>4, <1>5 DEF ShowIs, ShapeIs, Making
<1>8. fwd'.status = 1 => \A s \in N : Served(s)
  BY <1>0, <1>1, <1>4, <1>5 DEF ShowIs, EndIs
<1>9. ASSUME fwd'.status = 0, "boot" \notin mishaps PROVE \A s \in Services : Stays(s)
  <2>1. task[p].job = "create" => fwd.status = 1
    BY DEF ShowIs, ShapeIs
  <2>2. Silences(p)
    BY <1>1, <1>2, <1>4, <1>9, <2>1 DEF Silences, Silencers
  <2>3. Unbroken
    BY <1>9 DEF Smooth, Unbroken
  <2> QED
    BY <1>0, <2>2, <2>3 DEF PauseInv, PausedIs
<1>10. \A s \in N : Present(s)' /\ (fwd'.status = 1 => Served(s)')
  BY <1>0, <1>7, <1>8 DEF Served, Present
<1>11. fwd'.status = 0 /\ "boot" \notin mishaps' => \A s \in Services : Stays(s)'
  BY <1>0, <1>9 DEF Stays, Halted
<1> QED
  BY <1>6, <1>10, <1>11

LEMMA FreeNext ==
  SIInv /\ DownInv /\ MetInv /\ SentInv /\ AloneInv /\ LossInv /\ PauseInv /\ ShowInv /\ FreeInv
    /\ [SyncNext]_syncVars => FreeInv'
<1> SUFFICES ASSUME SIInv, DownInv, MetInv, SentInv, AloneInv, LossInv, PauseInv, ShowInv, FreeInv,
                    [SyncNext]_syncVars, Smooth', Free'
             PROVE  FreeInv'
  BY DEF FreeInv
<1>1. CASE UNCHANGED syncVars
  BY <1>1
  DEF syncVars, agent, vars, panel, registry, files, command, FreeInv, Smooth, Free, Idle, Shown, Names, Served,
      Present, Stays, Halted
<1>2. CASE AgentNext
  BY <1>2, FreeAgent DEF AgentNext
<1>3. CASE ForceDelete
  <2>1. fwd'.state = "gone"
    BY <1>3 DEF ForceDelete, SIInv, SyncTypeOK, Forwards
  <2> QED
    BY <2>1 DEF Free
<1>4. ASSUME NEW p \in Handlers, Asked(p) \/ Report(p) PROVE FreeInv'
  <2>1. ASSUME NEW j, NEW goals, Begins(p, j, goals), j # "none" PROVE ~Idle(p)'
    BY <2>1, BeginsTask DEF Idle
  <2>2. ~Idle(p)'
    BY <1>4, <2>1 DEF Asked, Create, Request, Report
  <2> QED
    BY <2>2 DEF Free
<1>5. ASSUME NEW p \in Handlers, Handle(p) PROVE FreeInv'
  <2>1. AgentStep \/ UNCHANGED agent
    BY <1>5, SendReceives, HandleKinds DEF Gets
  <2>2. Smooth /\ ~Idle(p) /\ ShowIs(p)
    BY <1>5, <2>1, HandleOthers, MishapsNext DEF Smooth, agent, vars, ShowInv
  <2>3. task'[p].job = "none" /\ fwd'.state = "there"
    BY DEF Free, Idle
  <2>4. ~Synced(p) /\ ~ControlName(p) /\ ~ControlDone(p) /\ ~Send(p)
    BY <2>2, <2>3, PursueTask, NextNameTask DEF Synced, ControlName, ControlDone, Send, Idle
  <2>5. ~Purged(p)
    <3>1. ASSUME Purged(p) PROVE FALSE
      <4>1. task[p].goals # <<>> /\ Goal(p) = "purge" /\ fwd' = fwd
        BY <3>1 DEF Purged, Gets
      <4>2. task[p].job = "report"
        BY <2>2, <4>1, ShapeGoals DEF ShowIs
      <4> QED
        BY <2>2, <2>3, <4>1, <4>2 DEF ShowIs, ShapeIs
    <3> QED
      BY <3>1
  <2>6. ~Store(p)
    <3>1. ASSUME Store(p) PROVE FALSE
      <4>1. task[p].job = "update"
        BY <2>2, <3>1, ShapeGoals DEF ShowIs, Store
      <4>2. fwd.state = "there"
        BY <2>2, <4>1 DEF AloneInv, AloneIs, Smooth
      <4> QED
        BY <2>3, <3>1, <4>1, <4>2, StoreTask
    <3> QED
      BY <3>1
  <2>7. Finish(p)
    BY <1>5, <2>2, <2>4, <2>5, <2>6, NoFallBack DEF Handle
  <2> QED
    BY <2>2, <2>3, <2>7, FreeFinish DEF FreeInv
<1> QED
  BY <1>1, <1>2, <1>3, <1>4, <1>5 DEF SyncNext

-----------------------------------------------------------------------------
LEMMA InitShow ==
  SyncInit => /\ KeptInv /\ SentInv /\ GoalsInv /\ AloneInv /\ LossInv /\ PauseInv /\ ShowInv /\ FreeInv
<1> SUFFICES ASSUME SyncInit
             PROVE  KeptInv /\ SentInv /\ GoalsInv /\ AloneInv /\ LossInv /\ PauseInv /\ ShowInv /\ FreeInv
  OBVIOUS
<1>1. \A p \in Handlers : task[p].job = "none" /\ task[p].goals = <<>>
  BY DEF SyncInit, NoTask
<1>2. fwd.state = "new" /\ caller = "none" /\ "none" \notin Handlers
  BY ForwardAssumption DEF SyncInit
<1>3. KeptInv
  <2>1. \A s \in Services : reg[s] = "none" /\ config.entries[s] = 0
    BY DEF SyncInit, Init, NoConfig, NoServices
  <2>2. ASSUME NEW s \in Services PROVE Kept(s)
    <3>1. ~(config.entries[s] > 0)
      BY <2>1
    <3> QED
      BY <2>1, <3>1 DEF Kept
  <2> QED
    BY <2>2 DEF KeptInv
<1>4. SentInv /\ AloneInv /\ ShowInv /\ FreeInv
  BY <1>1, <1>2 DEF SentInv, AloneInv, ShowInv, FreeInv, Free, Idle
<1>5. LossInv
  BY DEF SyncInit, Init, LossInv
<1>6. GoalsInv
  BY <1>1, EmptySeq DEF GoalsInv, GoalsIs, Silencers
<1>7. PauseInv
  BY <1>1 DEF PauseInv, PausingIs, PausedIs, Silences, Silencers
<1> QED
  BY <1>3, <1>4, <1>5, <1>6, <1>7

LEMMA SpecPauseInv == SyncSpec => [](SIInv /\ PauseInv /\ FreeInv)
<1> DEFINE Inv == /\ SIInv /\ DownInv /\ MetInv /\ FwdInv /\ KeptInv /\ SentInv /\ GoalsInv /\ AloneInv
                  /\ LossInv /\ PauseInv /\ ShowInv /\ FreeInv
<1>1. SyncInit => Inv
  BY InitSIInv, InitDelete, InitGone, InitShow
<1>2. Inv /\ [SyncNext]_syncVars => Inv'
  <2> SUFFICES ASSUME Inv, [SyncNext]_syncVars PROVE Inv'
    OBVIOUS
  <2>1. SIInv' /\ DownInv' /\ MetInv' /\ FwdInv'
    BY SIInvNext, AgentOnly, DownNext, MetNext, FwdNext DEF SIInv
  <2>2. KeptInv' /\ SentInv' /\ GoalsInv' /\ AloneInv' /\ LossInv'
    BY AgentOnly, KeptNext, SentNext, GoalsNext, AloneNext, LossNext DEF SIInv
  <2>3. PauseInv' /\ ShowInv' /\ FreeInv'
    BY PauseNext, ShowNext, FreeNext
  <2> QED
    BY <2>1, <2>2, <2>3
<1> HIDE DEF Inv
<1>3. SyncSpec => []Inv
  BY <1>1, <1>2, PTL DEF SyncSpec
<1>4. QED
  BY <1>3, PTL DEF Inv

\* A pause that is answered with OK and met no other request did stop the
\* services under every name, whatever answers were lost on the way and however
\* often the pause had to make a missing service first (control_plane.go:465),
\* unless an update failed midway or a restart began to serve what was paused.
THEOREM SyncSpecOkIsPaused == SyncSpec => OkIsPaused
<1>1. ASSUME PauseInv, NEW p \in Handlers, Succeeds(p, "pause"), mishaps \cap {"Update", "boot"} = {}
      PROVE  Serving = {}
  <2>1. task[p].goals = <<>> /\ Silences(p) /\ Unbroken
    BY <1>1 DEF Succeeds, Finish, Silences, Unbroken
  <2>2. \A s \in Services : reg[s] # "serving"
    BY <1>1, <2>1 DEF PauseInv, PausedIs, Stays, Halted
  <2> QED
    BY <2>2 DEF Serving
<1>2. PauseInv => \A p \in Handlers : Succeeds(p, "pause") /\ mishaps \cap {"Update", "boot"} = {} => Serving = {}
  BY <1>1
<1> QED
  BY <1>2, SpecPauseInv, PTL DEF OkIsPaused

\* A forward that is shown as active is served on every variant of its name,
\* whatever requests made it so, with any number of them, and with restarts of the
\* agent in between; unless two of them met, an answer was lost, or the agent
\* failed midway through an update or a resume.
THEOREM SyncSpecShownIsServed == SyncSpec => []ShownIsServed
<1>1. SIInv /\ FreeInv => ShownIsServed
  <2> SUFFICES ASSUME SIInv, FreeInv, Quiet, Row(1), Smooth PROVE Shown \subseteq Serving
    BY DEF ShownIsServed, Smooth, Shown
  <2>1. \A s \in Shown : Served(s) /\ up
    BY DEF FreeInv, Free, Quiet, Row, AtRest
  <2> QED
    BY <2>1, ShownType DEF Served, Serving
<1> QED
  BY <1>1, SpecPauseInv, PTL

\* A forward that is shown as paused is not served under any name, however it came
\* to be paused, also after an update or a redeploy that paused it again
\* (control_plane.go:317); unless two requests met, an answer was lost, or the
\* agent failed midway or started anew.
THEOREM SyncSpecPausedIsSilent == SyncSpec => []PausedIsSilent
<1>1. SIInv /\ FreeInv => PausedIsSilent
  <2> SUFFICES ASSUME FreeInv, Quiet, Row(0), Smooth, "boot" \notin mishaps PROVE Serving = {}
    BY DEF PausedIsSilent, Smooth
  <2>1. \A s \in Services : reg[s] # "serving"
    BY DEF FreeInv, Free, Quiet, Row, Stays, Halted
  <2> QED
    BY <2>1 DEF Serving
<1> QED
  BY <1>1, SpecPauseInv, PTL
=============================================================================
