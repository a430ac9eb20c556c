# TLA+ models of the FLVX forwarding panel and its node agent

The repository holds two programs that work together. The *panel*
(`go-backend`, binary `paneld`) keeps users, tunnels, forwards, quotas and nodes
in a database, serves the web front end and the HTTP API, and commands the
nodes. The *agent* (`go-gost`, a fork of gost, installed by `install.sh` as the
systemd unit `flux_agent`) runs on every node, opens the listeners, moves the
bytes and reports traffic. This directory models what the two keep in step:
commands and their answers, the services of a forward, traffic accounting and
the quota that acts on it, the connection all of this goes over, and tunnels
whose hops belong to another panel.

Paths in this text are relative to `src/`.

## 1. Inventory

| Component | State | Operations | Interacts with |
|---|---|---|---|
| WebSocket hub, `go-backend/internal/ws/server.go` | `nodes` (session of each node), `byConn`, `pending` (commands waiting), result channels; `node.status` in the database | `handleNode` (register, read loop, deferred clean-up), `SendCommand`, `tryResolvePending`, `failPendingForNode` | agents over one WebSocket each; HTTP handlers and jobs call `SendCommand`; the database; `onlineHook` |
| Agent services, `go-gost/x/socket/service.go`, `config.go`, `websocket_reporter.go`, `config/loader` | `ServiceRegistry`, `config.Global()`, `gost.json`, open listeners | Add, Update, Delete, Pause and ResumeService, `saveConfig`, load at start | the panel's commands; the operating system's ports; systemd restarts it |
| Forward life cycle, `handler/control_plane.go`, `mutations.go`, `flow_policy.go`, `jobs.go` | the rows `forward` and `forward_port`; the agent's services | create, update, delete, force delete, pause, resume, their batch forms and redeploy; suspension by quota or expiry; clean-up of orphans after a report | hub, agent, database |
| Service statistics, `go-gost/x/service/service.go`, `observer/stats` | atomic byte counters, the `updated` flag | `Add` of every connection, `observeStats` (read, hand over, reset), `Close` | connections; `GlobalTrafficManager` |
| Traffic reporting, `go-gost/x/service/global_traffic_manager.go`, `traffic_reporter.go`; `handler/handler.go` `flowUpload`, `flow_policy.go` `processFlowItem` | bytes not yet confirmed; flow columns and quota columns | `AddTraffic`, `collectAndReport`, the URL fallback, `flowUpload` | HTTP between agent and panel; the quota |
| User quota, `handler/user_quota.go`, `repo/repository_user_quota.go` | usage of the day and the month, `disabled_by_quota`, `paused_forward_ids`, status of forwards | book usage, enforce, reset, nightly roll and release, resume and pause of a forward | uploads, node commands, the 00:05 job |
| Agent's end of the command connection, `go-gost/x/socket/websocket_reporter.go` | `w.conn`, `w.connected`, `connMutex`; the run goroutine; a `receiveMessages` goroutine for each connection served | dial, serve, clean up, wait and dial again; read a command, run it, answer | the hub; the service commands of the agent |
| Federated tunnels, `handler/mutations.go`, `handler/federation.go` | consumer: the tunnel's row, its chain rows and bindings, the entry node's chain; provider: `peer_share_runtime` rows, services and chains of its nodes | create, update, redeploy and delete a tunnel; reserve a port, apply a role, release; undo after a failure | HTTP between two panels, node commands on both sides, the consumer's transaction |
| Tunnel runtime on local relay nodes, shares and remote nodes, node upgrade, health checker, metrics, diagnosis, forward engines | relay services on several nodes, peer shares, redeploy flags, probe results, kernel rules | see section 8 | the same hub and agents |
| Authentication, schema and queries, proxy core, front end, scripts | | stateless, pure I/O or upstream code | |

What is hard about them:

* **Interleaving.** Every HTTP request, WebSocket connection, job and flow upload
  is a goroutine. The hub's lock is released before database writes and before
  the second loop of `failPendingForNode`; handlers of forwards hold no lock at
  all between reading a row, sending several commands and writing the row; two
  uploads of one user run side by side; the observer resets counters that
  connections bump; a receiver of a broken connection outlives it and acts on
  the next; two tunnels ask for a port of one share at a time.
* **Lost and late answers.** A command may run though its caller timed out; the
  agent may be gone before or after; an HTTP report may be booked though its
  answer is lost, and is then sent again, to the next URL or at the next tick.
* **Failure in the middle.** A port that cannot be bound fails a command after
  its first item, with a rollback (resume), without one (add, update) or with
  one that does nothing (pause). The panel answers with fallbacks of its own:
  add instead of update, delete and add again, heal and try again, put the old
  row back.
* **Crash and restart.** The agent's counters are only in memory; `gost.json`
  is rewritten in place; a restarted agent serves whatever its file says, paused
  or not. A crash of the panel cuts an enforcement in two.
* **Two panels.** A hop is reserved and applied by HTTP calls that can fail, get
  lost or outlive their caller, while the consumer's transaction is open; what
  was applied must be taken back when a later hop fails.
* **Clean-up that must happen.** Callers must return, replaced connections must
  end, services of deleted forwards must go, bytes must be collected, the agent
  must connect again, a tunnel's request must be answered.

PROJECT.json lists these under `hazards`, each at its line, with the properties
that watch it. A property watches a hazard in one of two ways. Most are *caught*:
the code guards against them, and a change that lost the guard would violate the
property. The others happen in the code as it is; the property *excepts* them by
name, which shows that nothing else breaks it, and the hazard's text says so.
Excepted, not caught are:

* a batch booked twice after a lost answer, and ledgers that differ after a failed
  write (NoOvercount, LedgersAgree);
* bytes wiped between the read and the store of a reset (BytesAreAccounted bounds
  them, BytesAreCollected excepts them);
* overlapping enforcements, an enforcement cut off, a stale nightly job, a failed
  resume (NoneForgotten, ReleaseRestores); a mark on a stale view, a check before
  a resume (MarkedWhenExceeded, DisabledIsStopped);
* paused services served after a restart (PausedIsStopped, PausedIsSilent), an
  update or a resume that failed midway (ShownIsServed, RegistryMatchesConfig);
* two reservations at once, a port reserved and not applied, roles kept by a refused
  update, releases nobody looks at (PortsDistinct, GoneIsReleased, PathIsWhole).

Four further hazards have no property, and each is small:

* a failed Add leaves the listener of an earlier item open
  (`socket/service.go:39`; modelled as `leaked`, promised nowhere);
* a suspension marks the forward as paused though the agent did not answer
  (`flow_policy.go:465`; modelled as `SuspendAnyway`, excepted as a lost answer);
* a forward changed from both protocols to tcp keeps its udp service
  (`control_plane.go:1549`; so `ShownIsServed` says "at least", not "exactly");
* the observer takes no last reading when the service closes
  (`service.go:423`; ServiceStats promises the bytes only while it runs).

## 2. Modules

Each module is faithful to one component; proofs about `X` are in `XProofs`, the
instances for TLC in `MCX` and its `.cfg` files. Definitions named `X_<Word>` are
single-bug variants of `X`: no action uses them, PROJECT.json pairs each with the
property that must fail when it takes the place of `X`.

```
AgentConn --(the connection)-- WsServer ---- CallSpec implements ----> CommandCall
   |  (one command after another)   |  (a command's answer, or an error)
AgentServices <---- EXTENDS ---- ForwardSync      Federation (two panels)
ServiceStats --(AddTraffic)--> TrafficReport --(AddUserQuotaUsage)--> UserQuota
```

The arrows without EXTENDS are interfaces, not compositions: ForwardSync uses of
the hub what WsServer shows of it (each call ends with the agent's answer or with
an error after which the command may have run, may yet run or may never run);
`ServiceStats.recorded` is what TrafficReport's `AddTraffic` adds; a booking of
TrafficReport's quota ledger is an `Upload` of UserQuota. AgentServices works off
one command at a time, as one receiver does; the run `agent_order` shows when two
receivers break that, and such an overlap is outside of AgentServices.

### WsServer, CommandCall

One action per critical section of `Server.mu`, channel operation or database
write of `ws/server.go`. A connection's handler goes through `Register`,
`WriteOnline`, reading (`ReadAnswer`, `ReadStrayAnswer`, `Resolve`),
`Unregister`, `CollectPending`, `FailOne`, `WriteOffline`, `CloseConn`; a call of
SendCommand through `Lookup`, `AddPending`, `WriteCommand` or `WriteFails`,
`Receive` or `Timeout`. `Drop` breaks a socket; `Run` is the agent's side. A new
connection of a node replaces the old one while the old handler still runs.
CommandCall is what a caller is promised: one outcome for each call, and "ok"
only after the command ran with success.

### AgentConn

The agent's side of the same connection. The run goroutine: `StartDial` takes
`connMutex`, which a dial holds to its end, `DialSucceeds` or `DialFails`; then
the loop looks at `w.connected` without the mutex and serves (`Serve` starts a
receiver) or waits (`Forsake`, when a receiver of an earlier connection has
cleared the flag meanwhile: the new connection stays open and nobody reads it);
`Tick` ends the serving, `Cleanup` closes, `Retry` waits and goes on. A receiver
takes a `Turn` with the mutex, which picks the connection there is now, then
`Read`, `ReadTorn` (two readers of one connection share a frame), `ReadFails` or
`ReadClose`; `GiveUp` clears `w.connected` whichever connection it is by then;
`Finish` is the end of a command, with its answer. The panel sends (`Send`) over
the connection it accepted last and closes one it has replaced (`Replace`);
`Break` is the network.

A connection nothing refers to any more stands for a new one, so three connections
carry any number of reconnects. Three receivers at once are not in the model:
`Serve` waits for one of two to end. Left out: `Stop`, the choice among the
candidate URLs, decryption, and the diagnosis and upgrade commands, which run in
goroutines of their own.

### AgentServices

`reg` is ServiceRegistry (a paused service stays registered, closed), `config`
the configuration in memory with the number of entries of each name and the
"paused" marks, `disk` and `torn` the file. A command is `Receive`, one action
per item (`AddOpen`, `UpdateOne`, `PauseOne`, `ResumeOne`, ...), the change of the
configuration (`AddRegister`, `UpdateConfig`, ...), or an error where the code
returns one, then `SaveOpen` and `SaveWrite`: `saveConfig` runs after every
command whatever its answer, and `os.Create` cuts the file off before `Write`
fills it. `BindFails` is a port that cannot be bound, because someone else has
it (`MaxFaults`) or because a failed Add left its listener open (`leaked`, which
`Collect`, Go's finalizer, may close). `Kill` and `Boot` are the process. A port
that somebody else holds fails the start (`loader.go:220`) and systemd tries again,
a stutter here; RestartsAlways promises a start once the ports are free.

`mishaps` is a history of what went wrong; the properties say which mishaps they
except, so each says exactly which failure costs what.

### ForwardSync

One forward, its row (`fwd`), whether it has rows in `forward_port` (`ports`) and
the handlers at work (`task`). A handler works off a list of goals: "sync" is
UpdateService with all services of the record (`syncForwardServices`), "add" the
fallback, "clear" and "readd" the rebind of
`rebindForwardServiceOnSelfOccupiedPort`, "Pause", "Resume" and "Delete" the
commands of `controlForwardServices`, one for each variant of the name, "Pause
again" and "Resume again" the try after self-healing, "store" the rows an update
writes, "purge" the delete of `cleanOrphanedServices`. An answer selects the
action: `Synced`, `FallBack`, `Rebind`, `Clear`, `ControlName`, `ControlDone`,
`Heal`, `Refused`, `Purged`. `Refused` gives up the way the request does
(`UndoCreate`, `RollBack`, `SuspendAnyway`); `Finish` writes the row. The agent is
AgentServices, step by step, so commands of two handlers interleave and a kill can
fall anywhere. `Loses` is an error instead of an answer: the agent is gone, the
command was not sent, or it takes too long and runs on. `trouble` remembers that
two requests met, that an answer was lost, or a forced delete.

The services the model compares are those of one user-tunnel name base; the
handler has its answer before anybody else's command is sent, and reads
`forward_port` when it sends.

### Federation

The consuming panel's request is a `task`: TunnelCreate, TunnelUpdate,
TunnelRedeploy or TunnelDelete, then `Unchain` (the entry node forgets its chain),
`List`, `Released` and `Drop` (release what the bindings name), `Begin`,
`Reserved`, `ReserveAgain` (a port that was asked for is not free: any will do),
`Applied`, hop by hop from the exit to the entry, `Store` (rows, bindings,
Commit), `Entry` (the chain on the entry node) and `End`. A hop that fails
leads to `Undo`, which releases what was applied; so does `DialFails`, a middle hop
that has its port reserved and shares no address family with the next
(`mutations.go:2986`), whose own port stays reserved. A refused update leads to
`Conflict`; a failed entry node to `Undo` and then to `Cascade` or `Drop`.

The hops belong to the request, not to the tunnel: a create or an update asks for a
path of `Paths` (the exit first, then any number of middle hops), a redeploy takes
the one in the chain rows (`route`). An update may so replace the exit under a
middle hop that stays, or drop the middle hop.

The providing panel works off the `calls` in steps, those nobody waits for any
more included: `ReserveRead` and `ReserveWrite`; `ApplyRead`, `AddChain`,
`AddService`, `DeleteChain` after a failure, and `ApplyWrite`; `ReleaseRead`,
`DeleteService`, `DeleteChain`, `Mark`. Reads and writes are steps of their own
because `federation.go` has no transaction around them. `Loses` is a call whose
caller gives up, before it arrived, while it runs or after it ended. `db` is the
one connection of SQLite, held by a transaction from `Begin` to `Store` or `End`;
with PostgreSQL (`OneConn = FALSE`) nobody waits for it.

One local entry node; every hop is one node with a share of its own. Left out:
deletion, expiry and flow limits of a share, several nodes per hop, relay nodes of
the consuming panel itself, database errors, node commands that run late, and the
forwards synchronised after a deployment. Resource keys are tunnel, node and role,
and unique over all shares of the provider (`model.go:300`), but looked up within a
share: two consuming panels whose numbers are the same would fail each other's
reservations, or find each other's rows if they use the same share. The model has
one consuming panel. A create through a remote entry reads the configuration inside
its transaction as well (`mutations.go:613`); the model's entry is local.

### ServiceStats, TrafficReport, UserQuota

ServiceStats makes every access of a counter or the flag a step: a connection's
`AddBytes` or `AddOther` and then `SetUpdated`; the observer's `Tick`, `LoadIn`,
`LoadOut`, `Record`, `GetIn`, `GetOut`, `StoreIn`, `StoreOut`, and `Observe`. An
Observe that failed leaves its events `pending`, and a tick only retries them
(`Retry`), which may fail again. ResetTraffic computes what is left of a counter and
stores it: a byte that comes in between (`Computed`) is wiped, and `late` counts it.

TrafficReport has the agent's `Collect`, `Post`, `Unreachable`, `ReplyLost`,
`ReadOk`, `Clear`, `Restart` and the panel's `Book`, `BookFails`, `LookupFails`,
one ledger write at a time.

UserQuota has one action per transaction or node command of an enforcement
(`Upload`, `List`, `PauseOk`, `PauseFails`, `StatusOff`, `Mark`), of a release
(`Reset`, `Check`, `ResumeOk`, `ResumeFails`, `StatusOn`), of the nightly job
(`Roll`, `RollWrite`), of the user's own pause and resume (`UserOp`), and `Midnight`
and `Crash`. Uploads and resets lock the user's row (`FOR UPDATE`,
`repository_user_quota.go:116`). The nightly job reads it without a lock (`:336`)
and writes every column as it read it (`:356`), so `Roll` and `RollWrite` are two
steps and `seen` is what is carried between them; what SQLite does, where nothing
comes in between, is among the behaviours. A forward has several `Services` on its
nodes, and a pause or resume is a command for each: when one fails, any of them may
have taken effect (those before it, or the one that timed out), and `torn` remembers
the forward until a later command for it succeeds.

## 3. Runs

| Run | Configuration | What it shows |
|---|---|---|
| `ws` | MCWsServer.cfg | two commands, two nodes, two connections, every interleaving: channels are closed once, a replaced handler leaves its successor's session alone, the hub implements CommandCall, and every call returns |
| `ws_status` | MCWsServerStatus.cfg | *violated*: a node that reconnected can stay shown as offline |
| `agent` | MCAgentConn.cfg | reconnects without bound, receivers left over from earlier connections: a served connection is attended, no command waits for ever on a connection that stays open, the agent always connects again |
| `agent_order` | MCAgentConnOrder.cfg | *violated*: two commands run at once after a reconnect |
| `services` | MCAgentServices.cfg | six commands over two services, three busy ports, two kills: registry, configuration and file agree, and what makes them differ |
| `sync` | MCForwardSync.cfg | three requests, two at a time, one busy port, one lost answer, one kill, four of all these: what the panel shows or answers is what the agent does, and the services of a deleted forward end |
| `sync_paused` | MCForwardSyncPaused.cfg | *violated*: a paused forward is started again by a request that began before the pause |
| `federation` | MCFederation.cfg | two tunnels compete for the ports of three shares, updates take another exit or drop the middle hop, a call is lost or a command fails: tunnels that stand are whole, hops nobody has any more hold nothing, a port has one holder, every request is answered |
| `federation_sqlite` | MCFederationSqlite.cfg | *violated*: a request waits for ever for the connection its own transaction holds |
| `traffic` | MCTrafficReport.cfg | two services, two URLs, lost answers, failed writes, a restart: no byte is lost silently, none is booked twice unless an answer was lost, the ledgers agree |
| `stats` | MCServiceStats.cfg | three connections against the observer: nothing is recorded twice, no more is lost than came while a reset stored its result, and every other byte is recorded at last |
| `quota` | MCUserQuota.cfg | two handlers, the nightly job among them, nodes that fail a command half-way, a crash and a midnight: the forwards the quota paused come back, statuses are real, marks are justified, and what breaks each of these |

The four violated runs are the findings of PROJECT.json (section 7).

`CHECK_DEADLOCK FALSE` is in every configuration because every behaviour but the
agent's comes to an end: the calls, bytes, requests, faults or kills of an instance
are bounded, and an agent whose file was cut off does not start any more. A stop
that should not be is caught by the liveness properties instead; the one of
`federation_sqlite` is.

### What the exceptions in the properties mean

Many properties hold only while certain mishaps did not occur. Leaving an
exception out makes TLC find a behaviour of the code that breaks the property
(for PortsDistinct, a lost call shows with four requests, one more than the run has,
and two requests on one tunnel where the exit's share has one port; the theorem is for
any number).
So they read as a table of consequences:

| Property | Broken by |
|---|---|
| a gone forward is not served (`GoneIsGone`) | two requests that meet, a lost answer, a forced delete; never by a failure on the agent |
| a delete answered with OK left nothing (`OkIsDeleted`) | only by two requests that meet |
| a pause answered with OK stopped the services (`OkIsPaused`) | an update that failed midway (a service no longer registered is "not found" and skipped, its leftovers are made again later), a restart, two requests that meet; never by a lost answer |
| an active forward is served (`ShownIsServed`) | an update that failed midway ("already exists" of the fallback Add counts as success), two requests that meet, a lost answer, and a resume that restored one of two variants |
| a paused forward is silent (`PausedIsSilent`) | all of these, and a restart: the agent serves what its file holds, paused or not |
| services of gone forwards end (`OrphansGo`) | a service left registered but not configured, which no report names; an agent that cannot start |
| registry and configuration agree (`RegistryMatchesConfig`) | an update or a resume that failed midway, and nothing else |
| the agent starts again (`RestartsAlways`) | a kill while the file is written; a second entry of a name, made by the fallback Add after a failed update or resume |
| a tunnel with bindings is whole (`PathIsWhole`) | two requests for one tunnel, a call that was lost, a node command that failed: what a release left is taken for done by the next apply; an update refused for a port conflict, whose roles stay: an update to another exit then gets the middle hop as it is, with a chain to the exit that was refused (`federation.go:1041`) |
| a hop no binding names holds nothing at the provider (`GoneIsReleased`) | the same; two reservations of one port at once; a middle hop that cannot dial the next after its port was reserved |
| a port of a share has one holder (`PortsDistinct`) | two reservations that pick at once; two requests for one tunnel; a call that outlives its caller |
| bytes of a service are recorded once (`BytesAreAccounted`) | those that come while a reset stores its result are lost; none is ever recorded twice |
| forwards paused by the quota come back (`NoneForgotten`, `ReleaseRestores`) | two enforcements or releases that overlap or one cut off by a crash; a nightly job that writes over what was written since it read (a mark becomes "enabled, nothing paused"); a resume that fails, as the release has struck the forward off its list by then |
| the status of a forward is what all its services do (`StatusIsReal`) | two handlers that meet, a crash; a pause that failed (shown as active, some services stopped) or a resume that failed (shown as paused, some services running), until the next command for the forward succeeds |
| a disabled user is stopped (`DisabledIsStopped`) | the same |
| marks are justified (`MarkedWhenExceeded`) | two handlers that meet; never a midnight, a failed command or a reset before or after |

The statements without these exceptions are not listed as findings, since no
document of the repository promises them; the hazards name them.

## 4. Bounds

Bounds are constants (`Max...`) that appear in guards only.

* Two connections are enough for a replacement, and two commands for two callers
  that wait on the same or on different sessions.
* One byte, one upload, one transfer is one unit; two per service or kind are
  enough for "one in the batch, one that came since". The quota has a limit of two
  for the day and three for the month, so that a midnight lifts one and not the
  other; two services of a forward let a command fail between them.
* Two services are the two variants of a forward's name, and the least for
  "failed at the second item". Six commands reach a failed update, the fallback,
  a duplicate entry, a kill and a restart; three faults let the first and the
  second item of different commands fail.
* In ForwardSync three requests give create, one that changes the forward and one
  that meets it. `MaxGoals` stops the recursion of self-healing (a sync
  that heals a paused forward pauses it, which may heal again); four goals
  let it heal three times, one in the other.
  `MaxCommands` is 0 there, because the agent gets its commands from the handlers.
* AgentConn has three connections, two receivers and no other bound: two receivers
  can meet on a connection, and a third connection takes the place of one that
  both have left.
* Federation has two tunnels, a middle hop and two exits, two requests at a time,
  three requests in all or two and a fault. Paths are the middle hop with either exit
  or one exit alone. The middle hop's share has one port, so two tunnels cannot both
  have it; each exit's has two. A request names the last port for its hops or none;
  only updates of the first tunnel ask for other hops, and name no port.
* The action constraints `Modest` and `Few` (Federation) and `Few` (ForwardSync)
  bound together what the `Max...` constants bound one by one. They forbid the start
  of a request, a fault, or (Federation) a second kind of trouble, beside which a
  step that goes on is always open; so no step that some fairness needs is forbidden,
  and the liveness properties mean what they say.

Symmetry sets are used for safety only, over values the specifications treat
alike. Where a run has liveness properties, `InOrder` (WsServer, AgentConn) takes
interchangeable identities in the order of their numbers, which restricts nothing
but the names; the specification with it is `OrderedSpec`.

## 5. Fairness

* WsServer: goroutines that can run do run, and every wait has a deadline or a
  timer in the code (5 s for writes, the command's timeout). Nothing is assumed
  of agents, peers or new calls.
* AgentConn: the run goroutine goes on (weak). A receiver goes on although dials
  take the mutex again and again, as Go's mutex does not starve a waiter (strong);
  a dial tried for ever succeeds at last (strong), without which nothing connects.
  The panel closes what it has replaced (weak). Nothing is assumed of the order in
  which a dial and a receiver get the mutex, so the agent may fall into a rhythm
  in which a stale receiver spoils each new connection: that it stays connected
  for good is neither claimed nor true.
* ServiceStats: the ticker ticks, and an `Add` that began ends. An observer plugin
  does not fail for ever: a retry that fails changes nothing, so weak fairness of
  the observer asks for one that succeeds. The code tries again at every tick and
  has no other promise to give; with a plugin that never recovers, the bytes stay
  in the counters.
* ForwardSync: an HTTP handler runs to its end, as each command has a time limit;
  systemd starts the agent again (`install.sh:152`); the agent works through a
  command it began and reports its configuration again and again
  (`traffic_reporter.go:349`, every 10 minutes). Nothing is assumed of requests.
* Federation: a request that can go on does, and so does a call somebody waits
  for. A call nobody waits for may stop anywhere.

But for the two named it is weak fairness.

## 6. Proofs

The theorems hold for every value of the constants under the assumptions the
modules name (bounds are natural numbers, command lists are non-empty sequences
of services, the forward's variants are all services, `None` is no connection,
a share's ports lie within the range, a path begins with an exit, has no other, and
repeats no hop).

| Module | Proved | Inductive invariant and why |
|---|---|---|
| WsServerProofs | TypeOK, ChannelClosedOnce, OkMeansRan, NoEmptyChannel, PendingHasCaller; CallSpec, SessionIsTheOpenConn | `IInv`: a command that may still be answered is with exactly one party, either in `pending` or held by one handler, and its channel is fresh; taking it out of `pending` under the lock passes it on. ChannelClosedOnce alone says nothing of who may close next. For CallSpec each step of the hub is shown to be a step of CommandCall or a stutter (`StepCall`), with `OutcomeInv`: only a call that returned has an outcome. |
| AgentConnProofs | TypeOK, DownWhileDialling, Attended | `LoopInv`: the mutex is held exactly while dialling and the run goroutine knows its connection. The first receiver of a connection takes the mutex after the dial, so it sees the new connection or a cleared flag; a receiver that leaves it has cleared the flag. |
| AgentServicesProofs | TypeOK, SavedIsCurrent, RestartsAlways, PausedIsStopped, RegistryMatchesConfig | `DoneInv`: the items done so far say how the registry differs from the configuration in the middle of a command; `FileInv`, `OneInv`, `MarkInv` say what the file and the marks may hold. |
| ForwardSyncProofs | SyncTypeOK; the agent of AgentServices and its four promises also under the panel (SyncSpecIsAgentSpec, SyncSpecAgent); OkIsDeleted; GoneIsGone; OkIsPaused; ShownIsServed; PausedIsSilent | `IInv` of the agent again, each step of ForwardSync being a step of the agent or the receipt of a command; `TaskInv`: the agent works for a handler that waits for it; `MetInv`: two requests under way have met; `DeleteInv`: the names an undisturbed delete is through with are off the registry, the configuration and the file, so neither its next command nor a restart brings them back. For GoneIsGone also `CreateInv`: a create that fails has, after the rebind cleared what was there, left no name on the agent; and `GoneInv`: once the forward is gone nobody is at work who could make a service. For the other three, `PauseInv`, `ShowInv` and `FreeInv`; see below. |
| FederationProofs | TypeOK, PortsDistinct; PathIsWhole, GoneIsReleased | `Lone`: unless two requests met or a call was lost, every call belongs to a request at work on its tunnel and is its only one; `Applying`: what an apply read of its row still holds when it writes it back; `Picked`: a port that was picked is still free when it is written. PortsDistinct alone does not survive either write. For the other two `TunnelInv`; see below. |
| TrafficReportProofs | TypeOK, BatchIsHeld, NoUndercount, NoOvercount, LedgersAgree | `BookInv`: a ledger holds what was cleared, and already the batch of the request the agent waits for, for each book that request has finished; `BytesInv` ties the counters to history. NoOvercount and LedgersAgree count over all requests posted: `PostedInv` says of each service's bytes in them that each book has them or will. A sum is stated by a function that adds up (`IsSum`) instead of a definition by recursion, and shown unique by the smallest number at which two such functions differ. |
| ServiceStatsProofs | TypeOK, BytesAreAccounted, CountedIsAnnounced, ObserverOutlivesConns | `ReadInv`: what the observer read is still in the counter until it stores; `StoreInv`: what a reset is about to store, with what was recorded and what came late, is all that passed, which gives the bound on lost bytes across the store; `AnnounceInv`: without a flag, what it read is all there is. |
| UserQuotaProofs | TypeOK, NoneForgotten, ReleaseRestores, StatusIsReal, DisabledIsStopped, MarkedWhenExceeded | `SeenInv`: what the nightly job read is what the row holds when it writes, unless it is stale. `AloneInv`: a handler that enforces or releases is alone and the user is not disabled meanwhile, while all is `Orderly`. `ApartInv`, while no two met: a forward no handler has just commanded is `Real`, that is, its services are what its status says but for the failures `torn` remembers, and an upload that enforces has seen the usage exceeded; `DownInv`: nothing runs for a disabled user and nothing is about to, but for forwards in `torn`. |

**A request that pauses** (`PauseInv`). OkIsPaused speaks of the last step of a
request, so the invariant follows the request there: every name it has passed is
halted and stays so after a restart (`Stays`: marked as paused in memory and in
the file, if there at all), and when it is answered for the name it is at, that
one is halted too. An answer that the name is not there counts as much as OK;
that is right because of `KeptInv`: as long as no update failed midway, what is
not registered is not configured either, or marked as paused. That a request
which is to end paused passes a "Pause" last, whatever it made or healed before,
is a fact about lists of goals (`GoalsInv`: their last element). It survives lost
answers: a name that got none is an error, and the request does not end with OK.

**What is shown** (`ShowInv`, `FreeInv`). If no two requests met, nothing was lost
and no update or resume failed midway, a request takes one of few courses
(`Shapes`), in which no fallback, rebind, healing or give-up occurs
(`NoFallBack`). On those what the row shows stays on the agent, and in its file,
except while an update or a delete replaces it (`Present`, `Making`), so a control
finds it; an update that is answered left it serving; a resume leaves serving what
it has passed. At its end the row and the agent agree (`FreeFinish`), and this
(`FreeInv`) is what the next request begins with, and what kills and restarts in
between do not change. ShownIsServed and PausedIsSilent cannot be inductive: they
say nothing of a request at work, nor of the file a restart goes back to.
`SentInv`, `AloneInv` and `LossInv` say what the agent works on, that the request
at work has the row as it is, and that the agent works for nobody else.

**A tunnel over federated nodes** (`TunnelInv`). The invariant says `Smooth =>
Tunnelled`: unless something is excepted, an active row has a port and a service runs
on its row's port (`Ported`), and a tunnel that no request works on is `Sound`: the
hops of its bindings stand, served and dialling the one before, its entry node dials
the last, and every other hop is let go. A request at work is described step by step
(`Working`), for a path of any length: the first n hops stand and nothing else does
(`UpTo`), or nothing else but the one it is at (`Around`), of which `ReserveOK`,
`ApplyOK` and `ReleaseOK` say what its call has read and done at the provider. An
update to other hops is sound because `Drop` leaves nothing standing whatever path
was bound, so each apply finds its row released and its chain gone, and makes the
role with its new target; the old path plays no part after that. This is where
`conflict` enters: the roles of a refused update stand though no binding names them.
GoneIsReleased needs `Lucky` as well: after two raced reservations or a failed dial a
hop may keep its reservation, which PathIsWhole does not mind.

Each proof shows `Init => IInv`, `IInv /\ [Next]_vars => IInv'` with one step per
action, and `IInv => Property`; a last temporal step combines them.

DownWhileDialling, OkMeansRan, NoEmptyChannel, PendingHasCaller, BatchIsHeld and
ObserverOutlivesConns are proved but are no property of a run. DownWhileDialling
says that the tests of `w.connected` before and after a dial
(`websocket_reporter.go:225`, `:259`, `:294`) never fire.

Only model-checked: every liveness property (fairness and ENABLED are beyond
TLAPS here), that is CallReturns, CommandTaken, Reconnects, BytesAreCollected,
OrphansGo and Returns. Every invariant and every action property of the passing
runs is proved.

## 7. Findings

1. `ws/server.go:242`: the offline write of a replaced handler can land after the
   online write of its successor, and the node stays offline. `doc/install.md:81`
   says that it is then shown as online. Run `ws_status`.
2. `control_plane.go:319`: the status that decides whether to pause after an
   UpdateService was read when the request began, against the comment at `:317`
   that paused forwards are kept paused. Run `sync_paused`.
3. `websocket_reporter.go:475`: commands are in order within one receiver only, and
   a reconnect starts a second one beside it, against the comment at `:708` that
   the order of execution is ensured. Run `agent_order`.
4. `mutations.go:3051`: a release inside the open transaction of a create or an
   update queries the database once more. With SQLite's one connection the request
   waits for itself for ever, and the panel with it. `MIGRATION_PLAN.md:461` and
   `:464` say that this was repaired; it was for the apply, not for the release.
   Run `federation_sqlite`.

## 8. Not modelled, and the plan

| Next | Why | How |
|---|---|---|
| What a user sees | a forward that is absent, served or silent, and a tunnel that is bare or whole, as abstract specifications whose steps are the ends of requests | refinements by ForwardSync and Federation, from `FreeInv` and `TunnelInv`, while nothing is excepted |
| ForwardEngine | `forward_engine_nftables.go`, `forward_engine_realm.go`: apply, rollback and shrink protection as `docs/architecture/engine-abstraction-plan.md` states them | files, ruleset and a crash between two writes |
| TunnelRuntime | relay nodes of the panel itself: deploy with retries on busy ports, rollback, several nodes per hop | Federation's task with local commands in place of calls |
| Shares | making, expiry, flow limits and deletion of a share under a tunnel that uses it; commands relayed to a remote node | against Federation's rows |
| NodeUpgrade | `handler/upgrade.go`: flag, upgrade, redeploy once online, next to a reconnect | against the hub's sessions |
| Health checker, metrics buffer, diagnosis pool | smaller machines of their own | one module each |

Left out for good: the proxy core (listeners, handlers, dialers, limiters), which
is upstream code and a data path; encryption of messages, which is assumed to
deliver what was sent; the front end; schema, migrations and list queries;
scripts. They are most of the repository's lines, so the models cover a small part
of its text: the part in which the two programs keep state together. Within the
modelled components: other service name bases and the old name without variant,
several entry nodes, a change of tunnel, limiters and the bind address fallback of
ForwardSync; a crash of the panel in the middle of a request; chains, limiters,
`SetProtocol` and the SIGHUP reload of the agent; traffic ratios; admin sockets and
broadcasts of the hub.
