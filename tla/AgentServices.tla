--------------------------- MODULE AgentServices ---------------------------
(***************************************************************************)
(* The forwarding services of a node agent: the registry of running        *)
(* services, the configuration in memory and in gost.json, and the         *)
(* commands that change them (go-gost/x/socket/service.go and config.go,   *)
(* websocket_reporter.go, config/loader/loader.go).                        *)
(*                                                                         *)
(* The agent runs one command after the other, item by item; a port may    *)
(* not be free when it is bound, and the process may be killed any time.   *)
(* Abstractions: a service has one port, and parsing it fails only when    *)
(* that port cannot be bound; chains and limiters are left out.            *)
(* Definitions named X_<word> are single-bug variants of X.                *)
(***************************************************************************)
EXTENDS Naturals, Sequences

CONSTANTS
  Services,    \* service names
  Lists,       \* name lists that commands carry
  MaxCommands, \* bound: commands
  MaxFaults,   \* bound: ports someone else holds when they are bound
  MaxKills     \* bound: times the process is killed

ASSUME ListsAssumption == Lists \subseteq Seq(Services) \ {<<>>}

ASSUME BoundsAssumption == MaxCommands \in Nat /\ MaxFaults \in Nat /\ MaxKills \in Nat

VARIABLES
  up,        \* the process runs
  reg,       \* ServiceRegistry: "none", or a service that is "serving" or "closed"
  leaked,    \* services with an open listener that no registered service owns
  config,    \* config.Global().Services
  disk,      \* gost.json
  torn,      \* gost.json is cut off
  phase,     \* where the command is: "idle", "items", "save" or "write"
  op,        \* the command
  todo,      \* its items still to go
  done,      \* its items that are done
  reply,     \* its answer
  mishaps,   \* history: what went wrong so far
  budget     \* what is left of each bound

registry == <<reg, leaked>>
files == <<disk, torn>>
command == <<phase, op, todo, done, reply>>
vars == <<up, registry, config, files, command, mishaps, budget>>

\* The number of entries of each name, and the names whose first entry says "paused".
Configs == [entries : [Services -> Nat], paused : SUBSET Services]

NoConfig == [entries |-> [s \in Services |-> 0], paused |-> {}]

NoServices == [s \in Services |-> "none"]

RegistryTypeOK == reg \in [Services -> {"none", "serving", "closed"}] /\ leaked \subseteq Services

ConfigTypeOK == config \in Configs /\ disk \in Configs /\ torn \in BOOLEAN

CommandTypeOK ==
  /\ phase \in {"idle", "items", "save", "write"}
  /\ op \in {"none", "Add", "Update", "Delete", "Pause", "Resume"}
  /\ todo \in Seq(Services) /\ done \subseteq Services
  /\ reply \in {"none", "ok", "exists", "notfound", "inuse"}

\* A command: it could not open a listener, or was refused with some open;
\* "boot": the process started with services marked as paused; "cut": it was
\* killed while it wrote gost.json.
HistoryTypeOK ==
  /\ mishaps \subseteq {"Add", "Update", "Resume", "boot", "cut"}
  /\ budget \in [command : 0..MaxCommands, fault : 0..MaxFaults, kill : 0..MaxKills]

TypeOK == up \in BOOLEAN /\ RegistryTypeOK /\ ConfigTypeOK /\ CommandTypeOK /\ HistoryTypeOK

Init ==
  /\ up = TRUE
  /\ reg = NoServices /\ leaked = {}
  /\ config = NoConfig /\ disk = NoConfig /\ torn = FALSE
  /\ phase = "idle" /\ op = "none" /\ todo = <<>> /\ done = {} /\ reply = "none"
  /\ mishaps = {}
  /\ budget = [command |-> MaxCommands, fault |-> MaxFaults, kill |-> MaxKills]

Spend(b) == budget[b] > 0 /\ budget' = [budget EXCEPT ![b] = @ - 1]

-----------------------------------------------------------------------------
(* A command *)

\* routeCommand.
Receive(o, list) ==
  /\ up /\ phase = "idle"
  /\ phase' = "items" /\ op' = o /\ todo' = list /\ done' = {} /\ reply' = "none"
  /\ UNCHANGED <<up, registry, config, files, mishaps>>

Start(o, list) == Receive(o, list) /\ Spend("command")

\* The items of command o that are still to go.
Running(o) == phase = "items" /\ op = o

\* The next item is through, in its handler's loop ...
NextItem(o, s) ==
  /\ Running(o) /\ todo # <<>> /\ s = Head(todo)
  /\ todo' = Tail(todo)
  /\ UNCHANGED <<phase, op, reply>>

Return_Unsaved(r) ==
  /\ phase' = (IF op = "Resume" THEN "idle" ELSE "save")
  /\ reply' = r
  /\ UNCHANGED <<op, todo, done>>

\* ... or the handler returns.
Return(r) == phase' = "save" /\ reply' = r /\ UNCHANGED <<op, todo, done>>

\* ParseService cannot open the listener of s.
BindFails(s) ==
  /\ \/ s \in leaked /\ UNCHANGED budget
     \/ s \notin leaked /\ Spend("fault")
  /\ mishaps' = mishaps \cup {op}

Binds(s) == s \notin leaked /\ UNCHANGED <<mishaps, budget>>

-----------------------------------------------------------------------------
(* createServices *)

\* Phase 1 opens the listener of a name that is not registered.
AddOpen(s) ==
  /\ NextItem("Add", s)
  /\ reg[s] = "none" /\ s \notin done
  /\ Binds(s)
  /\ done' = done \cup {s}
  /\ UNCHANGED <<up, registry, config, files>>

\* What an Add leaves behind that fails in phase 1.
Leaks == done

\* The name is registered: an error, and nobody closes the listeners opened so far.
AddRefused(s) ==
  /\ Running("Add") /\ todo # <<>> /\ s = Head(todo)
  /\ reg[s] # "none"
  /\ leaked' = leaked \cup Leaks
  /\ mishaps' = IF Leaks = {} THEN mishaps ELSE mishaps \cup {"Add"}
  /\ Return("exists")
  /\ UNCHANGED <<up, reg, config, files, budget>>

\* The same when the listener cannot be opened.
AddFails(s) ==
  /\ Running("Add") /\ todo # <<>> /\ s = Head(todo)
  /\ reg[s] = "none"
  /\ \/ BindFails(s)
     \/ s \in done /\ mishaps' = mishaps \cup {"Add"} /\ UNCHANGED budget
  /\ leaked' = leaked \cup Leaks
  /\ Return("inuse")
  /\ UNCHANGED <<up, reg, config, files>>

\* Phases 2 to 4; no name can have been registered since phase 1.
AddRegister ==
  /\ Running("Add") /\ todo = <<>>
  /\ reg' = [s \in Services |-> IF s \in done THEN "serving" ELSE reg[s]]
  /\ config' = [config EXCEPT !.entries = [s \in Services |-> IF s \in done THEN @[s] + 1 ELSE @[s]]]
  /\ Return("ok")
  /\ UNCHANGED <<up, leaked, files, mishaps, budget>>

-----------------------------------------------------------------------------
(* updateServices *)

UpdateOne(s) ==
  /\ NextItem("Update", s)
  /\ Binds(s)
  /\ reg' = [reg EXCEPT ![s] = "serving"]
  /\ done' = done \cup {s}
  /\ UNCHANGED <<up, leaked, config, files>>

\* The old service is closed and gone, the new one has no listener.
UpdateFails(s) ==
  /\ Running("Update") /\ todo # <<>> /\ s = Head(todo)
  /\ BindFails(s)
  /\ reg' = [reg EXCEPT ![s] = "none"]
  /\ Return("inuse")
  /\ UNCHANGED <<up, leaked, config, files>>

Upserted_Keeps(c) ==
  [c EXCEPT !.entries = [s \in Services |-> IF s \in done /\ @[s] = 0 THEN 1 ELSE @[s]]]

Upserted_Appends(c) ==
  [entries |-> [s \in Services |-> IF s \in done THEN c.entries[s] + 1 ELSE c.entries[s]],
   paused |-> c.paused \ done]

\* The entry of each item is replaced, or there is a new one.
Upserted(c) ==
  [entries |-> [s \in Services |-> IF s \in done /\ c.entries[s] = 0 THEN 1 ELSE c.entries[s]],
   paused |-> c.paused \ done]

UpdateConfig ==
  /\ Running("Update") /\ todo = <<>>
  /\ config' = Upserted(config)
  /\ Return("ok")
  /\ UNCHANGED <<up, registry, files, mishaps, budget>>

-----------------------------------------------------------------------------
(* deleteServices: nothing can fail *)

Names(list) == {list[i] : i \in DOMAIN list}

Removed_One(c, names) ==
  [entries |-> [s \in Services |-> IF s \in names THEN c.entries[s] - 1 ELSE c.entries[s]],
   paused |-> c.paused \ names]

\* Every entry of each name goes.
Removed(c, names) ==
  [entries |-> [s \in Services |-> IF s \in names THEN 0 ELSE c.entries[s]],
   paused |-> c.paused \ names]

DeleteAll ==
  /\ Running("Delete")
  /\ reg' = [s \in Services |-> IF s \in Names(todo) THEN "none" ELSE reg[s]]
  /\ config' = Removed(config, Names(todo))
  /\ Return("ok")
  /\ UNCHANGED <<up, leaked, files, mishaps, budget>>

-----------------------------------------------------------------------------
(* pauseServices *)

Unregistered == \E s \in Names(todo) : reg[s] = "none"

\* Every name is looked up before the first service is closed.
PauseMissing ==
  /\ Running("Pause") /\ done = {} /\ Unregistered
  /\ Return("notfound")
  /\ UNCHANGED <<up, registry, config, files, mishaps, budget>>

PauseOne(s) ==
  /\ NextItem("Pause", s)
  /\ ~Unregistered
  /\ config.entries[s] > 0
  /\ reg' = [reg EXCEPT ![s] = "closed"]
  /\ done' = done \cup {s}
  /\ UNCHANGED <<up, leaked, config, files, mishaps, budget>>

\* No entry: an error.  The rollback parses the services paused so far anew,
\* but cannot register them, as the closed ones still are: it changes nothing.
PauseUnconfigured(s) ==
  /\ Running("Pause") /\ todo # <<>> /\ s = Head(todo)
  /\ ~Unregistered
  /\ config.entries[s] = 0
  /\ Return("notfound")
  /\ UNCHANGED <<up, registry, config, files, mishaps, budget>>

PauseConfig ==
  /\ Running("Pause") /\ todo = <<>>
  /\ config' = [config EXCEPT !.paused = @ \cup done]
  /\ Return("ok")
  /\ UNCHANGED <<up, registry, files, mishaps, budget>>

-----------------------------------------------------------------------------
(* resumeServices *)

Unresumable == Unregistered \/ \E s \in Names(todo) : config.entries[s] = 0

ResumeMissing ==
  /\ Running("Resume") /\ done = {} /\ Unresumable
  /\ Return("notfound")
  /\ UNCHANGED <<up, registry, config, files, mishaps, budget>>

\* A service that is not marked as paused is skipped.
ResumeSkips(s) ==
  /\ NextItem("Resume", s)
  /\ ~Unresumable
  /\ s \notin config.paused
  /\ UNCHANGED <<up, registry, config, files, done, mishaps, budget>>

ResumeOne(s) ==
  /\ NextItem("Resume", s)
  /\ ~Unresumable
  /\ s \in config.paused
  /\ Binds(s)
  /\ reg' = [reg EXCEPT ![s] = "serving"]
  /\ done' = done \cup {s}
  /\ UNCHANGED <<up, leaked, config, files>>

RolledBack_Not == reg

\* rollbackResumedServices closes what was resumed; its mark is still there.
RolledBack == [t \in Services |-> IF t \in done THEN "closed" ELSE reg[t]]

\* The closed service is no more registered when its listener cannot be opened.
ResumeFails(s) ==
  /\ Running("Resume") /\ todo # <<>> /\ s = Head(todo)
  /\ ~Unresumable
  /\ s \in config.paused
  /\ BindFails(s)
  /\ reg' = [RolledBack EXCEPT ![s] = "none"]
  /\ Return("inuse")
  /\ UNCHANGED <<up, leaked, config, files>>

ResumeConfig ==
  /\ Running("Resume") /\ todo = <<>>
  /\ config' = [config EXCEPT !.paused = @ \ done]
  /\ Return("ok")
  /\ UNCHANGED <<up, registry, files, mishaps, budget>>

-----------------------------------------------------------------------------
(* saveConfig, after every command whatever its answer *)

\* os.Create cuts the file off ...
SaveOpen ==
  /\ phase = "save"
  /\ phase' = "write"
  /\ torn' = TRUE
  /\ UNCHANGED <<up, registry, config, disk, op, todo, done, reply, mishaps, budget>>

\* ... and Write fills it; the answer is sent.
SaveWrite ==
  /\ phase = "write"
  /\ phase' = "idle" /\ op' = "none" /\ todo' = <<>> /\ done' = {}
  /\ disk' = config /\ torn' = FALSE
  /\ UNCHANGED <<up, registry, config, reply, mishaps, budget>>

-----------------------------------------------------------------------------
(* The process *)

\* The garbage collector closes a TCP listener that nothing refers to; one for
\* UDP has a goroutine of its own and stays.
Collect(s) ==
  /\ s \in leaked
  /\ leaked' = leaked \ {s}
  /\ UNCHANGED <<up, reg, config, files, command, mishaps, budget>>

Kill ==
  /\ up
  /\ Spend("kill")
  /\ up' = FALSE
  /\ reg' = NoServices /\ leaked' = {} /\ config' = NoConfig
  /\ phase' = "idle" /\ op' = "none" /\ todo' = <<>> /\ done' = {} /\ reply' = "none"
  /\ mishaps' = IF phase = "write" THEN mishaps \cup {"cut"} ELSE mishaps
  /\ UNCHANGED files

\* gost.json parses, and no name is there twice: its port would not be free.
Bootable == ~torn /\ \A s \in Services : disk.entries[s] <= 1

\* Load registers and run serves every service of the file, paused or not.  When
\* somebody else has a port, the start fails and systemd tries again (a stutter).
Boot ==
  /\ ~up
  /\ Bootable
  /\ up' = TRUE
  /\ reg' = [s \in Services |-> IF disk.entries[s] = 1 THEN "serving" ELSE "none"]
  /\ config' = disk
  /\ mishaps' = IF disk.paused = {} THEN mishaps ELSE mishaps \cup {"boot"}
  /\ UNCHANGED <<leaked, files, command, budget>>

-----------------------------------------------------------------------------
Step ==
  \/ \E s \in Services :
       \/ AddOpen(s) \/ AddRefused(s) \/ AddFails(s) \/ UpdateOne(s) \/ UpdateFails(s)
       \/ PauseOne(s) \/ PauseUnconfigured(s) \/ ResumeSkips(s) \/ ResumeOne(s) \/ ResumeFails(s)
       \/ Collect(s)
  \/ AddRegister \/ UpdateConfig \/ DeleteAll \/ PauseMissing \/ PauseConfig
  \/ ResumeMissing \/ ResumeConfig \/ SaveOpen \/ SaveWrite

Next ==
  \/ \E o \in {"Add", "Update", "Delete", "Pause", "Resume"}, list \in Lists : Start(o, list)
  \/ Step \/ Kill \/ Boot

Spec == Init /\ [][Next]_vars

-----------------------------------------------------------------------------
AtRest == up /\ phase = "idle"

\* As long as no update and no resume fails midway, the registry is what the
\* configuration says: a name is configured once if it is registered, and closed
\* if it is marked as paused (or was, when the process started).
RegistryMatchesConfig ==
  AtRest /\ mishaps \cap {"Update", "Resume"} = {} =>
    \A s \in Services :
      /\ config.entries[s] = (IF reg[s] = "none" THEN 0 ELSE 1)
      /\ reg[s] = "closed" => s \in config.paused
      /\ s \in config.paused /\ "boot" \notin mishaps => reg[s] = "closed"

\* A service that is configured once and marked as paused does not serve,
\* unless an update failed midway or the process was started anew: a failed
\* resume closes again what it had resumed ("roll back if one fails",
\* service.go:394).
PausedIsStopped ==
  AtRest /\ mishaps \cap {"boot", "Update"} = {} =>
    \A s \in config.paused : config.entries[s] = 1 => reg[s] # "serving"

\* A killed process starts again from gost.json (config.go:13), unless it was
\* killed while it wrote the file, or an update or a resume failed and an Add
\* made a second entry of the same name.
RestartsAlways ==
  mishaps \cap {"Update", "Resume", "cut"} = {} => up \/ Bootable

\* Between two commands the file is what the process has in memory, whichever
\* command it was and however it ended, so a restart goes on from there.
SavedIsCurrent == AtRest => disk = config /\ ~torn
=============================================================================
