------------------------ MODULE AgentServicesProofs ------------------------
(***************************************************************************)
(* The agent's registry, configuration and file, for any services, command *)
(* lists and bounds.                                                       *)
(*                                                                         *)
(* The argument: what a command has done so far tells how the registry     *)
(* differs from the configuration in the middle of it (DoneInv); at its    *)
(* end the two agree, and the file follows before the next command.        *)
(***************************************************************************)
EXTENDS AgentServices, SequenceTheorems, TLAPS

\* What is through of the command: opened, serving anew, or closed.
DoneInv ==
  phase = "items" =>
    /\ op = "Add" => \A s \in done : reg[s] = "none"
    /\ op \in {"Update", "Resume"} => \A s \in done : reg[s] = "serving"
    /\ op = "Pause" => \A s \in done : reg[s] = "closed" /\ config.entries[s] > 0

\* The file follows the configuration; only a process killed in between leaves
\* it cut off.
FileInv ==
  /\ up /\ phase # "write" => ~torn
  /\ up /\ phase \in {"idle", "items"} => disk = config
  /\ ~up => phase = "idle" /\ (torn => "cut" \in mishaps)

\* A mark belongs to an entry.
MarkInv ==
  \A s \in Services :
    /\ s \in config.paused => config.entries[s] > 0
    /\ s \in disk.paused => disk.entries[s] > 0

\* As long as no update and no resume failed, what is not registered has no
\* entry, so an Add makes the first one.
OneInv ==
  mishaps \cap {"Update", "Resume"} = {} =>
    \A s \in Services :
      /\ reg[s] = "none" => config.entries[s] = 0
      /\ config.entries[s] <= 1 /\ disk.entries[s] <= 1

\* s was started anew by the command that runs; its mark is still there.
Restarted(s) == phase = "items" /\ op \in {"Update", "Resume"} /\ s \in done

StoppedInv ==
  mishaps \cap {"boot", "Update"} = {} =>
    \A s \in config.paused : config.entries[s] = 1 => reg[s] # "serving" \/ Restarted(s)

Matches(s) ==
  /\ reg[s] # "none" /\ ~(Restarted(s) /\ op = "Update") => config.entries[s] > 0
  /\ reg[s] = "closed" => s \in config.paused \/ (phase = "items" /\ op = "Pause" /\ s \in done)
  /\ s \in config.paused /\ "boot" \notin mishaps => reg[s] = "closed" \/ Restarted(s)

MatchInv == mishaps \cap {"Update", "Resume"} = {} => \A s \in Services : Matches(s)

IInv == TypeOK /\ DoneInv /\ FileInv /\ MarkInv /\ OneInv /\ StoppedInv /\ MatchInv

LEMMA InitIInv == Init => IInv
<1> SUFFICES ASSUME Init PROVE IInv
  OBVIOUS
<1>1. NoConfig \in Configs /\ NoServices \in [Services -> {"none", "serving", "closed"}]
  BY DEF NoConfig, Configs, NoServices
<1>2. TypeOK
  <2>1. RegistryTypeOK /\ ConfigTypeOK
    BY <1>1 DEF Init, RegistryTypeOK, ConfigTypeOK
  <2>2. CommandTypeOK
    BY EmptySeq DEF Init, CommandTypeOK
  <2>3. HistoryTypeOK
    BY BoundsAssumption DEF Init, HistoryTypeOK
  <2>4. QED
    BY <2>1, <2>2, <2>3 DEF Init, TypeOK
<1>3. DoneInv /\ FileInv /\ MarkInv /\ OneInv /\ StoppedInv /\ MatchInv
  BY DEF Init, DoneInv, FileInv, MarkInv, OneInv, StoppedInv, MatchInv, Matches, NoConfig, NoServices
<1>4. QED
  BY <1>2, <1>3 DEF IInv

Commands == {"Add", "Update", "Delete", "Pause", "Resume"}

\* A command from anywhere, whether or not it counts among the bounded ones, so
\* that what follows also holds in modules that extend AgentServices.
Receives(o, list) == Receive(o, list) /\ (Spend("command") \/ UNCHANGED budget)

AgentStep ==
  \/ \E o \in Commands, list \in Seq(Services) : Receives(o, list)
  \/ Step \/ Kill \/ Boot

LEMMA SpendType ==
  ASSUME HistoryTypeOK, NEW b \in {"command", "fault", "kill"}, Spend(b)
  PROVE  budget' \in [command : 0..MaxCommands, fault : 0..MaxFaults, kill : 0..MaxKills]
BY BoundsAssumption DEF HistoryTypeOK, Spend

\* A bind that fails is the doing of an Add, an update or a resume.
LEMMA BindType ==
  ASSUME HistoryTypeOK, NEW s \in Services, op \in {"Add", "Update", "Resume"},
         BindFails(s) \/ Binds(s)
  PROVE  HistoryTypeOK'
<1>1. mishaps' \subseteq {"Add", "Update", "Resume", "boot", "cut"}
  BY DEF BindFails, Binds, HistoryTypeOK
<1>2. budget' \in [command : 0..MaxCommands, fault : 0..MaxFaults, kill : 0..MaxKills]
  BY SpendType DEF BindFails, Binds, HistoryTypeOK
<1>3. QED
  BY <1>1, <1>2 DEF HistoryTypeOK

LEMMA NextItemType ==
  ASSUME CommandTypeOK, NEW o, NEW s \in Services, NextItem(o, s), done' = done \/ done' = done \cup {s}
  PROVE  CommandTypeOK'
<1>1. Tail(todo) \in Seq(Services)
  BY HeadTailProperties DEF NextItem, CommandTypeOK
<1>2. QED
  BY <1>1 DEF NextItem, CommandTypeOK

LEMMA ReturnType ==
  ASSUME CommandTypeOK, NEW r \in {"ok", "exists", "notfound", "inuse"}, Return(r)
  PROVE  CommandTypeOK'
BY DEF Return, CommandTypeOK

LEMMA TypeOKNext == TypeOK /\ [AgentStep]_vars => TypeOK'
<1> SUFFICES ASSUME TypeOK, [AgentStep]_vars PROVE TypeOK'
  OBVIOUS
<1>0. RegistryTypeOK /\ ConfigTypeOK /\ CommandTypeOK /\ HistoryTypeOK /\ up \in BOOLEAN
  BY DEF TypeOK
<1>r. UNCHANGED registry => RegistryTypeOK'
  BY <1>0 DEF registry, RegistryTypeOK
<1>c. UNCHANGED <<config, files>> => ConfigTypeOK'
  BY <1>0 DEF files, ConfigTypeOK
<1>m. UNCHANGED command => CommandTypeOK'
  BY <1>0 DEF command, CommandTypeOK
<1>h. UNCHANGED <<mishaps, budget>> => HistoryTypeOK'
  BY <1>0 DEF HistoryTypeOK
<1>u. UNCHANGED up => up' \in BOOLEAN
  BY <1>0
<1>1. ASSUME NEW o \in Commands, NEW list \in Seq(Services), Receives(o, list)
      PROVE  TypeOK'
  <2>1. CommandTypeOK'
    BY <1>0, <1>1 DEF Receive, Receives, Commands, CommandTypeOK
  <2>2. HistoryTypeOK'
    BY <1>0, <1>1, SpendType DEF Receive, Receives, HistoryTypeOK
  <2>3. QED
    BY <1>1, <2>1, <2>2, <1>r, <1>c, <1>u DEF Receive, Receives, TypeOK
<1>2. ASSUME NEW s \in Services,
             \/ AddOpen(s) \/ UpdateOne(s) \/ PauseOne(s) \/ ResumeSkips(s) \/ ResumeOne(s)
      PROVE  TypeOK'
  <2>1. CommandTypeOK'
    BY <1>0, <1>2, NextItemType DEF AddOpen, UpdateOne, PauseOne, ResumeSkips, ResumeOne
  <2>2. HistoryTypeOK'
    BY <1>0, <1>2, <1>h DEF Binds, AddOpen, UpdateOne, PauseOne, ResumeSkips, ResumeOne
  <2>3. RegistryTypeOK'
    BY <1>0, <1>2 DEF RegistryTypeOK, registry, AddOpen, UpdateOne, PauseOne, ResumeSkips, ResumeOne
  <2>4. UNCHANGED <<up, config, files>>
    BY <1>2 DEF AddOpen, UpdateOne, PauseOne, ResumeSkips, ResumeOne
  <2>5. QED
    BY <2>1, <2>2, <2>3, <2>4, <1>c, <1>u DEF TypeOK
<1>3. ASSUME NEW s \in Services,
             AddRefused(s) \/ AddFails(s) \/ UpdateFails(s) \/ PauseUnconfigured(s) \/ ResumeFails(s)
      PROVE  TypeOK'
  <2>1. CommandTypeOK'
    BY <1>0, <1>3, ReturnType DEF AddRefused, AddFails, UpdateFails, PauseUnconfigured, ResumeFails
  <2>2. HistoryTypeOK'
    <3>1. CASE AddRefused(s) \/ PauseUnconfigured(s)
      BY <1>0, <3>1 DEF AddRefused, PauseUnconfigured, HistoryTypeOK
    <3>2. CASE AddFails(s)
      <4>1. op = "Add"
        BY <3>2 DEF AddFails, Running
      <4>2. CASE BindFails(s)
        BY <1>0, <4>1, <4>2, BindType
      <4>3. CASE mishaps' = mishaps \cup {"Add"} /\ UNCHANGED budget
        BY <1>0, <4>3 DEF HistoryTypeOK
      <4>4. QED
        BY <3>2, <4>2, <4>3 DEF AddFails
    <3>3. CASE UpdateFails(s) \/ ResumeFails(s)
      BY <1>0, <3>3, BindType DEF UpdateFails, ResumeFails, Running
    <3>4. QED
      BY <1>3, <3>1, <3>2, <3>3
  <2>3. RegistryTypeOK'
    BY <1>0, <1>3
    DEF RegistryTypeOK, CommandTypeOK, registry, RolledBack, Leaks,
        AddRefused, AddFails, UpdateFails, PauseUnconfigured, ResumeFails
  <2>4. UNCHANGED <<up, config, files>>
    BY <1>3 DEF AddRefused, AddFails, UpdateFails, PauseUnconfigured, ResumeFails
  <2>5. QED
    BY <2>1, <2>2, <2>3, <2>4, <1>c, <1>u DEF TypeOK
<1>4. CASE AddRegister \/ UpdateConfig \/ DeleteAll \/ PauseMissing \/ PauseConfig \/ ResumeMissing \/ ResumeConfig
  <2>1. CommandTypeOK'
    BY <1>0, <1>4, ReturnType
    DEF AddRegister, UpdateConfig, DeleteAll, PauseMissing, PauseConfig, ResumeMissing, ResumeConfig
  <2>2. RegistryTypeOK'
    BY <1>0, <1>4
    DEF RegistryTypeOK, registry, AddRegister, UpdateConfig, DeleteAll, PauseMissing, PauseConfig,
        ResumeMissing, ResumeConfig
  <2>3. ConfigTypeOK'
    <3>0. config.entries \in [Services -> Nat] /\ config.paused \subseteq Services /\ done \subseteq Services
      BY <1>0 DEF ConfigTypeOK, Configs, CommandTypeOK
    <3>1. Upserted(config) \in Configs /\ Removed(config, Names(todo)) \in Configs
      BY <3>0 DEF Upserted, Removed, Configs
    <3>2. [config EXCEPT !.paused = @ \cup done] \in Configs /\ [config EXCEPT !.paused = @ \ done] \in Configs
      BY <1>0, <3>0 DEF ConfigTypeOK, Configs
    <3>3. [config EXCEPT !.entries = [s \in Services |-> IF s \in done THEN @[s] + 1 ELSE @[s]]] \in Configs
      BY <1>0, <3>0 DEF ConfigTypeOK, Configs
    <3>4. UNCHANGED files /\ (config' \in Configs \/ UNCHANGED config)
      BY <1>4, <3>1, <3>2, <3>3
      DEF AddRegister, UpdateConfig, DeleteAll, PauseMissing, PauseConfig, ResumeMissing, ResumeConfig
    <3>5. QED
      BY <1>0, <3>4 DEF files, ConfigTypeOK
  <2>4. UNCHANGED <<up, mishaps, budget>>
    BY <1>4 DEF AddRegister, UpdateConfig, DeleteAll, PauseMissing, PauseConfig, ResumeMissing, ResumeConfig
  <2>5. QED
    BY <2>1, <2>2, <2>3, <2>4, <1>h, <1>u DEF TypeOK
<1>5. CASE SaveOpen \/ SaveWrite
  <2>1. CommandTypeOK'
    BY <1>0, <1>5, EmptySeq DEF CommandTypeOK, SaveOpen, SaveWrite
  <2>2. ConfigTypeOK'
    BY <1>0, <1>5 DEF ConfigTypeOK, SaveOpen, SaveWrite
  <2>3. QED
    BY <1>5, <2>1, <2>2, <1>r, <1>h, <1>u DEF SaveOpen, SaveWrite, TypeOK
<1>6. CASE Kill
  <2>1. CommandTypeOK'
    BY <1>0, <1>6, EmptySeq DEF CommandTypeOK, Kill
  <2>2. ConfigTypeOK' /\ RegistryTypeOK'
    BY <1>0, <1>6 DEF ConfigTypeOK, RegistryTypeOK, Configs, NoConfig, NoServices, files, Kill
  <2>3. HistoryTypeOK'
    BY <1>0, <1>6, SpendType DEF HistoryTypeOK, Kill
  <2>4. QED
    BY <1>6, <2>1, <2>2, <2>3 DEF Kill, TypeOK
<1>7. CASE Boot
  <2>1. ConfigTypeOK' /\ RegistryTypeOK'
    BY <1>0, <1>7 DEF ConfigTypeOK, RegistryTypeOK, files, Boot
  <2>2. HistoryTypeOK'
    BY <1>0, <1>7 DEF HistoryTypeOK, Boot
  <2>3. QED
    BY <1>7, <2>1, <2>2, <1>m DEF Boot, TypeOK
<1>8. ASSUME NEW s \in Services, Collect(s) PROVE TypeOK'
  BY <1>0, <1>8, <1>c, <1>m, <1>h DEF Collect, RegistryTypeOK, TypeOK
<1>9. CASE UNCHANGED vars
  BY <1>9, <1>0, <1>r, <1>c, <1>m, <1>h DEF vars, TypeOK
<1>10. QED
  BY <1>1, <1>2, <1>3, <1>4, <1>5, <1>6, <1>7, <1>8, <1>9 DEF AgentStep, Step

\* What a step of the command does, and what else can happen.
CommandStep(s) ==
  \/ AddOpen(s) \/ AddRefused(s) \/ AddFails(s) \/ UpdateOne(s) \/ UpdateFails(s)
  \/ PauseOne(s) \/ PauseUnconfigured(s) \/ ResumeSkips(s) \/ ResumeOne(s) \/ ResumeFails(s)

\* History grows.
LEMMA MishapsNext == [AgentStep]_vars => mishaps \subseteq mishaps'
<1>1. ASSUME NEW s \in Services, CommandStep(s) PROVE mishaps \subseteq mishaps'
  BY <1>1 DEF CommandStep, AddOpen, AddRefused, AddFails, UpdateOne, UpdateFails, PauseOne,
              PauseUnconfigured, ResumeSkips, ResumeOne, ResumeFails, Binds, BindFails
<1>2. ASSUME NEW s \in Services, Collect(s) PROVE mishaps \subseteq mishaps'
  BY <1>2 DEF Collect
<1>3. CASE AddRegister \/ UpdateConfig \/ DeleteAll \/ PauseMissing \/ PauseConfig \/ ResumeMissing \/ ResumeConfig
  BY <1>3 DEF AddRegister, UpdateConfig, DeleteAll, PauseMissing, PauseConfig, ResumeMissing, ResumeConfig
<1>4. CASE SaveOpen \/ SaveWrite \/ Kill \/ Boot \/ UNCHANGED vars
  BY <1>4 DEF SaveOpen, SaveWrite, Kill, Boot, vars
<1>5. CASE \E o \in Commands, list \in Seq(Services) : Receives(o, list)
  BY <1>5 DEF Receive, Receives
<1>6. QED
  BY <1>1, <1>2, <1>3, <1>4, <1>5 DEF AgentStep, Step, CommandStep

LEMMA DoneNext == TypeOK /\ DoneInv /\ FileInv /\ [AgentStep]_vars => DoneInv'
<1> SUFFICES ASSUME TypeOK, DoneInv, FileInv, [AgentStep]_vars PROVE DoneInv'
  OBVIOUS
<1>0. CommandTypeOK /\ reg \in [Services -> {"none", "serving", "closed"}]
  BY DEF TypeOK, RegistryTypeOK
<1>1. ASSUME NEW s \in Services, CommandStep(s) PROVE DoneInv'
  <2>1. CASE AddOpen(s) \/ UpdateOne(s) \/ PauseOne(s) \/ ResumeSkips(s) \/ ResumeOne(s)
    BY <1>0, <2>1 DEF CommandTypeOK, DoneInv, registry, NextItem, Running,
                      AddOpen, UpdateOne, PauseOne, ResumeSkips, ResumeOne
  <2>2. CASE AddRefused(s) \/ AddFails(s) \/ UpdateFails(s) \/ PauseUnconfigured(s) \/ ResumeFails(s)
    BY <2>2 DEF DoneInv, Return, AddRefused, AddFails, UpdateFails, PauseUnconfigured, ResumeFails
  <2>3. QED
    BY <1>1, <2>1, <2>2 DEF CommandStep
<1>2. CASE AddRegister \/ UpdateConfig \/ DeleteAll \/ PauseMissing \/ PauseConfig \/ ResumeMissing \/ ResumeConfig
  BY <1>2 DEF DoneInv, Return, AddRegister, UpdateConfig, DeleteAll, PauseMissing, PauseConfig,
              ResumeMissing, ResumeConfig
<1>3. CASE SaveOpen \/ SaveWrite \/ Kill
  BY <1>3 DEF DoneInv, SaveOpen, SaveWrite, Kill
<1>4. CASE Boot
  BY <1>4 DEF DoneInv, FileInv, Boot, command
<1>5. CASE \E o \in Commands, list \in Seq(Services) : Receives(o, list)
  BY <1>5 DEF DoneInv, Receive, Receives
<1>6. CASE (\E s \in Services : Collect(s)) \/ UNCHANGED vars
  BY <1>6 DEF DoneInv, Collect, vars, command, registry
<1>7. QED
  BY <1>1, <1>2, <1>3, <1>4, <1>5, <1>6 DEF AgentStep, Step, CommandStep

LEMMA FileNext == TypeOK /\ FileInv /\ [AgentStep]_vars => FileInv'
<1> SUFFICES ASSUME TypeOK, FileInv, [AgentStep]_vars PROVE FileInv'
  OBVIOUS
<1>1. ASSUME NEW s \in Services, CommandStep(s) PROVE FileInv'
  <2>1. CASE AddOpen(s) \/ UpdateOne(s) \/ PauseOne(s) \/ ResumeSkips(s) \/ ResumeOne(s)
    BY <2>1 DEF FileInv, files, NextItem, Running, AddOpen, UpdateOne, PauseOne, ResumeSkips, ResumeOne
  <2>2. CASE AddRefused(s) \/ AddFails(s) \/ UpdateFails(s) \/ PauseUnconfigured(s) \/ ResumeFails(s)
    BY <2>2 DEF FileInv, files, Return, Running, AddRefused, AddFails, UpdateFails, PauseUnconfigured, ResumeFails
  <2>3. QED
    BY <1>1, <2>1, <2>2 DEF CommandStep
<1>2. CASE AddRegister \/ UpdateConfig \/ DeleteAll \/ PauseMissing \/ PauseConfig \/ ResumeMissing \/ ResumeConfig
  BY <1>2 DEF FileInv, files, Running, Return, AddRegister, UpdateConfig, DeleteAll, PauseMissing, PauseConfig,
              ResumeMissing, ResumeConfig
<1>3. CASE SaveOpen \/ SaveWrite
  BY <1>3 DEF FileInv, SaveOpen, SaveWrite
<1>4. CASE Kill
  BY <1>4 DEF FileInv, files, Kill
<1>5. CASE Boot
  BY <1>5 DEF FileInv, Boot, Bootable, command, files
<1>6. CASE \E o \in Commands, list \in Seq(Services) : Receives(o, list)
  BY <1>6 DEF FileInv, files, Receive, Receives
<1>7. CASE (\E s \in Services : Collect(s)) \/ UNCHANGED vars
  BY <1>7 DEF FileInv, Collect, vars, command, files
<1>8. QED
  BY <1>1, <1>2, <1>3, <1>4, <1>5, <1>6, <1>7 DEF AgentStep, Step, CommandStep

\* The steps that leave the configuration and the file alone.
LEMMA ConfigKept ==
  ASSUME \/ \E s \in Services : CommandStep(s) \/ Collect(s)
         \/ \E o \in Commands, list \in Seq(Services) : Receives(o, list)
         \/ PauseMissing \/ ResumeMissing \/ SaveOpen \/ UNCHANGED vars
  PROVE  UNCHANGED <<config, disk>>
BY DEF CommandStep, files, vars, AddOpen, AddRefused, AddFails, UpdateOne, UpdateFails, PauseOne,
       PauseUnconfigured, ResumeSkips, ResumeOne, ResumeFails, Collect, Receive, Receives, PauseMissing,
       ResumeMissing, SaveOpen

LEMMA MarkNext == TypeOK /\ DoneInv /\ MarkInv /\ [AgentStep]_vars => MarkInv'
<1> SUFFICES ASSUME TypeOK, DoneInv, MarkInv, [AgentStep]_vars PROVE MarkInv'
  OBVIOUS
<1>0. /\ config \in Configs /\ config.entries \in [Services -> Nat] /\ config.paused \subseteq Services
      /\ done \subseteq Services
  BY DEF TypeOK, ConfigTypeOK, Configs, CommandTypeOK
<1>1. CASE UNCHANGED <<config, disk>>
  BY <1>1 DEF MarkInv
<1>2. CASE AddRegister
  <2>1. /\ config'.paused = config.paused /\ disk' = disk
        /\ \A s \in Services : config'.entries[s] = (IF s \in done THEN config.entries[s] + 1 ELSE config.entries[s])
    BY <1>0, <1>2 DEF AddRegister, Configs, files
  <2>2. QED
    BY <1>0, <2>1 DEF MarkInv
<1>3. CASE UpdateConfig
  BY <1>0, <1>3 DEF UpdateConfig, Upserted, files, MarkInv
<1>4. CASE DeleteAll
  BY <1>0, <1>4 DEF DeleteAll, Removed, files, MarkInv
<1>5. CASE PauseConfig
  <2>1. config'.paused = config.paused \cup done /\ config'.entries = config.entries /\ disk' = disk
    BY <1>0, <1>5 DEF PauseConfig, Configs, files
  <2>2. \A s \in done : config.entries[s] > 0
    BY <1>5 DEF PauseConfig, Running, DoneInv
  <2>3. QED
    BY <2>1, <2>2 DEF MarkInv
<1>6. CASE ResumeConfig
  <2>1. config'.paused = config.paused \ done /\ config'.entries = config.entries /\ disk' = disk
    BY <1>0, <1>6 DEF ResumeConfig, Configs, files
  <2>2. QED
    BY <2>1 DEF MarkInv
<1>7. CASE SaveWrite
  BY <1>7 DEF SaveWrite, MarkInv
<1>8. CASE Kill
  BY <1>8 DEF Kill, NoConfig, files, MarkInv
<1>9. CASE Boot
  BY <1>9 DEF Boot, files, MarkInv
<1>10. QED
  BY <1>1, <1>2, <1>3, <1>4, <1>5, <1>6, <1>7, <1>8, <1>9, ConfigKept DEF AgentStep, Step, CommandStep

\* Only an update or a resume that fails leaves a name unregistered that has
\* an entry.
LEMMA OneNext == TypeOK /\ DoneInv /\ OneInv /\ [AgentStep]_vars => OneInv'
<1> SUFFICES ASSUME TypeOK, DoneInv, OneInv, [AgentStep]_vars, mishaps' \cap {"Update", "Resume"} = {}
             PROVE  \A s \in Services : /\ reg'[s] = "none" => config'.entries[s] = 0
                                       /\ config'.entries[s] <= 1 /\ disk'.entries[s] <= 1
  BY DEF OneInv
<1>0. /\ config \in Configs /\ config.entries \in [Services -> Nat] /\ disk.entries \in [Services -> Nat]
      /\ reg \in [Services -> {"none", "serving", "closed"}]
  BY DEF TypeOK, RegistryTypeOK, ConfigTypeOK, Configs
<1>1. \A s \in Services : /\ reg[s] = "none" => config.entries[s] = 0
                          /\ config.entries[s] <= 1 /\ disk.entries[s] <= 1
  BY MishapsNext DEF OneInv
<1>2. ASSUME UNCHANGED <<config, disk>>, \A s \in Services : reg'[s] = "none" => reg[s] = "none"
      PROVE  \A s \in Services : /\ reg'[s] = "none" => config'.entries[s] = 0
                                /\ config'.entries[s] <= 1 /\ disk'.entries[s] <= 1
  BY <1>1, <1>2
<1>3. ASSUME NEW s \in Services, CommandStep(s)
      PROVE  UNCHANGED <<config, disk>> /\ \A t \in Services : reg'[t] = "none" => reg[t] = "none"
  <2>1. CASE UpdateFails(s) \/ ResumeFails(s)
    BY <2>1 DEF UpdateFails, ResumeFails, BindFails, Running
  <2>2. CASE AddOpen(s) \/ AddRefused(s) \/ AddFails(s) \/ UpdateOne(s) \/ PauseOne(s)
             \/ PauseUnconfigured(s) \/ ResumeSkips(s) \/ ResumeOne(s)
    BY <1>0, <2>2 DEF registry, files, AddOpen, AddRefused, AddFails, UpdateOne, PauseOne, PauseUnconfigured, ResumeSkips, ResumeOne
  <2>3. QED
    BY <1>3, <2>1, <2>2 DEF CommandStep
<1>4. CASE AddRegister
  <2>1. /\ disk' = disk
        /\ \A s \in Services : config'.entries[s] = (IF s \in done THEN config.entries[s] + 1 ELSE config.entries[s])
        /\ \A s \in Services : reg'[s] = (IF s \in done THEN "serving" ELSE reg[s])
    BY <1>0, <1>4 DEF AddRegister, Configs, files
  <2>2. \A s \in done : reg[s] = "none"
    BY <1>4 DEF AddRegister, Running, DoneInv
  <2>3. QED
    BY <1>0, <1>1, <2>1, <2>2
<1>5. CASE UpdateConfig
  <2>1. /\ disk' = disk /\ reg' = reg
        /\ \A s \in Services : config'.entries[s] = (IF s \in done /\ config.entries[s] = 0 THEN 1 ELSE config.entries[s])
    BY <1>5 DEF UpdateConfig, Upserted, registry, files
  <2>2. \A s \in done : reg[s] = "serving"
    BY <1>5 DEF UpdateConfig, Running, DoneInv
  <2>3. QED
    BY <1>0, <1>1, <2>1, <2>2
<1>6. CASE DeleteAll
  BY <1>0, <1>1, <1>6 DEF DeleteAll, Removed, files
<1>7. CASE PauseConfig \/ ResumeConfig
  <2>1. config'.entries = config.entries /\ disk' = disk /\ reg' = reg
    BY <1>0, <1>7 DEF PauseConfig, ResumeConfig, Configs, registry, files
  <2>2. QED
    BY <1>1, <2>1
<1>8. CASE SaveWrite
  BY <1>1, <1>8 DEF SaveWrite, registry
<1>9. CASE Kill
  BY <1>1, <1>9 DEF Kill, NoConfig, NoServices, files
<1>10. CASE Boot
  BY <1>0, <1>1, <1>10 DEF Boot, Bootable, files
<1>11. CASE PauseMissing \/ ResumeMissing \/ SaveOpen \/ UNCHANGED vars
  BY <1>2, <1>11 DEF PauseMissing, ResumeMissing, SaveOpen, vars, registry, files
<1>12. ASSUME NEW s \in Services, Collect(s) PROVE UNCHANGED <<reg, config, disk>>
  BY <1>12 DEF Collect, files
<1>13. CASE \E o \in Commands, list \in Seq(Services) : Receives(o, list)
  BY <1>2, <1>13 DEF Receive, Receives, registry, files
<1>14. QED
  BY <1>2, <1>3, <1>4, <1>5, <1>6, <1>7, <1>8, <1>9, <1>10, <1>11, <1>12, <1>13 DEF AgentStep, Step, CommandStep

\* A marked service serves only while a command that starts it anew still runs.
LEMMA StoppedNext == TypeOK /\ DoneInv /\ FileInv /\ MarkInv /\ StoppedInv /\ [AgentStep]_vars => StoppedInv'
<1> SUFFICES ASSUME TypeOK, DoneInv, FileInv, MarkInv, StoppedInv, [AgentStep]_vars,
                    mishaps' \cap {"boot", "Update"} = {},
                    NEW t \in config'.paused, config'.entries[t] = 1
             PROVE  reg'[t] # "serving" \/ Restarted(t)'
  BY DEF StoppedInv
<1>0. /\ config \in Configs /\ config.entries \in [Services -> Nat] /\ config.paused \subseteq Services
      /\ reg \in [Services -> {"none", "serving", "closed"}] /\ done \subseteq Services
  BY DEF TypeOK, RegistryTypeOK, ConfigTypeOK, CommandTypeOK, Configs
<1>1. \A s \in config.paused : config.entries[s] = 1 => reg[s] # "serving" \/ Restarted(s)
  BY MishapsNext DEF StoppedInv
<1>2. CASE config' = config /\ reg' = reg /\ (Restarted(t) => Restarted(t)')
  BY <1>1, <1>2
<1>3. ASSUME NEW s \in Services, CommandStep(s)
      PROVE  reg'[t] # "serving" \/ Restarted(t)'
  <2>0. config' = config /\ t \in Services /\ (reg[t] # "serving" \/ Restarted(t))
    BY <1>0, <1>1, <1>3, ConfigKept
  <2>1. CASE AddOpen(s)
    BY <2>0, <2>1 DEF AddOpen, NextItem, Running, registry, Restarted
  <2>2. CASE AddRefused(s) \/ AddFails(s) \/ PauseUnconfigured(s)
    BY <2>0, <2>2 DEF AddRefused, AddFails, PauseUnconfigured, Running, registry, Restarted
  <2>3. CASE UpdateOne(s) \/ ResumeOne(s)
    BY <1>0, <2>0, <2>3 DEF UpdateOne, ResumeOne, NextItem, Running, Restarted
  <2>4. CASE UpdateFails(s)
    BY <2>4 DEF UpdateFails, BindFails, Running
  <2>5. CASE ResumeFails(s)
    BY <1>0, <2>0, <2>5 DEF ResumeFails, RolledBack, Running, Restarted
  <2>6. CASE PauseOne(s)
    BY <1>0, <2>0, <2>6 DEF PauseOne, NextItem, Running, Restarted
  <2>7. CASE ResumeSkips(s)
    BY <2>0, <2>7 DEF ResumeSkips, NextItem, Running, registry, Restarted
  <2>8. QED
    BY <1>3, <2>1, <2>2, <2>3, <2>4, <2>5, <2>6, <2>7 DEF CommandStep
<1>4. CASE AddRegister
  <2>1. /\ config'.paused = config.paused
        /\ \A s \in Services : config'.entries[s] = (IF s \in done THEN config.entries[s] + 1 ELSE config.entries[s])
        /\ \A s \in Services : reg'[s] = (IF s \in done THEN "serving" ELSE reg[s])
    BY <1>0, <1>4 DEF AddRegister, Configs
  <2>2. ~Restarted(t)
    BY <1>4 DEF AddRegister, Running, Restarted
  <2>3. config.entries[t] > 0 /\ t \in Services /\ config.entries[t] \in Nat
    BY <1>0, <2>1 DEF MarkInv
  <2>4. QED
    BY <1>0, <1>1, <2>1, <2>2, <2>3
<1>5. CASE UpdateConfig
  <2>1. t \in config.paused /\ t \notin done /\ config.entries[t] = 1 /\ reg' = reg
    BY <1>0, <1>5 DEF UpdateConfig, Upserted, registry
  <2>2. QED
    BY <1>1, <2>1 DEF Restarted
<1>6. CASE DeleteAll
  <2>1. t \in config.paused /\ config.entries[t] = 1 /\ reg'[t] = reg[t] /\ ~Restarted(t)
    BY <1>0, <1>6 DEF DeleteAll, Removed, Running, Restarted
  <2>2. QED
    BY <1>1, <2>1
<1>7. CASE PauseConfig
  <2>1. config'.paused = config.paused \cup done /\ config'.entries = config.entries /\ reg' = reg /\ ~Restarted(t)
    BY <1>0, <1>7 DEF PauseConfig, Configs, registry, Running, Restarted
  <2>2. \A s \in done : reg[s] = "closed"
    BY <1>7 DEF PauseConfig, Running, DoneInv
  <2>3. QED
    BY <1>1, <2>1, <2>2
<1>8. CASE ResumeConfig
  <2>1. t \in config.paused /\ t \notin done /\ config.entries[t] = 1 /\ reg' = reg
    BY <1>0, <1>8 DEF ResumeConfig, Configs, registry
  <2>2. QED
    BY <1>1, <2>1 DEF Restarted
<1>9. CASE SaveOpen \/ SaveWrite
  BY <1>2, <1>9 DEF SaveOpen, SaveWrite, registry, Restarted
<1>10. CASE Kill
  BY <1>10 DEF Kill, NoConfig
<1>11. CASE Boot
  <2>1. disk.paused = {}
    BY <1>11 DEF Boot
  <2>2. QED
    BY <1>11, <2>1 DEF Boot
<1>12. CASE PauseMissing \/ ResumeMissing
  BY <1>0, <1>1, <1>12 DEF PauseMissing, ResumeMissing, Running, Unregistered, Unresumable, registry, Restarted
<1>13. CASE (\E s \in Services : Collect(s)) \/ UNCHANGED vars
  BY <1>2, <1>13 DEF Collect, vars, command, registry, Restarted
<1>14. CASE \E o \in Commands, list \in Seq(Services) : Receives(o, list)
  BY <1>2, <1>14 DEF Receive, Receives, registry, Restarted
<1>15. QED
  BY <1>3, <1>4, <1>5, <1>6, <1>7, <1>8, <1>9, <1>10, <1>11, <1>12, <1>13, <1>14 DEF AgentStep, Step, CommandStep

\* As long as no update and no resume failed midway, what is registered has an entry, and
\* what is closed has a mark, up to the items of the command that runs.
LEMMA MatchNext == TypeOK /\ DoneInv /\ FileInv /\ MarkInv /\ OneInv /\ MatchInv /\ [AgentStep]_vars => MatchInv'
<1> SUFFICES ASSUME TypeOK, DoneInv, FileInv, MarkInv, OneInv, MatchInv, [AgentStep]_vars,
                    mishaps' \cap {"Update", "Resume"} = {},
                    NEW t \in Services
             PROVE  Matches(t)'
  BY DEF MatchInv
<1>0. /\ config \in Configs /\ config.entries \in [Services -> Nat] /\ config.paused \subseteq Services
      /\ reg \in [Services -> {"none", "serving", "closed"}] /\ done \subseteq Services
  BY DEF TypeOK, RegistryTypeOK, ConfigTypeOK, CommandTypeOK, Configs
<1>1. Matches(t) /\ mishaps \subseteq mishaps'
  BY MishapsNext DEF MatchInv
<1>2. reg[t] = "none" => config.entries[t] = 0
  BY <1>1 DEF OneInv
<1>3. ASSUME NEW s \in Services, CommandStep(s)
      PROVE  Matches(t)'
  <2>0. config' = config
    BY <1>3, ConfigKept
  <2>1. CASE AddOpen(s)
    BY <1>1, <2>0, <2>1 DEF AddOpen, NextItem, Running, registry, Restarted, Matches
  <2>2. CASE AddRefused(s)
    BY <1>0, <1>1, <2>0, <2>2 DEF AddRefused, Running, Return, registry, Restarted, Matches
  <2>p. CASE PauseUnconfigured(s)
    <3>1. s \in Names(todo)
      BY <2>p DEF PauseUnconfigured, Names, TypeOK, CommandTypeOK
    <3>2. reg[s] # "none" /\ ~Restarted(s)
      BY <2>p, <3>1 DEF PauseUnconfigured, Unregistered, Running, Restarted
    <3>3. config.entries[s] > 0
      BY <1>1, <3>2 DEF MatchInv, Matches
    <3>4. QED
      BY <2>p, <3>3 DEF PauseUnconfigured
  <2>3. CASE UpdateOne(s)
    BY <1>0, <1>1, <2>0, <2>3 DEF UpdateOne, NextItem, Running, Binds, Restarted, Matches
  <2>4. CASE ResumeOne(s)
    <3>1. config.entries[s] > 0
      BY <1>0, <2>4 DEF ResumeOne, MarkInv
    <3>2. QED
      BY <1>0, <1>1, <2>0, <2>4, <3>1 DEF ResumeOne, NextItem, Running, Binds, Restarted, Matches
  <2>5. CASE AddFails(s)
    BY <1>0, <1>1, <2>0, <2>5 DEF AddFails, Running, Return, Restarted, Matches
  <2>6. CASE UpdateFails(s) \/ ResumeFails(s)
    BY <2>6 DEF UpdateFails, ResumeFails, BindFails, Running
  <2>7. CASE PauseOne(s)
    BY <1>0, <1>1, <2>0, <2>7 DEF PauseOne, NextItem, Running, Restarted, Matches
  <2>8. CASE ResumeSkips(s)
    BY <1>1, <2>0, <2>8 DEF ResumeSkips, NextItem, Running, registry, Restarted, Matches
  <2>9. QED
    BY <1>3, <2>1, <2>2, <2>p, <2>3, <2>4, <2>5, <2>6, <2>7, <2>8 DEF CommandStep
<1>4. CASE AddRegister
  <2>1. /\ config'.paused = config.paused /\ mishaps' = mishaps
        /\ config'.entries[t] = (IF t \in done THEN config.entries[t] + 1 ELSE config.entries[t])
        /\ reg'[t] = (IF t \in done THEN "serving" ELSE reg[t])
    BY <1>0, <1>4 DEF AddRegister, Configs
  <2>2. ~Restarted(t) /\ phase = "items" /\ op = "Add" /\ (t \in done => reg[t] = "none") /\ phase' = "save"
    BY <1>4 DEF AddRegister, Running, Restarted, DoneInv, Return
  <2>3. t \in done => t \notin config.paused
    BY <1>2, <2>2 DEF MarkInv
  <2>4. QED
    BY <1>0, <1>1, <2>1, <2>2, <2>3 DEF Matches, Restarted
<1>5. CASE UpdateConfig
  <2>1. /\ config'.paused = config.paused \ done /\ reg' = reg /\ mishaps' = mishaps
        /\ config'.entries[t] = (IF t \in done /\ config.entries[t] = 0 THEN 1 ELSE config.entries[t])
    BY <1>5 DEF UpdateConfig, Upserted, registry
  <2>2. phase = "items" /\ op = "Update" /\ (t \in done => reg[t] = "serving") /\ phase' = "save"
    BY <1>5 DEF UpdateConfig, Running, DoneInv, Return
  <2>3. QED
    BY <1>0, <1>1, <2>1, <2>2 DEF Matches, Restarted
<1>6. CASE DeleteAll
  <2>1. Running("Delete") /\ phase' = "save" /\ mishaps' = mishaps
    BY <1>6 DEF DeleteAll, Return
  <2>2. CASE t \in Names(todo)
    BY <1>6, <2>1, <2>2 DEF DeleteAll, Removed, Matches
  <2>3. CASE t \notin Names(todo)
    <3>1. reg'[t] = reg[t] /\ config'.entries[t] = config.entries[t] /\ (t \in config'.paused <=> t \in config.paused)
      BY <1>6, <2>3 DEF DeleteAll, Removed
    <3>2. QED
      BY <1>1, <2>1, <3>1 DEF Running, Restarted, Matches
  <2>4. QED
    BY <2>2, <2>3
<1>7. CASE PauseConfig
  <2>1. config'.paused = config.paused \cup done /\ config'.entries = config.entries /\ reg' = reg /\ mishaps' = mishaps
    BY <1>0, <1>7 DEF PauseConfig, Configs, registry
  <2>2. (t \in done => reg[t] = "closed") /\ phase = "items" /\ op = "Pause" /\ phase' = "save"
    BY <1>7 DEF PauseConfig, Running, DoneInv, Return
  <2>3. QED
    BY <1>1, <2>1, <2>2 DEF Restarted, Matches
<1>8. CASE ResumeConfig
  <2>1. config'.paused = config.paused \ done /\ config'.entries = config.entries /\ reg' = reg /\ mishaps' = mishaps
    BY <1>0, <1>8 DEF ResumeConfig, Configs, registry
  <2>2. phase = "items" /\ op = "Resume" /\ phase' = "save"
    BY <1>8 DEF ResumeConfig, Running, Return
  <2>3. t \in done => reg[t] # "closed"
    BY <1>8, <2>2 DEF DoneInv
  <2>4. QED
    BY <1>1, <2>1, <2>2, <2>3 DEF Restarted, Matches
<1>9. CASE SaveOpen \/ SaveWrite
  BY <1>1, <1>9 DEF SaveOpen, SaveWrite, registry, Restarted, Matches
<1>10. CASE Kill
  BY <1>10 DEF Kill, NoConfig, NoServices, Matches
<1>11. CASE Boot
  BY <1>1, <1>11 DEF Boot, Bootable, Matches, FileInv, command
<1>12. CASE PauseMissing \/ ResumeMissing
  BY <1>1, <1>12 DEF PauseMissing, ResumeMissing, Running, Return, registry, Restarted, Matches
<1>13. CASE (\E s \in Services : Collect(s)) \/ UNCHANGED vars
  BY <1>1, <1>13 DEF Collect, vars, command, registry, Restarted, Matches
<1>14. CASE \E o \in Commands, list \in Seq(Services) : Receives(o, list)
  BY <1>1, <1>14 DEF Receive, Receives, registry, Restarted, Matches
<1>15. QED
  BY <1>3, <1>4, <1>5, <1>6, <1>7, <1>8, <1>9, <1>10, <1>11, <1>12, <1>13, <1>14 DEF AgentStep, Step, CommandStep

LEMMA IInvNext == IInv /\ [AgentStep]_vars => IInv'
BY TypeOKNext, DoneNext, FileNext, MarkNext, OneNext, StoppedNext, MatchNext DEF IInv

\* What the invariant is for.
LEMMA IInvPromises ==
  IInv => RegistryMatchesConfig /\ PausedIsStopped /\ RestartsAlways /\ SavedIsCurrent
<1>1. IInv => SavedIsCurrent
  BY DEF IInv, FileInv, SavedIsCurrent, AtRest
<1>2. IInv => RestartsAlways
  BY DEF IInv, TypeOK, FileInv, OneInv, RestartsAlways, Bootable
<1>3. IInv => PausedIsStopped
  BY DEF IInv, StoppedInv, Restarted, PausedIsStopped, AtRest
<1>4. ASSUME IInv, AtRest, mishaps \cap {"Update", "Resume"} = {}, NEW s \in Services
      PROVE  /\ config.entries[s] = (IF reg[s] = "none" THEN 0 ELSE 1)
             /\ reg[s] = "closed" => s \in config.paused
             /\ s \in config.paused /\ "boot" \notin mishaps => reg[s] = "closed"
  <2>1. config.entries[s] \in Nat /\ phase = "idle" /\ ~Restarted(s)
    BY <1>4 DEF IInv, TypeOK, ConfigTypeOK, Configs, AtRest, Restarted
  <2>2. config.entries[s] <= 1 /\ (reg[s] = "none" => config.entries[s] = 0)
    BY <1>4 DEF IInv, OneInv
  <2>3. Matches(s)
    BY <1>4 DEF IInv, MatchInv
  <2>4. QED
    BY <2>1, <2>2, <2>3 DEF Matches
<1>5. IInv => RegistryMatchesConfig
  BY <1>4 DEF RegistryMatchesConfig
<1>6. QED
  BY <1>1, <1>2, <1>3, <1>5

LEMMA SpecIInv == Spec => []IInv
<1>1. [Next]_vars => [AgentStep]_vars
  BY ListsAssumption DEF Next, Start, AgentStep, Receives, Commands
<1>2. QED
  BY InitIInv, IInvNext, <1>1, PTL DEF Spec

\* Type correctness of the registry, the configuration, the file and the
\* command (service.go, config.go).
THEOREM SpecTypeOK == Spec => []TypeOK
<1>1. IInv => TypeOK
  BY DEF IInv
<1>2. QED
  BY SpecIInv, <1>1, PTL

\* Between two commands gost.json is the configuration in memory (routeCommand's
\* saveConfig, websocket_reporter.go:851).
THEOREM SpecSavedIsCurrent == Spec => []SavedIsCurrent
BY SpecIInv, IInvPromises, PTL

\* A killed process starts again, unless the file was cut off or an update or a
\* resume failed before (loader.go, Load).
THEOREM SpecRestartsAlways == Spec => []RestartsAlways
BY SpecIInv, IInvPromises, PTL

\* A service that is marked as paused does not serve (service.go, pauseServices
\* and rollbackResumedServices).
THEOREM SpecPausedIsStopped == Spec => []PausedIsStopped
BY SpecIInv, IInvPromises, PTL

\* As long as no update and no resume fails midway, the registry is what the
\* configuration says (service.go, phase 3 or 4 of every command).
THEOREM SpecRegistryMatchesConfig == Spec => []RegistryMatchesConfig
BY SpecIInv, IInvPromises, PTL
=============================================================================
