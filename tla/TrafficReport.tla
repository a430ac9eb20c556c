---------------------------- MODULE TrafficReport ----------------------------
(***************************************************************************)
(* Traffic accounting between a node agent and the panel: the agent's      *)
(* GlobalTrafficManager (go-gost/x/service/global_traffic_manager.go)      *)
(* accumulates the bytes of each service, posts them in batches, falling   *)
(* back from one URL to the next (traffic_reporter.go), and subtracts what *)
(* an "ok" confirmed; the panel's flowUpload handler books every item of a *)
(* batch in two ledgers, the flow counters and the user's quota.           *)
(*                                                                         *)
(* Abstractions: up and down bytes are one count; the tunnel's traffic     *)
(* ratio, a pure function of an item, is left out, so both ledgers count   *)
(* raw bytes; what follows an item's booking is modelled in UserQuota.     *)
(* Definitions named X_<word> are single-bug variants of X.                *)
(***************************************************************************)
EXTENDS Naturals, FiniteSets

CONSTANTS
  Services,      \* service names
  Urls,          \* number of candidate URLs of a report
  MaxBytes,      \* bound: bytes a service passes
  MaxPosts,      \* bound: HTTP requests posted
  MaxCrashes     \* bound: agent restarts

ASSUME ConstAssumption ==
  /\ Urls \in Nat \ {0}
  /\ MaxBytes \in Nat /\ MaxPosts \in Nat /\ MaxCrashes \in Nat

VARIABLES
  traffic,   \* serviceTraffic: bytes not yet confirmed, per service
  pc,        \* reportTicker's goroutine: "idle", "posting", "waiting" or "ok"
  batch,     \* reportData: the bytes of the report under way
  tries,     \* URLs left for it
  current,   \* the request whose answer it waits for
  posts,     \* requests posted so far
  reqs,      \* the panel's handler of each request: its batch and what it has to book
  ledger,    \* bytes booked by the panel, per ledger and service
  failed,    \* history: bytes whose booking failed
  added,     \* history: bytes handed to AddTraffic
  cleared,   \* history: bytes subtracted after an "ok"
  lost,      \* history: unconfirmed bytes of an agent that stopped
  resent,    \* history: an answer was lost
  crashes    \* agent restarts so far

agentVars == <<traffic, pc, batch, tries, current, posts>>
panelVars == <<reqs, ledger, failed>>
ghosts == <<added, cleared, lost, resent>>
vars == <<agentVars, panelVars, ghosts, crashes>>

Ledgers == {"flow", "quota"}

Books == Ledgers \X Services

Counts == [Services -> Nat]

NoBytes == [s \in Services |-> 0]

PostIds == 1..MaxPosts

NoReq == [batch |-> NoBytes, todo |-> {}]

AgentTypeOK ==
  /\ traffic \in Counts
  /\ pc \in {"idle", "posting", "waiting", "ok"}
  /\ batch \in Counts
  /\ tries \in 0..Urls
  /\ posts \in 0..MaxPosts
  /\ current \in 0..MaxPosts

PanelTypeOK ==
  /\ reqs \in [PostIds -> [batch : Counts, todo : SUBSET Books]]
  /\ ledger \in [Books -> Nat]
  /\ failed \in [Books -> Nat]

HistoryTypeOK ==
  added \in Counts /\ cleared \in Counts /\ lost \in Counts /\ resent \in BOOLEAN

TypeOK == AgentTypeOK /\ PanelTypeOK /\ HistoryTypeOK /\ crashes \in 0..MaxCrashes

Init ==
  /\ traffic = NoBytes
  /\ pc = "idle"
  /\ batch = NoBytes
  /\ tries = 0
  /\ posts = 0
  /\ current = 0
  /\ reqs = [p \in PostIds |-> NoReq]
  /\ ledger = [b \in Books |-> 0]
  /\ failed = [b \in Books |-> 0]
  /\ added = NoBytes /\ cleared = NoBytes /\ lost = NoBytes /\ resent = FALSE
  /\ crashes = 0

-----------------------------------------------------------------------------
(* The agent *)

\* A service's observer hands bytes over.
AddTraffic(s) ==
  /\ added[s] < MaxBytes
  /\ traffic' = [traffic EXCEPT ![s] = @ + 1]
  /\ added' = [added EXCEPT ![s] = @ + 1]
  /\ UNCHANGED <<pc, batch, tries, current, posts, panelVars, cleared, lost, resent, crashes>>

\* The ticker fires: copy every service that has traffic.
Collect ==
  /\ pc = "idle"
  /\ \E s \in Services : traffic[s] > 0
  /\ pc' = "posting"
  /\ batch' = traffic
  /\ tries' = Urls
  /\ UNCHANGED <<traffic, current, posts, panelVars, ghosts, crashes>>

\* The services a batch has an item for.
Items(b) == {s \in Services : b[s] > 0}

\* The request to the next URL reaches the panel: an HTTP handler starts.
Post ==
  /\ pc = "posting"
  /\ tries > 0
  /\ posts < MaxPosts
  /\ pc' = "waiting"
  /\ tries' = tries - 1
  /\ posts' = posts + 1
  /\ current' = posts + 1
  /\ reqs' = [reqs EXCEPT ![posts + 1] =
                [batch |-> batch, todo |-> Ledgers \X Items(batch)]]
  /\ UNCHANGED <<traffic, batch, ledger, failed, ghosts, crashes>>

\* The URL cannot be reached.
Unreachable ==
  /\ pc = "posting"
  /\ tries > 0
  /\ tries' = tries - 1
  /\ UNCHANGED <<traffic, pc, batch, current, posts, panelVars, ghosts, crashes>>

\* No answer within the client's timeout, or one that is cut off: the next
\* URL, whatever the panel does with the request meanwhile.
ReplyLost ==
  /\ pc = "waiting"
  /\ pc' = "posting"
  /\ resent' = TRUE
  /\ UNCHANGED <<traffic, batch, tries, current, posts, panelVars, added, cleared, lost, crashes>>

\* The report is over: the locals of collectAndReport are gone.
EndReport ==
  /\ pc' = "idle"
  /\ batch' = NoBytes
  /\ tries' = 0
  /\ current' = 0

\* The last URL failed: the bytes stay for the next tick.
GiveUp ==
  /\ pc = "posting"
  /\ tries = 0
  /\ EndReport
  /\ UNCHANGED <<traffic, posts, panelVars, ghosts, crashes>>

Answered_Early(p) == p \in PostIds

\* The handler is through with its items, so it has written "ok".
Answered(p) == reqs[p].todo = {}

ReadOk ==
  /\ pc = "waiting"
  /\ Answered(current)
  /\ pc' = "ok"
  /\ UNCHANGED <<traffic, batch, tries, current, posts, panelVars, ghosts, crashes>>

Remaining_Reset(t, b) == 0

Remaining_Kept(t, b) == t

Remaining_Swapped(t, b) == b - t

\* What is left of a service's bytes: those that came after the snapshot.
Remaining(t, b) == t - b

\* clearReportedTraffic.
Clear ==
  /\ pc = "ok"
  /\ EndReport
  /\ traffic' = [s \in Services |-> Remaining(traffic[s], batch[s])]
  /\ cleared' = [s \in Services |-> cleared[s] + batch[s]]
  /\ UNCHANGED <<posts, panelVars, added, lost, resent, crashes>>

\* The agent stops and starts again: its counters were only in memory.
Restart ==
  /\ crashes < MaxCrashes
  /\ crashes' = crashes + 1
  /\ EndReport
  /\ traffic' = NoBytes
  /\ lost' = [s \in Services |-> lost[s] + traffic[s]]
  /\ UNCHANGED <<posts, panelVars, added, cleared, resent>>

-----------------------------------------------------------------------------
(* The panel *)

\* Items are processed in turn, the flow counters before the quota.
Ready(p, b) ==
  /\ b \in reqs[p].todo
  /\ b[1] = "flow" => \A s \in Services : <<"quota", s>> \in reqs[p].todo => <<"flow", s>> \in reqs[p].todo
  /\ b[1] = "quota" => <<"flow", b[2]>> \notin reqs[p].todo

\* AddFlow or AddUserQuotaUsage commits.
Book(p, b) ==
  /\ Ready(p, b)
  /\ reqs' = [reqs EXCEPT ![p].todo = @ \ {b}]
  /\ ledger' = [ledger EXCEPT ![b] = @ + reqs[p].batch[b[2]]]
  /\ UNCHANGED <<agentVars, failed, ghosts, crashes>>

BookFails_Returns(p, b) ==
  /\ Ready(p, b)
  /\ reqs' = [reqs EXCEPT ![p].todo = @ \ (Ledgers \X {b[2]})]
  /\ failed' = [failed EXCEPT ![b] = @ + reqs[p].batch[b[2]]]
  /\ UNCHANGED <<agentVars, ledger, ghosts, crashes>>

\* It fails, and the handler carries on with "ok".
BookFails(p, b) ==
  /\ Ready(p, b)
  /\ reqs' = [reqs EXCEPT ![p].todo = @ \ {b}]
  /\ failed' = [failed EXCEPT ![b] = @ + reqs[p].batch[b[2]]]
  /\ UNCHANGED <<agentVars, ledger, ghosts, crashes>>

\* The look-up of the sending node fails: nothing is booked, and the answer is
\* "ok" all the same.
LookupFails(p) ==
  /\ reqs[p].todo # {}
  /\ reqs[p].todo = Ledgers \X Items(reqs[p].batch)
  /\ reqs' = [reqs EXCEPT ![p].todo = {}]
  /\ failed' = [b \in Books |-> failed[b] + reqs[p].batch[b[2]]]
  /\ UNCHANGED <<agentVars, ledger, ghosts, crashes>>

-----------------------------------------------------------------------------
Next ==
  \/ \E s \in Services : AddTraffic(s)
  \/ Collect \/ Post \/ Unreachable \/ ReplyLost \/ GiveUp \/ ReadOk \/ Clear \/ Restart
  \/ \E p \in PostIds : LookupFails(p) \/ \E b \in Books : Book(p, b) \/ BookFails(p, b)

Spec == Init /\ [][Next]_vars

-----------------------------------------------------------------------------
(* What makes the accounting correct *)

\* While the agent runs, every byte is either still with it or booked in
\* both ledgers, whatever requests and answers get lost: the only ways to
\* lose bytes are an agent restart and a ledger write that fails
\* (global_traffic_manager.go: only reported bytes are cleared).
NoUndercount ==
  \A b \in Books : ledger[b] + failed[b] + traffic[b[2]] + lost[b[2]] >= added[b[2]]

\* Bytes are booked twice only when an answer was lost: before that, retries
\* and restarts never inflate a ledger.
NoOvercount ==
  ~resent => \A b \in Books : ledger[b] + failed[b] <= added[b[2]]

\* The agent's count never falls below what the report under way will
\* subtract, so it cannot go negative or drop bytes added meanwhile.
BatchIsHeld ==
  pc # "idle" => \A s \in Services : batch[s] <= traffic[s]

\* The two ledgers disagree only while an item is between its two writes, or
\* after a write failed (flow_policy.go processFlowItem).
LedgersAgree ==
  (\A p \in PostIds, s \in Services : <<"quota", s>> \in reqs[p].todo => <<"flow", s>> \in reqs[p].todo)
    => \A s \in Services : ledger[<<"flow", s>>] + failed[<<"flow", s>>]
                             = ledger[<<"quota", s>>] + failed[<<"quota", s>>]
=============================================================================
