------------------------ MODULE TrafficReportProofs ------------------------
(***************************************************************************)
(* No byte is lost between the agent's counters and the panel's ledgers,   *)
(* for any number of services, URLs and requests, with answers and ledger  *)
(* writes that fail and agents that restart.                               *)
(*                                                                         *)
(* The argument: what was subtracted from the counters was booked before.  *)
(* It is inductive once it also covers the request under way: a ledger     *)
(* already holds the batch of the request the agent waits for, for every   *)
(* book that request has no more to do.                                    *)
(*                                                                         *)
(* No byte is booked twice because all requests together still have to     *)
(* book no more than what was posted, PostedInv; the ledgers agree because *)
(* a sum is unique.  Sums are over any number of requests.                 *)
(***************************************************************************)
EXTENDS TrafficReport, WellFoundedInduction, TLAPS

\* The agent awaits, or has just read, the answer to its current request.
Awaiting == pc \in {"waiting", "ok"}

\* Every byte handed over is still counted, was cleared, or died with an agent.
BytesInv == \A s \in Services : added[s] = traffic[s] + cleared[s] + lost[s]

\* The report under way.
ReportInv ==
  /\ BatchIsHeld
  /\ Awaiting => /\ current \in PostIds /\ current <= posts
                 /\ reqs[current].batch = batch
  /\ pc = "ok" => reqs[current].todo = {}

\* A book holds what was cleared, and the batch of the current request once
\* that request has no more to do for it.
BookInv ==
  \A b \in Books :
    /\ ledger[b] + failed[b] >= cleared[b[2]]
    /\ Awaiting /\ b \notin reqs[current].todo =>
         ledger[b] + failed[b] >= cleared[b[2]] + batch[b[2]]

IInv == TypeOK /\ BytesInv /\ ReportInv /\ BookInv

LEMMA InitIInv == Init => IInv
<1> SUFFICES ASSUME Init PROVE IInv
  OBVIOUS
<1> USE ConstAssumption DEF Init, NoBytes
<1>1. TypeOK
  <2>1. NoBytes \in Counts
    BY DEF Counts
  <2>2. HistoryTypeOK
    <3>1. resent \in BOOLEAN
      OBVIOUS
    <3>2. added \in Counts /\ cleared \in Counts /\ lost \in Counts
      BY <2>1
    <3> QED
      BY <3>1, <3>2, Zenon DEF HistoryTypeOK
  <2>3. AgentTypeOK
    BY <2>1 DEF AgentTypeOK
  <2>4. PanelTypeOK
    BY <2>1 DEF PanelTypeOK, NoReq, PostIds
  <2>5. crashes \in 0..MaxCrashes
    OBVIOUS
  <2>6. QED
    BY <2>2, <2>3, <2>4, <2>5 DEF TypeOK
<1>2. BytesInv
  BY DEF BytesInv
<1>3. ReportInv
  BY DEF ReportInv, BatchIsHeld, Awaiting
<1>4. BookInv
  BY DEF BookInv, Awaiting, Books
<1>5. QED
  BY <1>1, <1>2, <1>3, <1>4 DEF IInv

LEMMA BookedBytes ==
  ASSUME TypeOK, NEW p \in PostIds, NEW b \in Books
  PROVE  reqs[p].batch[b[2]] \in Nat
BY DEF TypeOK, PanelTypeOK, Books, Counts

LEMMA TypeOKNext == TypeOK /\ ReportInv /\ [Next]_vars => TypeOK'
<1> SUFFICES ASSUME TypeOK, ReportInv, [Next]_vars PROVE TypeOK'
  OBVIOUS
<1>0. AgentTypeOK /\ PanelTypeOK /\ HistoryTypeOK /\ crashes \in 0..MaxCrashes
  BY DEF TypeOK
<1>a. UNCHANGED agentVars => AgentTypeOK'
  BY <1>0 DEF agentVars, AgentTypeOK
<1>p. UNCHANGED panelVars => PanelTypeOK'
  BY <1>0 DEF panelVars, PanelTypeOK
<1>h. UNCHANGED ghosts => HistoryTypeOK'
  BY <1>0 DEF ghosts, HistoryTypeOK
<1>1. ASSUME NEW s \in Services, AddTraffic(s) PROVE TypeOK'
  <2>1. AgentTypeOK'
    BY <1>0, <1>1 DEF AddTraffic, AgentTypeOK, Counts
  <2>2. HistoryTypeOK'
    BY <1>0, <1>1 DEF AddTraffic, HistoryTypeOK, Counts
  <2>3. QED
    BY <1>0, <1>p, <1>1, <2>1, <2>2 DEF AddTraffic, TypeOK
<1>2. CASE Collect
  <2>1. AgentTypeOK'
    BY <1>0, <1>2, ConstAssumption DEF Collect, AgentTypeOK
  <2>2. QED
    BY <1>0, <1>p, <1>h, <1>2, <2>1 DEF Collect, TypeOK
<1>3. CASE Post
  <2>1. AgentTypeOK'
    BY <1>0, <1>3, ConstAssumption DEF Post, AgentTypeOK
  <2>2. reqs' \in [PostIds -> [batch : Counts, todo : SUBSET Books]]
    <3>1. [batch |-> batch, todo |-> Ledgers \X Items(batch)] \in [batch : Counts, todo : SUBSET Books]
      BY <1>0 DEF Items, Books, AgentTypeOK
    <3> QED
      BY <1>0, <1>3, <3>1 DEF Post, PanelTypeOK
  <2>3. PanelTypeOK'
    BY <1>0, <1>3, <2>2 DEF Post, PanelTypeOK
  <2>4. QED
    BY <1>0, <1>h, <1>3, <2>1, <2>3 DEF Post, TypeOK
<1>4. CASE Unreachable
  <2>1. AgentTypeOK'
    BY <1>0, <1>4, ConstAssumption DEF Unreachable, AgentTypeOK
  <2>2. QED
    BY <1>0, <1>p, <1>h, <1>4, <2>1 DEF Unreachable, TypeOK
<1>5. CASE ReplyLost \/ ReadOk
  <2>1. AgentTypeOK'
    BY <1>0, <1>5 DEF ReplyLost, ReadOk, AgentTypeOK
  <2>2. QED
    BY <1>0, <1>p, <1>h, <1>5, <2>1 DEF ReplyLost, ReadOk, TypeOK, HistoryTypeOK
<1>6. NoBytes \in Counts
  BY DEF NoBytes, Counts
<1>7. CASE GiveUp
  <2>1. AgentTypeOK'
    BY <1>0, <1>6, <1>7, ConstAssumption DEF GiveUp, EndReport, AgentTypeOK
  <2>2. QED
    BY <1>0, <1>p, <1>h, <1>7, <2>1 DEF GiveUp, TypeOK
<1>8. CASE Clear
  <2>1. traffic' \in Counts
    <3>1. \A s \in Services : traffic[s] - batch[s] \in Nat
      BY <1>0, <1>8 DEF Clear, ReportInv, BatchIsHeld, AgentTypeOK, Counts
    <3> QED
      BY <1>8, <3>1 DEF Clear, Remaining, Counts
  <2>2. AgentTypeOK'
    BY <1>0, <1>6, <1>8, <2>1, ConstAssumption DEF Clear, EndReport, AgentTypeOK
  <2>3. HistoryTypeOK'
    BY <1>0, <1>8 DEF Clear, HistoryTypeOK, AgentTypeOK, Counts
  <2>4. QED
    BY <1>0, <1>p, <1>8, <2>2, <2>3 DEF Clear, TypeOK
<1>9. CASE Restart
  <2>1. AgentTypeOK'
    BY <1>0, <1>6, <1>9, ConstAssumption DEF Restart, EndReport, AgentTypeOK
  <2>2. HistoryTypeOK'
    BY <1>0, <1>9 DEF Restart, HistoryTypeOK, AgentTypeOK, Counts
  <2>3. crashes' \in 0..MaxCrashes
    BY <1>0, <1>9, ConstAssumption DEF Restart
  <2>4. QED
    BY <1>p, <1>9, <2>1, <2>2, <2>3 DEF Restart, TypeOK
<1>10. ASSUME NEW p \in PostIds, NEW b \in Books, Book(p, b) \/ BookFails(p, b) PROVE TypeOK'
  <2>1. reqs' \in [PostIds -> [batch : Counts, todo : SUBSET Books]]
    BY <1>0, <1>10 DEF Book, BookFails, PanelTypeOK
  <2>2. ledger' \in [Books -> Nat] /\ failed' \in [Books -> Nat]
    <3>1. reqs[p].batch[b[2]] \in Nat
      BY BookedBytes
    <3>2. \A f \in [Books -> Nat] : [f EXCEPT ![b] = @ + reqs[p].batch[b[2]]] \in [Books -> Nat]
      BY <3>1
    <3> QED
      BY <1>0, <1>10, <3>2 DEF Book, BookFails, PanelTypeOK
  <2>3. QED
    BY <1>0, <1>a, <1>h, <1>10, <2>1, <2>2 DEF Book, BookFails, TypeOK, PanelTypeOK
<1>11. ASSUME NEW p \in PostIds, LookupFails(p) PROVE TypeOK'
  <2>1. reqs' \in [PostIds -> [batch : Counts, todo : SUBSET Books]]
    BY <1>0, <1>11 DEF LookupFails, PanelTypeOK
  <2>2. failed' \in [Books -> Nat]
    <3>1. \A b \in Books : reqs[p].batch[b[2]] \in Nat
      BY BookedBytes
    <3>2. \A b \in Books : failed[b] \in Nat
      BY <1>0 DEF PanelTypeOK
    <3>3. \A b \in Books : failed[b] + reqs[p].batch[b[2]] \in Nat
      BY <3>1, <3>2
    <3> QED
      BY <1>11, <3>3 DEF LookupFails
  <2>3. QED
    BY <1>0, <1>a, <1>h, <1>11, <2>1, <2>2 DEF LookupFails, TypeOK, PanelTypeOK
<1>12. CASE UNCHANGED vars
  BY <1>0, <1>a, <1>p, <1>h, <1>12 DEF vars, TypeOK
<1>13. QED
  BY <1>1, <1>2, <1>3, <1>4, <1>5, <1>7, <1>8, <1>9, <1>10, <1>11, <1>12 DEF Next

LEMMA BytesInvNext == TypeOK /\ ReportInv /\ BytesInv /\ [Next]_vars => BytesInv'
<1> SUFFICES ASSUME TypeOK, ReportInv, BytesInv, [Next]_vars PROVE BytesInv'
  OBVIOUS
<1> USE DEF TypeOK, AgentTypeOK, PanelTypeOK, HistoryTypeOK, Counts, BytesInv
<1>1. ASSUME NEW s \in Services, AddTraffic(s) PROVE BytesInv'
  BY <1>1 DEF AddTraffic
<1>2. CASE Clear
  BY <1>2 DEF Clear, Remaining, ReportInv, BatchIsHeld
<1>3. CASE Restart
  BY <1>3 DEF Restart, NoBytes
<1>4. CASE UNCHANGED <<traffic, ghosts>>
  BY <1>4 DEF ghosts
<1>5. QED
  BY <1>1, <1>2, <1>3, <1>4 DEF Next, vars, agentVars, panelVars, ghosts, Collect, Post,
     Unreachable, ReplyLost, GiveUp, ReadOk, Book, BookFails, LookupFails

LEMMA ReportInvNext == TypeOK /\ ReportInv /\ [Next]_vars => ReportInv'
<1> SUFFICES ASSUME TypeOK, ReportInv, [Next]_vars PROVE ReportInv'
  OBVIOUS
<1> USE ConstAssumption DEF TypeOK, AgentTypeOK, PanelTypeOK, HistoryTypeOK, Counts, PostIds, ReportInv, BatchIsHeld, Awaiting
<1>1. ASSUME NEW s \in Services, AddTraffic(s) PROVE ReportInv'
  BY <1>1 DEF AddTraffic, panelVars
<1>2. CASE Collect
  BY <1>2 DEF Collect, panelVars
<1>3. CASE Post
  BY <1>3 DEF Post
<1>4. CASE Unreachable
  BY <1>4 DEF Unreachable, panelVars
<1>5. CASE ReplyLost
  BY <1>5 DEF ReplyLost, panelVars
<1>6. CASE GiveUp \/ Clear \/ Restart
  BY <1>6 DEF GiveUp, Clear, Restart, EndReport
<1>7. CASE ReadOk
  BY <1>7 DEF ReadOk, Answered, panelVars
<1>8. ASSUME NEW p \in PostIds, NEW b \in Books, Book(p, b) PROVE ReportInv'
  BY <1>8 DEF Book, Ready, agentVars
<1>9. ASSUME NEW p \in PostIds, NEW b \in Books, BookFails(p, b) PROVE ReportInv'
  BY <1>9 DEF BookFails, Ready, agentVars
<1>10. ASSUME NEW p \in PostIds, LookupFails(p) PROVE ReportInv'
  BY <1>10 DEF LookupFails, agentVars
<1>11. CASE UNCHANGED vars
  BY <1>11 DEF vars, agentVars, panelVars
<1>12. QED
  BY <1>1, <1>2, <1>3, <1>4, <1>5, <1>6, <1>7, <1>8, <1>9, <1>10, <1>11 DEF Next

\* Booking some items of a request, in either of two outcomes.
LEMMA BookStep ==
  ASSUME TypeOK, ReportInv, BookInv, NEW p \in PostIds, NEW D \in SUBSET reqs[p].todo,
         reqs' = [reqs EXCEPT ![p].todo = @ \ D], UNCHANGED <<agentVars, ghosts>>,
         \/ /\ \A b \in Books : ledger'[b] = ledger[b] + (IF b \in D THEN reqs[p].batch[b[2]] ELSE 0)
            /\ UNCHANGED failed
         \/ /\ \A b \in Books : failed'[b] = failed[b] + (IF b \in D THEN reqs[p].batch[b[2]] ELSE 0)
            /\ UNCHANGED ledger
  PROVE  BookInv'
<1> DEFINE Sum(b) == ledger[b] + failed[b]
<1> SUFFICES ASSUME NEW b \in Books
             PROVE  /\ Sum(b)' >= cleared[b[2]]
                    /\ Awaiting /\ b \notin reqs'[current].todo => Sum(b)' >= cleared[b[2]] + batch[b[2]]
  BY DEF BookInv, agentVars, ghosts, Awaiting
<1>1. /\ b[2] \in Services /\ ledger[b] \in Nat /\ failed[b] \in Nat
      /\ cleared[b[2]] \in Nat /\ batch[b[2]] \in Nat /\ reqs[p].batch[b[2]] \in Nat
  BY BookedBytes DEF TypeOK, AgentTypeOK, PanelTypeOK, HistoryTypeOK, Books, Counts
<1>2. Sum(b)' = Sum(b) + (IF b \in D THEN reqs[p].batch[b[2]] ELSE 0)
  BY <1>1
<1>3. /\ Sum(b) >= cleared[b[2]]
      /\ Awaiting /\ b \notin reqs[current].todo => Sum(b) >= cleared[b[2]] + batch[b[2]]
  BY DEF BookInv
<1>4. Sum(b) \in Nat /\ Sum(b)' >= Sum(b)
  BY <1>1, <1>2
<1>5. Awaiting /\ b \notin reqs'[current].todo /\ b \in reqs[current].todo
        => b \in D /\ reqs[p].batch = batch
  BY DEF TypeOK, AgentTypeOK, PanelTypeOK, HistoryTypeOK, ReportInv, PostIds
<1> HIDE DEF Sum
<1>6. QED
  BY <1>1, <1>2, <1>3, <1>4, <1>5

LEMMA BookInvNext == TypeOK /\ ReportInv /\ BookInv /\ [Next]_vars => BookInv'
<1> SUFFICES ASSUME TypeOK, ReportInv, BookInv, [Next]_vars PROVE BookInv'
  OBVIOUS
<1>0. \A b \in Books : /\ b[2] \in Services /\ cleared[b[2]] \in Nat /\ batch[b[2]] \in Nat
                       /\ b = <<b[1], b[2]>> /\ b[1] \in Ledgers
  BY DEF TypeOK, AgentTypeOK, PanelTypeOK, HistoryTypeOK, Books, Counts
<1> USE <1>0 DEF BookInv, Awaiting
<1>1. CASE \E s \in Services : AddTraffic(s)
  BY <1>1 DEF AddTraffic, panelVars
<1>2. CASE Collect
  BY <1>2 DEF Collect, panelVars, ghosts
<1>3. CASE Post
  <2>1. posts + 1 \in PostIds
    BY <1>3, ConstAssumption DEF Post, PostIds, TypeOK, AgentTypeOK, PanelTypeOK, HistoryTypeOK
  <2>2. \A b \in Books : b \notin reqs'[current'].todo => batch[b[2]] = 0
    BY <1>3, <2>1 DEF Post, Items, TypeOK, AgentTypeOK, PanelTypeOK, HistoryTypeOK, Counts
  <2>3. UNCHANGED <<ledger, failed, cleared, batch>>
    BY <1>3 DEF Post, ghosts
  <2>4. QED
    BY <2>2, <2>3
<1>4. CASE Unreachable \/ ReplyLost
  BY <1>4 DEF Unreachable, ReplyLost, panelVars, ghosts
<1>5. CASE GiveUp
  BY <1>5 DEF GiveUp, EndReport, panelVars, ghosts
<1>6. CASE ReadOk
  BY <1>6 DEF ReadOk, panelVars, ghosts
<1>7. CASE Clear
  <2>1. \A b \in Books : ledger[b] + failed[b] >= cleared[b[2]] + batch[b[2]]
    BY <1>7 DEF Clear, ReportInv
  <2>2. UNCHANGED <<ledger, failed>> /\ pc' = "idle"
    BY <1>7 DEF Clear, EndReport, panelVars
  <2>3. \A s \in Services : cleared'[s] = cleared[s] + batch[s]
    BY <1>7 DEF Clear
  <2>4. QED
    BY <2>1, <2>2, <2>3
<1>8. CASE Restart
  BY <1>8 DEF Restart, EndReport, panelVars
<1>9. ASSUME NEW p \in PostIds, NEW d \in Books, Book(p, d) PROVE BookInv'
  <2>1. \A b \in Books : ledger'[b] = ledger[b] + (IF b \in {d} THEN reqs[p].batch[b[2]] ELSE 0)
    <3>1. ledger' = [ledger EXCEPT ![d] = @ + reqs[p].batch[d[2]]] /\ ledger \in [Books -> Nat]
      BY <1>9 DEF Book, TypeOK, AgentTypeOK, PanelTypeOK, HistoryTypeOK
    <3>2. \A b \in Books : ledger[b] \in Nat
      BY <3>1
    <3> QED
      BY <3>1, <3>2
  <2>2. UNCHANGED <<agentVars, ghosts>> /\ reqs' = [reqs EXCEPT ![p].todo = @ \ {d}] /\ {d} \subseteq reqs[p].todo
    BY <1>9 DEF Book, Ready
  <2>3. UNCHANGED failed
    BY <1>9 DEF Book
  <2>4. QED
    BY <2>1, <2>2, <2>3, BookStep
<1>10. ASSUME NEW p \in PostIds, NEW d \in Books, BookFails(p, d) PROVE BookInv'
  <2>1. \A b \in Books : failed'[b] = failed[b] + (IF b \in {d} THEN reqs[p].batch[b[2]] ELSE 0)
    <3>1. failed' = [failed EXCEPT ![d] = @ + reqs[p].batch[d[2]]] /\ failed \in [Books -> Nat]
      BY <1>10 DEF BookFails, TypeOK, AgentTypeOK, PanelTypeOK, HistoryTypeOK
    <3>2. \A b \in Books : failed[b] \in Nat
      BY <3>1
    <3> QED
      BY <3>1, <3>2
  <2>2. UNCHANGED <<agentVars, ghosts>> /\ reqs' = [reqs EXCEPT ![p].todo = @ \ {d}] /\ {d} \subseteq reqs[p].todo
    BY <1>10 DEF BookFails, Ready
  <2>3. UNCHANGED ledger
    BY <1>10 DEF BookFails
  <2>4. QED
    BY <2>1, <2>2, <2>3, BookStep
<1>11. ASSUME NEW p \in PostIds, LookupFails(p) PROVE BookInv'
  <2>1. \A b \in Books : failed'[b] = failed[b] + (IF b \in reqs[p].todo THEN reqs[p].batch[b[2]] ELSE 0)
    <3>1. \A b \in Books : /\ failed'[b] = failed[b] + reqs[p].batch[b[2]]
                           /\ failed[b] \in Nat /\ reqs[p].batch[b[2]] \in Nat
      BY <1>11, BookedBytes DEF LookupFails, TypeOK, AgentTypeOK, PanelTypeOK, HistoryTypeOK
    <3>2. \A b \in Books : b \notin reqs[p].todo => reqs[p].batch[b[2]] = 0
      BY <1>11, <3>1 DEF LookupFails, Items
    <3> QED
      BY <3>1, <3>2
  <2>2. UNCHANGED <<agentVars, ghosts>> /\ reqs' = [reqs EXCEPT ![p].todo = @ \ reqs[p].todo]
    BY <1>11 DEF LookupFails
  <2>3. UNCHANGED ledger
    BY <1>11 DEF LookupFails
  <2>4. QED
    BY <2>1, <2>2, <2>3, BookStep
<1>12. CASE UNCHANGED vars
  BY <1>12 DEF vars, agentVars, panelVars, ghosts
<1>13. QED
  BY <1>1, <1>2, <1>3, <1>4, <1>5, <1>6, <1>7, <1>8, <1>9, <1>10, <1>11, <1>12 DEF Next

\* The inductive invariant.
THEOREM SpecIInv == Spec => []IInv
<1>1. IInv /\ [Next]_vars => IInv'
  BY TypeOKNext, BytesInvNext, ReportInvNext, BookInvNext DEF IInv
<1>2. QED
  BY InitIInv, <1>1, PTL DEF Spec

\* Type correctness of the accounting.
THEOREM SpecTypeOK == Spec => []TypeOK
<1>1. IInv => TypeOK
  BY DEF IInv
<1>2. QED
  BY SpecIInv, <1>1, PTL

\* The agent never subtracts more than it counted: clearReportedTraffic
\* leaves the bytes that came while the report was under way.
THEOREM SpecBatchIsHeld == Spec => []BatchIsHeld
<1>1. IInv => BatchIsHeld
  BY DEF IInv, ReportInv
<1>2. QED
  BY SpecIInv, <1>1, PTL

\* Every byte is still counted by the agent, booked in both ledgers, or
\* accounted to a failed write or a restart.
THEOREM SpecNoUndercount == Spec => []NoUndercount
<1>1. IInv => NoUndercount
  <2> SUFFICES ASSUME IInv, NEW b \in Books
               PROVE  ledger[b] + failed[b] + traffic[b[2]] + lost[b[2]] >= added[b[2]]
    BY DEF NoUndercount
  <2>1. b[2] \in Services
    BY DEF Books
  <2>2. ledger[b] + failed[b] >= cleared[b[2]]
    BY <2>1 DEF IInv, BookInv, TypeOK, AgentTypeOK, PanelTypeOK, HistoryTypeOK, Counts
  <2>3. QED
    BY <2>1, <2>2 DEF IInv, BytesInv, TypeOK, AgentTypeOK, PanelTypeOK, HistoryTypeOK, Counts
<1>2. QED
  BY SpecIInv, <1>1, PTL

-----------------------------------------------------------------------------
(* Sums over the requests *)

\* x is the sum of v over the requests, by a function that adds it up.  The
\* witness spares a definition by recursion, which the provers cannot unfold.
IsSum(v, x) ==
  \E f \in [0..MaxPosts -> Int] :
    /\ f[0] = 0 /\ f[MaxPosts] = x
    /\ \A p \in PostIds : f[p] = f[p - 1] + v[p]

\* A set of natural numbers has a smallest one.
LEMMA Smallest ==
  ASSUME NEW T \in SUBSET Nat, T # {}
  PROVE  \E x \in T : \A y \in T : ~(y < x)
<1>1. PICK x \in T : \A y \in T : ~(<<y, x>> \in OpToRel(<, Nat))
  BY NatLessThanWellFounded, WFMin
<1>2. \A y \in T : y < x => <<y, x>> \in OpToRel(<, Nat)
  BY DEF OpToRel
<1>3. QED
  BY <1>1, <1>2

LEMMA SumOfNone ==
  ASSUME NEW v \in [PostIds -> Nat], \A p \in PostIds : v[p] = 0
  PROVE  IsSum(v, 0)
<1> DEFINE f == [p \in 0..MaxPosts |-> 0]
<1>1. f \in [0..MaxPosts -> Int] /\ f[0] = 0 /\ f[MaxPosts] = 0
  BY ConstAssumption
<1>2. \A p \in PostIds : f[p] = f[p - 1] + v[p]
  BY ConstAssumption DEF PostIds
<1>3. QED
  BY <1>1, <1>2 DEF IsSum

\* One request's share changes, and the sum with it.
LEMMA SumChanges ==
  ASSUME NEW v \in [PostIds -> Nat], NEW w \in [PostIds -> Nat], NEW p \in PostIds,
         \A q \in PostIds \ {p} : w[q] = v[q],
         NEW x \in Int, IsSum(v, x)
  PROVE  IsSum(w, x + w[p] - v[p])
<1>1. PICK f \in [0..MaxPosts -> Int] :
         /\ f[0] = 0 /\ f[MaxPosts] = x
         /\ \A q \in PostIds : f[q] = f[q - 1] + v[q]
  BY DEF IsSum
<1> DEFINE g == [q \in 0..MaxPosts |-> IF q >= p THEN f[q] + w[p] - v[p] ELSE f[q]]
<1>2. g \in [0..MaxPosts -> Int] /\ g[0] = 0 /\ g[MaxPosts] = x + w[p] - v[p]
  <2>1. p \in Nat /\ 0 < p /\ p <= MaxPosts /\ w[p] \in Int /\ v[p] \in Int
    BY ConstAssumption DEF PostIds
  <2>2. \A q \in 0..MaxPosts : f[q] \in Int /\ f[q] + w[p] - v[p] \in Int
    BY <2>1
  <2>3. g \in [0..MaxPosts -> Int]
    BY <2>2
  <2>4. g[0] = 0
    <3>1. 0 \in 0..MaxPosts /\ ~(0 >= p)
      BY <2>1, ConstAssumption
    <3>2. QED
      BY <1>1, <3>1
  <2>5. g[MaxPosts] = x + w[p] - v[p]
    <3>1. MaxPosts \in 0..MaxPosts /\ MaxPosts >= p
      BY <2>1, ConstAssumption
    <3>2. QED
      BY <1>1, <3>1
  <2>6. QED
    BY <2>3, <2>4, <2>5
<1>3. ASSUME NEW q \in PostIds PROVE g[q] = g[q - 1] + w[q]
  <2>1. /\ q \in 0..MaxPosts /\ q - 1 \in 0..MaxPosts /\ q \in Int /\ p \in Int
        /\ f[q] \in Int /\ f[q - 1] \in Int /\ w[q] \in Int /\ v[q] \in Int
        /\ w[p] \in Int /\ v[p] \in Int
    BY <1>1, ConstAssumption DEF PostIds
  <2>2. f[q] = f[q - 1] + v[q]
    BY <1>1
  <2>3. q # p => w[q] = v[q]
    OBVIOUS
  <2>4. CASE q = p
    BY <2>1, <2>2, <2>4
  <2>5. CASE q # p
    BY <2>1, <2>2, <2>3, <2>5
  <2>6. QED
    BY <2>4, <2>5
<1> HIDE DEF g
<1>4. QED
  BY <1>2, <1>3 DEF IsSum

\* A sum is not negative, and 0 if there is nothing to add.
LEMMA SumIsNat ==
  ASSUME NEW v \in [PostIds -> Nat], NEW x, IsSum(v, x)
  PROVE  x \in Nat /\ ((\A p \in PostIds : v[p] = 0) => x = 0)
<1>1. PICK f \in [0..MaxPosts -> Int] :
         /\ f[0] = 0 /\ f[MaxPosts] = x
         /\ \A q \in PostIds : f[q] = f[q - 1] + v[q]
  BY DEF IsSum
<1> DEFINE Bad == {i \in 0..MaxPosts : f[i] < 0 \/ ((\A p \in PostIds : v[p] = 0) /\ f[i] # 0)}
<1>2. ASSUME Bad # {} PROVE FALSE
  <2>1. Bad \in SUBSET Nat
    OBVIOUS
  <2>2. PICK i \in Bad : \A j \in Bad : ~(j < i)
    <3> HIDE DEF Bad
    <3> QED BY <1>2, <2>1, Smallest
  <2>3. i \in PostIds /\ i - 1 \in 0..MaxPosts /\ i - 1 \notin Bad /\ i - 1 < i
    <3>1. i \in 0..MaxPosts /\ i # 0
      BY <1>1
    <3>2. i \in PostIds /\ i - 1 \in 0..MaxPosts /\ i - 1 < i
      BY <3>1, ConstAssumption DEF PostIds
    <3> HIDE DEF Bad
    <3> QED BY <2>2, <3>2
  <2>4. f[i] = f[i - 1] + v[i] /\ v[i] \in Nat /\ f[i - 1] \in Int /\ f[i] \in Int
    BY <1>1, <2>3, ConstAssumption DEF PostIds
  <2>5. QED
    BY <2>3, <2>4
<1>3. QED
  <2>1. MaxPosts \in 0..MaxPosts /\ MaxPosts \notin Bad
    BY <1>2, ConstAssumption
  <2>2. QED BY <1>1, <2>1

\* v adds up to one number only.
LEMMA SumIsUnique ==
  ASSUME NEW v \in [PostIds -> Nat], NEW x \in Int, NEW y \in Int, IsSum(v, x), IsSum(v, y)
  PROVE  x = y
<1>1. PICK f \in [0..MaxPosts -> Int] :
         /\ f[0] = 0 /\ f[MaxPosts] = x
         /\ \A q \in PostIds : f[q] = f[q - 1] + v[q]
  BY DEF IsSum
<1>2. PICK g \in [0..MaxPosts -> Int] :
         /\ g[0] = 0 /\ g[MaxPosts] = y
         /\ \A q \in PostIds : g[q] = g[q - 1] + v[q]
  BY DEF IsSum
<1> DEFINE Bad == {i \in 0..MaxPosts : f[i] # g[i]}
<1>3. ASSUME Bad # {} PROVE FALSE
  <2>1. Bad \in SUBSET Nat
    OBVIOUS
  <2>2. PICK i \in Bad : \A j \in Bad : ~(j < i)
    <3> HIDE DEF Bad
    <3> QED BY <1>3, <2>1, Smallest
  <2>3. i \in PostIds /\ i - 1 \in 0..MaxPosts /\ i - 1 \notin Bad
    <3>1. i \in 0..MaxPosts /\ i # 0
      BY <1>1, <1>2
    <3>2. i \in PostIds /\ i - 1 \in 0..MaxPosts /\ i - 1 < i
      BY <3>1, ConstAssumption DEF PostIds
    <3> HIDE DEF Bad
    <3> QED BY <2>2, <3>2
  <2>4. f[i] = f[i - 1] + v[i] /\ g[i] = g[i - 1] + v[i]
    BY <1>1, <1>2, <2>3
  <2>5. QED
    BY <2>3, <2>4
<1>4. MaxPosts \in 0..MaxPosts /\ MaxPosts \notin Bad
  <2>1. MaxPosts \in 0..MaxPosts
    BY ConstAssumption
  <2> HIDE DEF Bad
  <2>2. QED
    BY <1>3, <2>1
<1>5. QED
  BY <1>1, <1>2, <1>4

-----------------------------------------------------------------------------
\* What each request still has to book for b.
Due(b) == [p \in PostIds |-> IF b \in reqs[p].todo THEN reqs[p].batch[b[2]] ELSE 0]

\* A service's bytes in all requests posted: each book has them or will, and
\* unless an answer was lost they are no more than the agent has cleared, lost
\* or waits to hear of.
PostedInv ==
  \A s \in Services : \E t \in Nat :
    /\ \A l \in Ledgers : IsSum(Due(<<l, s>>), t - ledger[<<l, s>>] - failed[<<l, s>>])
    /\ ~resent => t <= cleared[s] + lost[s] + (IF Awaiting THEN batch[s] ELSE 0)

\* A request not yet posted has nothing to do, and the quota comes last.
TodoInv ==
  /\ \A p \in PostIds : p > posts => reqs[p].todo = {}
  /\ \A p \in PostIds, s \in Services :
       <<"flow", s>> \in reqs[p].todo => <<"quota", s>> \in reqs[p].todo

LEMMA DueType == ASSUME TypeOK, NEW b \in Books PROVE Due(b) \in [PostIds -> Nat]
<1>1. \A p \in PostIds : reqs[p].batch[b[2]] \in Nat
  BY BookedBytes
<1>2. QED
  BY <1>1 DEF Due

LEMMA PostedInit == Init => PostedInv /\ TodoInv
<1> SUFFICES ASSUME Init PROVE PostedInv /\ TodoInv
  OBVIOUS
<1>1. \A p \in PostIds : reqs[p].todo = {}
  BY DEF Init, NoReq
<1>2. ASSUME NEW b \in Books PROVE IsSum(Due(b), 0 - ledger[b] - failed[b])
  <2>1. TypeOK
    BY InitIInv DEF IInv
  <2>2. Due(b) \in [PostIds -> Nat] /\ \A p \in PostIds : Due(b)[p] = 0
    BY <1>1, <2>1, DueType DEF Due
  <2>3. ledger[b] = 0 /\ failed[b] = 0
    BY DEF Init
  <2>4. QED
    BY <2>2, <2>3, SumOfNone
<1>3. PostedInv
  <2> SUFFICES ASSUME NEW s \in Services
               PROVE  /\ \A l \in Ledgers : IsSum(Due(<<l, s>>), 0 - ledger[<<l, s>>] - failed[<<l, s>>])
                      /\ 0 <= cleared[s] + lost[s] + (IF Awaiting THEN batch[s] ELSE 0)
    BY DEF PostedInv
  <2>1. QED
    BY <1>2 DEF Books, Init, NoBytes, Awaiting
<1>4. QED
  BY <1>1, <1>3 DEF TodoInv

LEMMA TodoInvNext == TypeOK /\ TodoInv /\ [Next]_vars => TodoInv'
<1> SUFFICES ASSUME TypeOK, TodoInv, [Next]_vars PROVE TodoInv'
  OBVIOUS
<1>0. reqs \in [PostIds -> [batch : Counts, todo : SUBSET Books]] /\ posts \in Nat
  BY DEF TypeOK, PanelTypeOK, AgentTypeOK
<1>1. CASE Post
  <2>1. posts' = posts + 1 /\ posts + 1 \in PostIds
    BY <1>0, <1>1, ConstAssumption DEF Post, PostIds
  <2>2. reqs' = [reqs EXCEPT ![posts + 1] = [batch |-> batch, todo |-> Ledgers \X Items(batch)]]
    BY <1>1 DEF Post
  <2>3. ASSUME NEW p \in PostIds, p > posts + 1 PROVE reqs'[p].todo = {}
    BY <1>0, <2>1, <2>2, <2>3 DEF TodoInv, PostIds
  <2>4. ASSUME NEW p \in PostIds, NEW s \in Services, <<"flow", s>> \in reqs'[p].todo
        PROVE  <<"quota", s>> \in reqs'[p].todo
    BY <1>0, <2>1, <2>2, <2>4 DEF TodoInv, Ledgers
  <2>5. QED
    BY <2>1, <2>3, <2>4 DEF TodoInv
<1>2. ASSUME NEW p \in PostIds, NEW b \in Books, Book(p, b) \/ BookFails(p, b) PROVE TodoInv'
  <2>1. /\ reqs' = [reqs EXCEPT ![p].todo = @ \ {b}] /\ posts' = posts
        /\ b[1] = "quota" => <<"flow", b[2]>> \notin reqs[p].todo
    BY <1>2 DEF Book, BookFails, Ready, agentVars
  <2>2. \A q \in PostIds : reqs'[q].todo = IF q = p THEN reqs[q].todo \ {b} ELSE reqs[q].todo
    BY <1>0, <2>1
  <2>3. \A s \in Services : <<"quota", s>> = b => b[1] = "quota" /\ b[2] = s
    OBVIOUS
  <2>4. QED
    BY <2>1, <2>2, <2>3 DEF TodoInv
<1>3. ASSUME NEW p \in PostIds, LookupFails(p) PROVE TodoInv'
  <2>1. \A q \in PostIds : reqs'[q].todo = IF q = p THEN {} ELSE reqs[q].todo
    BY <1>0, <1>3 DEF LookupFails
  <2>2. QED
    BY <1>3, <2>1 DEF LookupFails, agentVars, TodoInv
<1>4. CASE UNCHANGED <<reqs, posts>>
  BY <1>4 DEF TodoInv
<1>5. QED
  BY <1>1, <1>2, <1>3, <1>4 DEF Next, vars, agentVars, panelVars, AddTraffic, Collect,
     Unreachable, ReplyLost, GiveUp, ReadOk, Clear, Restart

\* What a step of the panel takes from a request's share goes into the book.
LEMMA DueStep ==
  ASSUME TypeOK, TypeOK', NEW p \in PostIds, NEW D \in SUBSET reqs[p].todo,
         reqs' = [reqs EXCEPT ![p].todo = @ \ D],
         NEW b \in Books, NEW t \in Nat, IsSum(Due(b), t - ledger[b] - failed[b]),
         ledger'[b] + failed'[b] = ledger[b] + failed[b] + (IF b \in D THEN reqs[p].batch[b[2]] ELSE 0)
  PROVE  IsSum(Due(b)', t - ledger'[b] - failed'[b])
<1>0. reqs \in [PostIds -> [batch : Counts, todo : SUBSET Books]]
  BY DEF TypeOK, PanelTypeOK
<1>1. /\ ledger[b] \in Nat /\ failed[b] \in Nat /\ ledger'[b] \in Nat /\ failed'[b] \in Nat
      /\ reqs[p].batch[b[2]] \in Nat
  BY BookedBytes DEF TypeOK, PanelTypeOK
<1>2. Due(b) \in [PostIds -> Nat] /\ Due(b)' \in [PostIds -> Nat]
  <2>1. \A q \in PostIds : reqs'[q].batch[b[2]] \in Nat
    BY DEF TypeOK, PanelTypeOK, Books, Counts
  <2>2. QED
    BY <2>1, DueType DEF Due
<1>3. \A q \in PostIds \ {p} : Due(b)'[q] = Due(b)[q]
  BY <1>0 DEF Due
<1>4. Due(b)'[p] = Due(b)[p] - (IF b \in D THEN reqs[p].batch[b[2]] ELSE 0)
  BY <1>0, <1>1 DEF Due
<1>5. Due(b)[p] \in Nat /\ Due(b)'[p] \in Nat
  BY <1>2
<1>6. IsSum(Due(b)', (t - ledger[b] - failed[b]) + Due(b)'[p] - Due(b)[p])
  <2> DEFINE v == Due(b)
             w == Due(b)'
  <2>1. v \in [PostIds -> Nat] /\ w \in [PostIds -> Nat] /\ (\A q \in PostIds \ {p} : w[q] = v[q])
    BY <1>2, <1>3
  <2>2. IsSum(v, t - ledger[b] - failed[b]) /\ t - ledger[b] - failed[b] \in Int
    BY <1>1
  <2> HIDE DEF v, w
  <2>3. IsSum(w, (t - ledger[b] - failed[b]) + w[p] - v[p])
    BY <2>1, <2>2, SumChanges
  <2>4. QED
    BY <2>3 DEF v, w
<1>7. (t - ledger[b] - failed[b]) + Due(b)'[p] - Due(b)[p] = t - ledger'[b] - failed'[b]
  BY <1>1, <1>4, <1>5
<1>8. QED
  BY <1>6, <1>7

LEMMA PostedInvNext ==
  TypeOK /\ TypeOK' /\ ReportInv /\ BytesInv /\ TodoInv /\ PostedInv /\ [Next]_vars => PostedInv'
<1> SUFFICES ASSUME TypeOK, TypeOK', ReportInv, BytesInv, TodoInv, PostedInv, [Next]_vars,
                    NEW s \in Services
             PROVE  (\E t \in Nat :
                       /\ \A l \in Ledgers : IsSum(Due(<<l, s>>), t - ledger[<<l, s>>] - failed[<<l, s>>])
                       /\ ~resent => t <= cleared[s] + lost[s] + (IF Awaiting THEN batch[s] ELSE 0))'
  BY DEF PostedInv
<1>0. PICK t \in Nat :
        /\ \A l \in Ledgers : IsSum(Due(<<l, s>>), t - ledger[<<l, s>>] - failed[<<l, s>>])
        /\ ~resent => t <= cleared[s] + lost[s] + (IF Awaiting THEN batch[s] ELSE 0)
  BY DEF PostedInv
<1>t. /\ reqs \in [PostIds -> [batch : Counts, todo : SUBSET Books]] /\ posts \in Nat
      /\ cleared[s] \in Nat /\ lost[s] \in Nat /\ batch[s] \in Nat /\ traffic[s] \in Nat
      /\ batch \in Counts
  BY DEF TypeOK, PanelTypeOK, AgentTypeOK, HistoryTypeOK, Counts
<1>s. \A l \in Ledgers : <<l, s>> \in Books
  BY DEF Books
<1>u. UNCHANGED reqs => \A b : Due(b)' = Due(b)
  BY DEF Due
\* A step of the panel books for some items of a request.
<1>b. ASSUME NEW p \in PostIds, NEW D \in SUBSET reqs[p].todo,
             reqs' = [reqs EXCEPT ![p].todo = @ \ D], UNCHANGED <<agentVars, ghosts>>,
             \A b \in Books : ledger'[b] + failed'[b]
                               = ledger[b] + failed[b] + (IF b \in D THEN reqs[p].batch[b[2]] ELSE 0)
      PROVE  \E u \in Nat :
               /\ \A l \in Ledgers : IsSum(Due(<<l, s>>)', u - ledger'[<<l, s>>] - failed'[<<l, s>>])
               /\ ~resent' => u <= cleared'[s] + lost'[s] + (IF Awaiting' THEN batch'[s] ELSE 0)
  <2>1. \A l \in Ledgers : IsSum(Due(<<l, s>>)', t - ledger'[<<l, s>>] - failed'[<<l, s>>])
    BY <1>0, <1>s, <1>b, DueStep
  <2>2. ~resent' => t <= cleared'[s] + lost'[s] + (IF Awaiting' THEN batch'[s] ELSE 0)
    BY <1>0, <1>b DEF agentVars, ghosts, Awaiting
  <2>3. QED
    BY <2>1, <2>2
\* A step of the agent that posts nothing keeps the sum.
<1>a. ASSUME UNCHANGED panelVars,
             ~resent' => ~resent /\ t <= cleared'[s] + lost'[s] + (IF Awaiting' THEN batch'[s] ELSE 0)
      PROVE  \E u \in Nat :
               /\ \A l \in Ledgers : IsSum(Due(<<l, s>>)', u - ledger'[<<l, s>>] - failed'[<<l, s>>])
               /\ ~resent' => u <= cleared'[s] + lost'[s] + (IF Awaiting' THEN batch'[s] ELSE 0)
  BY <1>0, <1>a, <1>u DEF panelVars
<1>1. CASE \E q \in Services : AddTraffic(q)
  BY <1>0, <1>a, <1>1 DEF AddTraffic, Awaiting
<1>2. CASE Collect \/ Unreachable \/ GiveUp \/ ReadOk
  BY <1>0, <1>a, <1>2, <1>t DEF Collect, Unreachable, GiveUp, ReadOk, EndReport, ghosts, Awaiting
<1>3. CASE Post
  <2> DEFINE q == posts + 1
             new(l) == (t + batch[s]) - ledger[<<l, s>>] - failed[<<l, s>>]
  <2>1. q \in PostIds /\ q > posts
    BY <1>t, <1>3, ConstAssumption DEF Post, PostIds
  <2>2. reqs' = [reqs EXCEPT ![q] = [batch |-> batch, todo |-> Ledgers \X Items(batch)]]
    BY <1>3 DEF Post
  <2>3. ASSUME NEW l \in Ledgers PROVE IsSum(Due(<<l, s>>)', new(l))
    <3> DEFINE b == <<l, s>>
               v == Due(b)
               w == Due(b)'
               x == t - ledger[b] - failed[b]
    <3>1. b \in Books /\ b[2] = s /\ ledger[b] \in Nat /\ failed[b] \in Nat
      BY <1>s DEF TypeOK, PanelTypeOK
    <3>2. v \in [PostIds -> Nat]
      BY <3>1, DueType
    <3>3. w \in [PostIds -> Nat]
      <4>1. \A p \in PostIds : reqs'[p].batch[b[2]] \in Nat
        BY <3>1 DEF TypeOK, PanelTypeOK, Books, Counts
      <4>2. QED
        BY <4>1 DEF Due
    <3>4. \A p \in PostIds \ {q} : w[p] = v[p]
      BY <1>t, <2>1, <2>2 DEF Due
    <3>5. v[q] = 0
      BY <2>1 DEF Due, TodoInv
    <3>6. w[q] = batch[s]
      <4>1. reqs'[q] = [batch |-> batch, todo |-> Ledgers \X Items(batch)]
        BY <1>t, <2>1, <2>2
      <4>2. b \in Ledgers \X Items(batch) <=> batch[s] > 0
        BY DEF Items
      <4>3. QED
        BY <1>t, <2>1, <4>1, <4>2 DEF Due
    <3>7. IsSum(v, x) /\ x \in Int
      BY <1>0, <3>1
    <3> HIDE DEF v, w, x
    <3>8. IsSum(w, x + w[q] - v[q])
      BY <2>1, <3>2, <3>3, <3>4, <3>7, SumChanges
    <3>9. x + w[q] - v[q] = new(l)
      BY <1>t, <3>1, <3>5, <3>6 DEF x
    <3>10. QED
      BY <3>8, <3>9 DEF w
  <2>4. t + batch[s] \in Nat
    BY <1>t
  <2>5. UNCHANGED <<ledger, failed, cleared, lost, batch, resent>> /\ Awaiting' /\ ~Awaiting
    BY <1>3 DEF Post, ghosts, Awaiting
  <2>6. \A l \in Ledgers : IsSum(Due(<<l, s>>)', (t + batch[s]) - ledger'[<<l, s>>] - failed'[<<l, s>>])
    <3> SUFFICES ASSUME NEW l \in Ledgers
                 PROVE  IsSum(Due(<<l, s>>)', (t + batch[s]) - ledger'[<<l, s>>] - failed'[<<l, s>>])
      OBVIOUS
    <3>1. ledger' = ledger /\ failed' = failed
      BY <2>5
    <3>2. QED
      BY <2>3, <3>1
  <2>7. ~resent' => t + batch[s] <= cleared'[s] + lost'[s] + (IF Awaiting' THEN batch'[s] ELSE 0)
    BY <1>0, <1>t, <2>5
  <2>8. QED
    BY <2>4, <2>6, <2>7
<1>4. CASE ReplyLost
  BY <1>a, <1>4 DEF ReplyLost
<1>5. CASE Clear
  <2>1. Awaiting /\ ~Awaiting' /\ cleared'[s] = cleared[s] + batch[s]
        /\ UNCHANGED <<panelVars, lost, resent>>
    BY <1>5 DEF Clear, EndReport, Awaiting
  <2>2. QED
    BY <1>0, <1>a, <1>t, <2>1
<1>6. CASE Restart
  <2>1. ~Awaiting' /\ lost'[s] = lost[s] + traffic[s] /\ UNCHANGED <<panelVars, cleared, resent>>
    BY <1>6 DEF Restart, EndReport, Awaiting
  <2>2. Awaiting => batch[s] <= traffic[s]
    BY DEF ReportInv, BatchIsHeld, Awaiting
  <2>3. QED
    BY <1>0, <1>a, <1>t, <2>1, <2>2
<1>7. ASSUME NEW p \in PostIds, NEW d \in Books, Book(p, d) \/ BookFails(p, d)
      PROVE  \A b \in Books : ledger'[b] + failed'[b]
                = ledger[b] + failed[b] + (IF b \in {d} THEN reqs[p].batch[b[2]] ELSE 0)
  <2>1. /\ ledger \in [Books -> Nat] /\ failed \in [Books -> Nat]
        /\ \A b \in Books : ledger[b] \in Nat /\ failed[b] \in Nat /\ reqs[p].batch[b[2]] \in Nat
    BY BookedBytes DEF TypeOK, PanelTypeOK
  <2>2. CASE Book(p, d)
    BY <2>1, <2>2 DEF Book
  <2>3. CASE BookFails(p, d)
    BY <2>1, <2>3 DEF BookFails
  <2>4. QED
    BY <1>7, <2>2, <2>3
<1>8. ASSUME NEW p \in PostIds, NEW d \in Books, Book(p, d) \/ BookFails(p, d)
      PROVE  /\ {d} \in SUBSET reqs[p].todo /\ reqs' = [reqs EXCEPT ![p].todo = @ \ {d}]
             /\ UNCHANGED <<agentVars, ghosts>>
  BY <1>8 DEF Book, BookFails, Ready
<1>9. ASSUME NEW p \in PostIds, LookupFails(p)
      PROVE  /\ reqs[p].todo \in SUBSET reqs[p].todo /\ reqs' = [reqs EXCEPT ![p].todo = @ \ reqs[p].todo]
             /\ UNCHANGED <<agentVars, ghosts>>
             /\ \A b \in Books : ledger'[b] + failed'[b]
                = ledger[b] + failed[b] + (IF b \in reqs[p].todo THEN reqs[p].batch[b[2]] ELSE 0)
  <2>1. \A b \in Books : /\ failed'[b] = failed[b] + reqs[p].batch[b[2]] /\ ledger'[b] = ledger[b]
                         /\ ledger[b] \in Nat /\ failed[b] \in Nat /\ reqs[p].batch[b[2]] \in Nat
    BY <1>9, BookedBytes DEF LookupFails, TypeOK, PanelTypeOK
  <2>2. \A b \in Books : b \notin reqs[p].todo => reqs[p].batch[b[2]] = 0
    <3>1. reqs[p].todo = Ledgers \X Items(reqs[p].batch)
      BY <1>9 DEF LookupFails
    <3>2. \A b \in Books : b = <<b[1], b[2]>> /\ b[1] \in Ledgers /\ b[2] \in Services
      BY DEF Books
    <3>3. QED
      BY <2>1, <3>1, <3>2 DEF Items
  <2>3. \A b \in Books : ledger'[b] + failed'[b]
            = ledger[b] + failed[b] + (IF b \in reqs[p].todo THEN reqs[p].batch[b[2]] ELSE 0)
    BY <2>1, <2>2
  <2>4. QED
    BY <1>9, <2>3 DEF LookupFails
<1>10. CASE UNCHANGED vars
  BY <1>0, <1>a, <1>10 DEF vars, agentVars, ghosts, Awaiting
<1>11. QED
  <2>1. CASE \E p \in PostIds, d \in Books : Book(p, d) \/ BookFails(p, d)
    <3>1. PICK p \in PostIds, d \in Books : Book(p, d) \/ BookFails(p, d)
      BY <2>1
    <3>2. QED
      BY <3>1, <1>7, <1>8, <1>b
  <2>2. CASE \E p \in PostIds : LookupFails(p)
    <3>1. PICK p \in PostIds : LookupFails(p)
      BY <2>2
    <3>2. QED
      BY <3>1, <1>9, <1>b
  <2>3. QED
    BY <1>1, <1>2, <1>3, <1>4, <1>5, <1>6, <1>10, <2>1, <2>2 DEF Next

LEMMA SpecPostedInv == Spec => [](IInv /\ TodoInv /\ PostedInv)
<1>1. IInv /\ [Next]_vars => IInv'
  BY TypeOKNext, BytesInvNext, ReportInvNext, BookInvNext DEF IInv
<1>2. IInv /\ IInv' /\ TodoInv /\ PostedInv /\ [Next]_vars => TodoInv' /\ PostedInv'
  BY TodoInvNext, PostedInvNext DEF IInv
<1>3. QED
  BY InitIInv, PostedInit, <1>1, <1>2, PTL DEF Spec

\* Bytes are booked twice only when an answer was lost, for any number of
\* services, URLs, requests and restarts.
THEOREM SpecNoOvercount == Spec => []NoOvercount
<1>1. IInv /\ PostedInv => NoOvercount
  <2> SUFFICES ASSUME IInv, PostedInv, ~resent, NEW b \in Books
               PROVE  ledger[b] + failed[b] <= added[b[2]]
    BY DEF NoOvercount
  <2> DEFINE s == b[2]
  <2>1. s \in Services /\ b[1] \in Ledgers /\ b = <<b[1], s>>
    BY DEF Books
  <2>2. PICK t \in Nat :
          /\ IsSum(Due(b), t - ledger[b] - failed[b])
          /\ t <= cleared[s] + lost[s] + (IF Awaiting THEN batch[s] ELSE 0)
    BY <2>1 DEF PostedInv
  <2>3. t - ledger[b] - failed[b] \in Nat
    BY <2>2, SumIsNat, DueType DEF IInv
  <2>4. /\ ledger[b] \in Nat /\ failed[b] \in Nat /\ cleared[s] \in Nat /\ lost[s] \in Nat
        /\ batch[s] \in Nat /\ traffic[s] \in Nat
    BY <2>1 DEF IInv, TypeOK, PanelTypeOK, AgentTypeOK, HistoryTypeOK, Counts
  <2>5. added[s] = traffic[s] + cleared[s] + lost[s]
    BY <2>1 DEF IInv, BytesInv
  <2>6. Awaiting => batch[s] <= traffic[s]
    BY <2>1 DEF IInv, ReportInv, BatchIsHeld, Awaiting
  <2> HIDE DEF s
  <2>7. ledger[b] + failed[b] <= added[s]
    BY <2>2, <2>3, <2>4, <2>5, <2>6
  <2>8. QED
    BY <2>7 DEF s
<1>2. QED
  BY SpecPostedInv, <1>1, PTL

\* What two books lack of the same number differs as they do.
LEMMA SameRest ==
  ASSUME TypeOK, NEW f \in Books, NEW g \in Books, NEW t \in Nat,
         t - ledger[f] - failed[f] = t - ledger[g] - failed[g]
  PROVE  ledger[f] + failed[f] = ledger[g] + failed[g]
  BY DEF TypeOK, PanelTypeOK

\* The ledgers agree between an item's two writes, for any number of requests
\* that are worked off side by side.
THEOREM SpecLedgersAgree == Spec => []LedgersAgree
<1>1. IInv /\ TodoInv /\ PostedInv => LedgersAgree
  <2> SUFFICES ASSUME IInv, TodoInv, PostedInv, NEW s \in Services,
                      \A p \in PostIds : <<"quota", s>> \in reqs[p].todo => <<"flow", s>> \in reqs[p].todo
               PROVE  ledger[<<"flow", s>>] + failed[<<"flow", s>>]
                        = ledger[<<"quota", s>>] + failed[<<"quota", s>>]
    BY DEF LedgersAgree
  <2> DEFINE f == <<"flow", s>>
             g == <<"quota", s>>
             v == Due(f)
             w == Due(g)
  <2>1. /\ f \in Books /\ g \in Books /\ ledger[f] \in Nat /\ ledger[g] \in Nat
        /\ failed[f] \in Nat /\ failed[g] \in Nat
    BY DEF Books, Ledgers, IInv, TypeOK, PanelTypeOK
  <2>2. v = w
    BY DEF Due, TodoInv
  <2>3. v \in [PostIds -> Nat]
    BY <2>1, DueType DEF IInv
  <2>4. PICK t \in Nat : /\ IsSum(v, t - ledger[f] - failed[f])
                         /\ IsSum(w, t - ledger[g] - failed[g])
    BY DEF PostedInv, Ledgers
  <2> HIDE DEF v, w, f, g
  <2>5. t - ledger[f] - failed[f] = t - ledger[g] - failed[g]
    BY <2>1, <2>2, <2>3, <2>4, SumIsUnique
  <2>6. ledger[f] + failed[f] = ledger[g] + failed[g]
    BY <2>1, <2>5, SameRest DEF IInv
  <2>7. QED
    BY <2>6 DEF f, g
<1>2. QED
  BY SpecPostedInv, <1>1, PTL
=============================================================================
