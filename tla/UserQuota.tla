------------------------------ MODULE UserQuota ------------------------------
(***************************************************************************)
(* The traffic quota of one user on the panel: uploads add to the day's    *)
(* and the month's usage, the upload that finds it exceeded pauses the     *)
(* user's active forwards and marks the user as disabled, and a reset or   *)
(* the nightly job releases what the mark recorded                         *)
(* (go-backend/internal/http/handler/user_quota.go and                     *)
(* store/repo/repository_user_quota.go).                                   *)
(*                                                                         *)
(* A handler's transactions and node commands are steps of their own, so   *)
(* handlers interleave between them.  Uploads and resets lock the user's   *)
(* quota row; the nightly job reads it without a lock and later writes     *)
(* what it read (with SQLite's one connection nothing comes in between,    *)
(* which is one of the behaviours here).  Pausing or resuming a forward    *)
(* takes a command per service and node: one step when all succeed, and    *)
(* when one fails any of them may have taken effect.                       *)
(*                                                                         *)
(* Abstractions: an upload is one byte; the other reasons for refusing a   *)
(* resume (flow limit, expiry) and database errors are left out.           *)
(* Definitions named X_<word> are single-bug variants of X.                *)
(***************************************************************************)
EXTENDS Naturals, FiniteSets

CONSTANTS
  Procs,       \* handlers that run at once
  Forwards,    \* the user's forwards
  Services,    \* services of a forward on its nodes (_tcp and _udp on each)
  DailyLimit,  \* daily_limit_gb, 0 for none
  MonthlyLimit,\* monthly_limit_gb, 0 for none
  MaxUse,      \* bound: bytes uploaded
  MaxResets,   \* bound: resets and nightly jobs
  MaxResumes,  \* bound: resumes and pauses of the user
  MaxDays,     \* bound: midnights
  MaxCrashes   \* bound: crashes of the panel

Windows == {"day", "month"}

Limit == [day |-> DailyLimit, month |-> MonthlyLimit]

ASSUME QuotaAssumption ==
  /\ DailyLimit \in Nat /\ MonthlyLimit \in Nat
  /\ MaxUse \in Nat /\ MaxResets \in Nat /\ MaxResumes \in Nat /\ MaxDays \in Nat
  /\ MaxCrashes \in Nat

VARIABLES
  used,        \* daily_used_bytes and monthly_used_bytes
  fresh,       \* day_key and month_key are the current day's and month's
  disabled,    \* disabled_by_quota
  pausedIds,   \* paused_forward_ids
  status,      \* status of each forward: 1 is active
  running,     \* the services that run on the nodes, with their forwards
  pc,          \* a handler's program counter
  job,         \* what it runs
  todo,        \* forwards it has still to go through
  cur,         \* forwards it is working on
  list,        \* pausedIDs of an enforcing upload
  seen,        \* the row as the nightly job read and rolled it
  torn,        \* history: forwards a command failed for since the last one that succeeded
  byQuota,     \* history: forwards an enforcement switched off, not yet active again
  upset,       \* history: what has got in the way of a handler
  budget       \* what is left of each bound

quotaRow == <<used, fresh, disabled, pausedIds>>
fwdVars == <<status, running>>
procVars == <<pc, job, todo, cur, list, seen>>
history == <<torn, byQuota, upset>>
vars == <<quotaRow, fwdVars, procVars, history, budget>>

Budgets == [use : 0..MaxUse, reset : 0..MaxResets, user : 0..MaxResumes, day : 0..MaxDays,
            crash : 0..MaxCrashes]

RowTypeOK ==
  /\ used \in [Windows -> Nat]
  /\ fresh \in [Windows -> BOOLEAN]
  /\ disabled \in {0, 1}
  /\ pausedIds \subseteq Forwards

ForwardTypeOK == status \in [Forwards -> {0, 1}] /\ running \subseteq Forwards \X Services

SeenTypeOK ==
  seen \in [used : [Windows -> Nat], current : [Windows -> BOOLEAN], disabled : {0, 1},
            pausedIds : SUBSET Forwards]

\* A handler's locals are gone when it is.
ProcTypeOK ==
  /\ pc \in [Procs -> {"idle", "list", "pausing", "stopped", "resuming", "allowed", "started",
                    "roll"}]
  /\ job \in [Procs -> {"none", "upload", "release", "user", "roll"}]
  /\ todo \in [Procs -> SUBSET Forwards]
  /\ cur \in [Procs -> SUBSET Forwards]
  /\ list \in [Procs -> SUBSET Forwards]
  /\ \A p \in Procs : pc[p] = "idle" => job[p] = "none" /\ todo[p] \cup cur[p] \cup list[p] = {}

\* "race": two handlers ran at once or one was cut off; "overlap": both were
\* enforcing or releasing; "stale": the row was written between the nightly
\* job's read and its write; "refused": a resume failed.
Troubles == {"race", "overlap", "stale", "refused"}

HistoryTypeOK ==
  /\ torn \in [pause : SUBSET Forwards, resume : SUBSET Forwards]
  /\ byQuota \subseteq Forwards
  /\ upset \subseteq Troubles

TypeOK ==
  RowTypeOK /\ ForwardTypeOK /\ ProcTypeOK /\ SeenTypeOK /\ HistoryTypeOK /\ budget \in Budgets

\* No nightly job has read the row.
Unseen == [used |-> [w \in Windows |-> 0], current |-> [w \in Windows |-> TRUE], disabled |-> 0,
           pausedIds |-> {}]

Init ==
  /\ used = [w \in Windows |-> 0]
  /\ fresh = [w \in Windows |-> TRUE]
  /\ disabled = 0
  /\ pausedIds = {}
  /\ status = [f \in Forwards |-> 1]
  /\ running = Forwards \X Services
  /\ pc = [p \in Procs |-> "idle"]
  /\ job = [p \in Procs |-> "none"]
  /\ todo = [p \in Procs |-> {}]
  /\ cur = [p \in Procs |-> {}]
  /\ list = [p \in Procs |-> {}]
  /\ seen = Unseen
  /\ torn = [pause |-> {}, resume |-> {}]
  /\ byQuota = {}
  /\ upset = {}
  /\ budget = [use |-> MaxUse, reset |-> MaxResets, user |-> MaxResumes, day |-> MaxDays,
               crash |-> MaxCrashes]

-----------------------------------------------------------------------------
(* The quota row *)

\* applyUserQuotaWindowRoll and normalizeUserQuotaView: another day's usage
\* does not count.
Rolled(w) == IF fresh[w] THEN used[w] ELSE 0

Exceeded(u) == \E w \in Windows : Limit[w] > 0 /\ u[w] >= Limit[w]

View == [w \in Windows |-> Rolled(w)]

Spend(b) == budget[b] > 0 /\ budget' = [budget EXCEPT ![b] = @ - 1]

Start(p, kind, at) ==
  /\ pc[p] = "idle"
  /\ pc' = [pc EXCEPT ![p] = at]
  /\ job' = [job EXCEPT ![p] = IF at = "idle" THEN "none" ELSE kind]

\* Another handler is enforcing or releasing.
Busy(p) == \E q \in Procs \ {p} : job[q] \in {"upload", "release"}

\* What a handler meets that starts.
Race(p) == IF \E q \in Procs \ {p} : job[q] # "none" THEN {"race"} ELSE {}

Overlap(p) == IF Busy(p) THEN {"race", "overlap"} ELSE Race(p)

\* What a transaction meets that writes the row.
Stale == IF \E q \in Procs : pc[q] = "roll" THEN {"stale"} ELSE {}

\* Midnight; perhaps the month's last.
Midnight ==
  /\ Spend("day")
  /\ \E ws \in {{"day"}, Windows} :
       /\ fresh' = [w \in Windows |-> fresh[w] /\ w \notin ws]
       /\ seen' = IF \E p \in Procs : pc[p] = "roll"
                  THEN [seen EXCEPT !.current = [w \in Windows |-> @[w] /\ w \notin ws]]
                  ELSE seen
  /\ UNCHANGED <<used, disabled, pausedIds, fwdVars, pc, job, todo, cur, list, history>>

Enforces_Again(u) == Exceeded(u)

Enforces_Early(u) == disabled = 0 /\ Exceeded([w \in Windows |-> u[w] + 1])

\* enforceUserQuotaIfNeeded's first lines, on the row AddUserQuotaUsage returned.
Enforces(u) == disabled = 0 /\ Exceeded(u)

\* AddUserQuotaUsage.
Upload(p) ==
  LET u == [w \in Windows |-> Rolled(w) + 1]
  IN  /\ Spend("use")
      /\ used' = u
      /\ fresh' = [w \in Windows |-> TRUE]
      /\ Start(p, "upload", IF Enforces(u) THEN "list" ELSE "idle")
      /\ upset' = upset \cup Stale \cup IF Enforces(u) THEN Overlap(p) ELSE Race(p)
      /\ UNCHANGED <<disabled, pausedIds, fwdVars, todo, cur, list, seen, torn, byQuota>>

\* ListActiveForwardsByUser.
List(p) ==
  /\ pc[p] = "list"
  /\ pc' = [pc EXCEPT ![p] = "pausing"]
  /\ todo' = [todo EXCEPT ![p] = {f \in Forwards : status[f] = 1}]
  /\ UNCHANGED <<quotaRow, fwdVars, job, cur, list, seen, history, budget>>

\* controlForwardServices: PauseService for every service of a forward ...
PauseOk(p, f) ==
  /\ pc[p] = "pausing"
  /\ f \in todo[p]
  /\ pc' = [pc EXCEPT ![p] = "stopped"]
  /\ todo' = [todo EXCEPT ![p] = @ \ {f}]
  /\ cur' = [cur EXCEPT ![p] = {f}]
  /\ running' = running \ ({f} \X Services)
  /\ torn' = [torn EXCEPT !.pause = @ \ {f}, !.resume = @ \ {f}]
  /\ UNCHANGED <<quotaRow, status, job, list, seen, byQuota, upset, budget>>

PauseFails_Ignored(p, f) ==
  /\ pc[p] = "pausing"
  /\ f \in todo[p]
  /\ pc' = [pc EXCEPT ![p] = "stopped"]
  /\ todo' = [todo EXCEPT ![p] = @ \ {f}]
  /\ cur' = [cur EXCEPT ![p] = {f}]
  /\ \E done \in SUBSET Services : running' = running \ ({f} \X done)
  /\ torn' = [torn EXCEPT !.pause = @ \cup {f}]
  /\ UNCHANGED <<quotaRow, status, job, list, seen, byQuota, upset, budget>>

\* ... which ends at the first that is refused or times out: the forward is
\* skipped, with any of its services stopped.
PauseFails(p, f) ==
  /\ pc[p] = "pausing"
  /\ f \in todo[p]
  /\ todo' = [todo EXCEPT ![p] = @ \ {f}]
  /\ \E done \in SUBSET Services : running' = running \ ({f} \X done)
  /\ torn' = [torn EXCEPT !.pause = @ \cup {f}]
  /\ UNCHANGED <<quotaRow, status, pc, job, cur, list, seen, byQuota, upset, budget>>

\* UpdateForwardStatus(id, 0); an upload remembers the forward.
StatusOff(p) ==
  /\ pc[p] = "stopped"
  /\ pc' = [pc EXCEPT ![p] = "pausing"]
  /\ status' = [f \in Forwards |-> IF f \in cur[p] THEN 0 ELSE status[f]]
  /\ cur' = [cur EXCEPT ![p] = {}]
  /\ IF job[p] = "upload"
     THEN /\ list' = [list EXCEPT ![p] = @ \cup cur[p]]
          /\ byQuota' = byQuota \cup cur[p]
     ELSE UNCHANGED <<list, byQuota>>
  /\ UNCHANGED <<quotaRow, running, job, todo, seen, torn, upset, budget>>

Finish(p) ==
  /\ pc' = [pc EXCEPT ![p] = "idle"]
  /\ job' = [job EXCEPT ![p] = "none"]
  /\ list' = [list EXCEPT ![p] = {}]

Recorded_None(p) == {}

Recorded(p) == list[p]

\* MarkUserQuotaDisabled.
Mark(p) ==
  /\ pc[p] = "pausing"
  /\ job[p] = "upload"
  /\ todo[p] = {}
  /\ disabled' = 1
  /\ pausedIds' = Recorded(p)
  /\ Finish(p)
  /\ upset' = upset \cup Stale
  /\ UNCHANGED <<used, fresh, fwdVars, todo, cur, seen, torn, byQuota, budget>>

End_First(p) ==
  /\ pc[p] = "resuming"
  /\ Finish(p)
  /\ UNCHANGED <<quotaRow, fwdVars, todo, cur, seen, history, budget>>

\* The user's own pause or a handler's resumes are over.
End(p) ==
  /\ \/ pc[p] = "pausing" /\ job[p] = "user"
     \/ pc[p] = "resuming"
  /\ todo[p] = {}
  /\ Finish(p)
  /\ UNCHANGED <<quotaRow, fwdVars, todo, cur, seen, history, budget>>

\* The row is released when what is left of the usage is within the limits.
Released(u) == disabled = 1 /\ ~Exceeded(u)

\* ResetUserQuotaUsage; the handler then goes through the released forwards.
Reset(p, scope) ==
  LET u == [w \in Windows |-> IF w \in scope THEN 0 ELSE Rolled(w)]
  IN  /\ Spend("reset")
      /\ used' = u
      /\ fresh' = [w \in Windows |-> TRUE]
      /\ IF Released(u)
         THEN /\ Start(p, "release", "resuming")
              /\ todo' = [todo EXCEPT ![p] = pausedIds]
              /\ disabled' = 0
              /\ pausedIds' = {}
              /\ upset' = upset \cup Stale \cup Overlap(p)
         ELSE /\ Start(p, "release", "idle")
              /\ upset' = upset \cup Stale \cup Race(p)
              /\ UNCHANGED <<todo, disabled, pausedIds>>
      /\ UNCHANGED <<fwdVars, cur, list, seen, torn, byQuota>>

\* RollUserQuotaWindows reads the row, without a lock; it writes a row that is
\* of another day or is to be released ...
Roll(p) ==
  LET changed == (\E w \in Windows : ~fresh[w]) \/ Released(View)
  IN  /\ Spend("reset")
      /\ \A q \in Procs : pc[q] # "roll"
      /\ Start(p, "roll", IF changed THEN "roll" ELSE "idle")
      /\ seen' = IF changed
                 THEN [used |-> View, current |-> [w \in Windows |-> TRUE], disabled |-> disabled,
                       pausedIds |-> pausedIds]
                 ELSE seen
      /\ upset' = upset \cup Race(p)
      /\ UNCHANGED <<quotaRow, fwdVars, todo, cur, list, torn, byQuota>>

\* ... with every column as it read it, and goes through the released forwards.
RollWrite(p) ==
  LET release == seen.disabled = 1 /\ ~Exceeded(seen.used)
  IN  /\ pc[p] = "roll"
      /\ used' = seen.used
      /\ fresh' = seen.current
      /\ disabled' = IF release THEN 0 ELSE seen.disabled
      /\ pausedIds' = IF release THEN {} ELSE seen.pausedIds
      /\ pc' = [pc EXCEPT ![p] = IF release THEN "resuming" ELSE "idle"]
      /\ job' = [job EXCEPT ![p] = IF release THEN "release" ELSE "none"]
      /\ todo' = [todo EXCEPT ![p] = IF release THEN seen.pausedIds ELSE {}]
      /\ seen' = Unseen
      /\ upset' = IF release THEN upset \cup Overlap(p) ELSE upset
      /\ UNCHANGED <<fwdVars, cur, list, torn, byQuota, budget>>

-----------------------------------------------------------------------------
(* Resuming *)

Allowed_Unchecked == TRUE

\* ensureUserForwardAllowedByQuota.
Allowed == disabled = 0 /\ ~Exceeded(View)

\* The check of ensureUserTunnelForwardAllowed.
Check(p, f) ==
  /\ pc[p] = "resuming"
  /\ f \in todo[p]
  /\ todo' = [todo EXCEPT ![p] = @ \ {f}]
  /\ IF Allowed
     THEN /\ pc' = [pc EXCEPT ![p] = "allowed"]
          /\ cur' = [cur EXCEPT ![p] = {f}]
     ELSE UNCHANGED <<pc, cur>>
  /\ UNCHANGED <<quotaRow, fwdVars, job, list, seen, history, budget>>

\* controlForwardServices: ResumeService for every service ...
ResumeOk(p) ==
  /\ pc[p] = "allowed"
  /\ pc' = [pc EXCEPT ![p] = "started"]
  /\ running' = running \cup (cur[p] \X Services)
  /\ torn' = [torn EXCEPT !.pause = @ \ cur[p], !.resume = @ \ cur[p]]
  /\ UNCHANGED <<quotaRow, status, job, todo, cur, list, seen, byQuota, upset, budget>>

\* ... up to the first that fails; the forward stays switched off, with any of
\* its services started.
ResumeFails(p) ==
  /\ pc[p] = "allowed"
  /\ pc' = [pc EXCEPT ![p] = "resuming"]
  /\ cur' = [cur EXCEPT ![p] = {}]
  /\ \E done \in SUBSET Services : running' = running \cup (cur[p] \X done)
  /\ torn' = [torn EXCEPT !.resume = @ \cup cur[p]]
  /\ upset' = upset \cup {"refused"}
  /\ UNCHANGED <<quotaRow, status, job, todo, list, seen, byQuota, budget>>

StatusOn(p) ==
  /\ pc[p] = "started"
  /\ pc' = [pc EXCEPT ![p] = "resuming"]
  /\ status' = [f \in Forwards |-> IF f \in cur[p] THEN 1 ELSE status[f]]
  /\ byQuota' = byQuota \ cur[p]
  /\ cur' = [cur EXCEPT ![p] = {}]
  /\ UNCHANGED <<quotaRow, running, job, todo, list, seen, torn, upset, budget>>

\* forwardResume and forwardPause.
UserOp(p, f, at) ==
  /\ Spend("user")
  /\ Start(p, "user", at)
  /\ todo' = [todo EXCEPT ![p] = {f}]
  /\ upset' = upset \cup Race(p)
  /\ UNCHANGED <<quotaRow, fwdVars, cur, list, seen, torn, byQuota>>

\* The panel dies and starts again; its handlers are gone.
Crash ==
  /\ Spend("crash")
  /\ pc' = [p \in Procs |-> "idle"]
  /\ job' = [p \in Procs |-> "none"]
  /\ todo' = [p \in Procs |-> {}] /\ cur' = [p \in Procs |-> {}] /\ list' = [p \in Procs |-> {}]
  /\ seen' = Unseen
  /\ upset' = upset \cup {"race"} \cup
                IF \E p \in Procs : job[p] \in {"upload", "release"} THEN {"overlap"} ELSE {}
  /\ UNCHANGED <<quotaRow, fwdVars, torn, byQuota>>

-----------------------------------------------------------------------------
Next ==
  \/ Midnight \/ Crash
  \/ \E p \in Procs :
       \/ Upload(p) \/ List(p) \/ StatusOff(p) \/ Mark(p) \/ End(p)
       \/ Roll(p) \/ RollWrite(p) \/ ResumeOk(p) \/ ResumeFails(p) \/ StatusOn(p)
       \/ \E f \in Forwards : PauseOk(p, f) \/ PauseFails(p, f) \/ Check(p, f)
       \/ \E f \in Forwards, at \in {"pausing", "resuming"} : UserOp(p, f, at)
       \/ \E scope \in SUBSET Windows \ {{}} : Reset(p, scope)

Spec == Init /\ [][Next]_vars

-----------------------------------------------------------------------------
Quiet == \A p \in Procs : job[p] = "none"

\* No two enforcements or releases met, none was cut off, none worked on a row
\* the nightly job had read before, and no resume failed.
Orderly == upset \cap {"overlap", "stale", "refused"} = {}

\* A forward that an enforcement paused is active again, recorded for the
\* release to come, or in the hands of an enforcement or a release, while
\* these go orderly, whatever pauses fail.
NoneForgotten ==
  Orderly =>
    \A f \in byQuota :
      \/ f \in pausedIds /\ disabled = 1
      \/ \E p \in Procs : job[p] = "upload" /\ f \in list[p]
      \/ \E p \in Procs : job[p] = "release" /\ f \in todo[p] \cup cur[p]

\* A user who is not blocked has every forward back that the quota paused
\* ("window rollover + release logic", plans/033-user-traffic-quota.md:7).
AllReleased == Quiet /\ disabled = 0 /\ ~Exceeded(View) => byQuota = {}

\* So it is while enforcements and releases go orderly.
ReleaseRestores == Orderly => AllReleased

On(f) == \A s \in Services : <<f, s>> \in running

Off(f) == \A s \in Services : <<f, s>> \notin running

\* While handlers keep apart, the panel's status of a forward is what its
\* services do on the nodes: all run unless a pause failed for it since the
\* last command that succeeded, none runs unless a resume did.
StatusIsReal ==
  Quiet /\ "race" \notin upset =>
    \A f \in Forwards :
      /\ status[f] = 1 /\ f \notin torn.pause => On(f)
      /\ status[f] = 0 /\ f \notin torn.resume => Off(f)

\* A disabled user has no forward running (plans/033-user-traffic-quota.md:3),
\* while handlers keep apart, but those for which a command failed.
DisabledIsStopped ==
  Quiet /\ disabled = 1 /\ "race" \notin upset =>
    \A f \in Forwards \ (torn.pause \cup torn.resume) : Off(f)

\* A reset leaves the user enabled: while handlers keep apart, the mark is only
\* set on a usage that exceeds a limit, whatever resets and midnights did.
MarkedWhenExceeded ==
  [][disabled = 0 /\ disabled' = 1 /\ "race" \notin upset => Exceeded(used)]_vars
=============================================================================
