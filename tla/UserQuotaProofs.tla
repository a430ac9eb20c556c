--------------------------- MODULE UserQuotaProofs ---------------------------
(***************************************************************************)
(* The user's quota row and its handlers, for any number of handlers and   *)
(* forwards: as long as enforcements and releases do not overlap, none is  *)
(* cut off, the row does not change under a nightly job and no resume      *)
(* fails, every forward an enforcement paused stays on its way back,       *)
(* whatever else runs in between.                                          *)
(*                                                                         *)
(* The argument: while one handler enforces or releases it is alone, and   *)
(* the user is not marked as disabled; so an enforcement starts with       *)
(* nothing paused by the quota, and a release finds every resume allowed.  *)
(* What the nightly job read is still the row when it writes.              *)
(***************************************************************************)
EXTENDS UserQuota, TLAPS

Settling == {"upload", "release"}

\* A handler's program counter and working set go with its job.
LocalInv ==
  \A p \in Procs :
    /\ pc[p] \in {"list", "resuming", "pausing"} => cur[p] = {}
    /\ job[p] = "upload" => pc[p] \in {"list", "pausing", "stopped"}
    /\ job[p] = "release" => pc[p] \in {"resuming", "allowed", "started"}
    /\ pc[p] = "list" => job[p] = "upload"
    /\ pc[p] = "roll" <=> job[p] = "roll"
    /\ pc[p] = "roll" => todo[p] \cup cur[p] \cup list[p] = {}
    /\ \A q \in Procs : pc[p] = "roll" /\ pc[q] = "roll" => p = q

\* The nightly job's write keeps the usage that counts, the mark and the list.
AsSeen ==
  /\ seen.disabled = disabled /\ seen.pausedIds = pausedIds
  /\ \A w \in Windows : Rolled(w) = IF seen.current[w] THEN seen.used[w] ELSE 0

SeenInv == "stale" \notin upset => \A p \in Procs : pc[p] = "roll" => AsSeen

\* A handler that enforces or releases is alone, and the user is not disabled.
AloneInv ==
  \A p \in Procs : job[p] \in Settling =>
    /\ ~Busy(p)
    /\ disabled = 0
    /\ job[p] = "release" => ~Exceeded(View)

IInv == TypeOK /\ LocalInv /\ SeenInv /\ (Orderly => AloneInv /\ NoneForgotten)

LEMMA InitIInv == Init => IInv
<1> SUFFICES ASSUME Init PROVE IInv
  OBVIOUS
<1>1. RowTypeOK /\ ForwardTypeOK /\ HistoryTypeOK /\ SeenTypeOK
  BY DEF Init, RowTypeOK, ForwardTypeOK, HistoryTypeOK, SeenTypeOK, Unseen
<1>2. ProcTypeOK
  BY DEF Init, ProcTypeOK
<1>3. budget \in Budgets
  BY QuotaAssumption DEF Init, Budgets
<1>4. LocalInv /\ SeenInv /\ AloneInv /\ NoneForgotten
  BY DEF Init, LocalInv, SeenInv, AloneInv, NoneForgotten, Settling
<1>5. QED
  BY <1>1, <1>2, <1>3, <1>4 DEF IInv, TypeOK

\* What a step takes from a bound, it had.
LEMMA SpendType ==
  ASSUME TypeOK, NEW b \in {"use", "reset", "user", "day", "crash"}, Spend(b)
  PROVE  budget' \in Budgets
BY QuotaAssumption DEF TypeOK, Budgets, Spend

LEMMA RolledType == TypeOK => \A w \in Windows : Rolled(w) \in Nat
BY DEF TypeOK, RowTypeOK, Rolled

LEMMA MetTypes ==
  ASSUME NEW p \in Procs
  PROVE  /\ Race(p) \subseteq {"race"}
         /\ Overlap(p) \subseteq {"race", "overlap"}
         /\ Busy(p) => "overlap" \in Overlap(p)
         /\ Race(p) \subseteq Overlap(p)
         /\ Stale \subseteq {"stale"}
         /\ (\E q \in Procs : pc[q] = "roll") => "stale" \in Stale
<1>1. Race(p) = {"race"} \/ Race(p) = {}
  BY DEF Race
<1>2. Stale = IF \E q \in Procs : pc[q] = "roll" THEN {"stale"} ELSE {}
  BY DEF Stale
<1>3. QED
  BY <1>1, <1>2 DEF Overlap

\* What got in the way is never forgotten.
LEMMA UpsetNext ==
  ASSUME HistoryTypeOK, [Next]_vars
  PROVE  upset \subseteq upset' /\ upset' \subseteq Troubles
<1> USE DEF Troubles
<1>0. upset \subseteq Troubles
  BY DEF HistoryTypeOK
<1>1. CASE Crash
  BY <1>0, <1>1 DEF Crash
<1>2. ASSUME NEW p \in Procs, NEW S, S = Race(p) \/ S = Overlap(p),
             upset' = upset \cup S \/ upset' = upset \cup Stale \cup S
      PROVE  upset \subseteq upset' /\ upset' \subseteq Troubles
  BY <1>0, <1>2, MetTypes
<1>3. ASSUME NEW p \in Procs, Upload(p) PROVE upset \subseteq upset' /\ upset' \subseteq Troubles
  <2>1. upset' = upset \cup Stale \cup Race(p) \/ upset' = upset \cup Stale \cup Overlap(p)
    BY <1>3 DEF Upload
  <2>2. QED
    BY <2>1, <1>2
<1>4. ASSUME NEW p \in Procs, NEW scope \in SUBSET Windows, Reset(p, scope)
      PROVE  upset \subseteq upset' /\ upset' \subseteq Troubles
  <2>1. upset' = upset \cup Stale \cup Race(p) \/ upset' = upset \cup Stale \cup Overlap(p)
    BY <1>4 DEF Reset
  <2>2. QED
    BY <2>1, <1>2
<1>5. ASSUME NEW p \in Procs, NEW f \in Forwards, NEW at \in {"pausing", "resuming"}, UserOp(p, f, at)
      PROVE  upset \subseteq upset' /\ upset' \subseteq Troubles
  BY <1>2, <1>5 DEF UserOp
<1>6. ASSUME NEW p \in Procs, Roll(p) \/ RollWrite(p)
      PROVE  upset \subseteq upset' /\ upset' \subseteq Troubles
  <2>1. upset' = upset \cup Race(p) \/ upset' = upset \cup Overlap(p) \/ upset' = upset
    BY <1>6 DEF Roll, RollWrite
  <2>2. QED
    BY <1>0, <2>1, <1>2
<1>7. ASSUME NEW p \in Procs, Mark(p) PROVE upset \subseteq upset' /\ upset' \subseteq Troubles
  BY <1>0, <1>7, MetTypes DEF Mark
<1>8. ASSUME UNCHANGED upset \/ upset' = upset \cup {"refused"}
      PROVE  upset \subseteq upset' /\ upset' \subseteq Troubles
  BY <1>0, <1>8
<1>9. Midnight \/ UNCHANGED vars => UNCHANGED upset
  BY DEF Midnight, vars, history
<1>10. ASSUME NEW p \in Procs,
              \/ List(p) \/ StatusOff(p) \/ End(p) \/ ResumeOk(p) \/ ResumeFails(p) \/ StatusOn(p)
              \/ \E f \in Forwards : PauseOk(p, f) \/ PauseFails(p, f) \/ Check(p, f)
       PROVE  UNCHANGED upset \/ upset' = upset \cup {"refused"}
  BY <1>10 DEF history, List, StatusOff, End, ResumeOk, ResumeFails, StatusOn, PauseOk, PauseFails, Check
<1>11. QED
  BY <1>1, <1>3, <1>4, <1>5, <1>6, <1>7, <1>8, <1>9, <1>10 DEF Next

LEMMA TypeOKNext == TypeOK /\ LocalInv /\ [Next]_vars => TypeOK' /\ LocalInv'
<1> SUFFICES ASSUME TypeOK, LocalInv, [Next]_vars PROVE TypeOK' /\ LocalInv'
  OBVIOUS
<1>0. /\ RowTypeOK /\ ForwardTypeOK /\ ProcTypeOK /\ SeenTypeOK /\ HistoryTypeOK
      /\ budget \in Budgets
  BY DEF TypeOK
<1>r. UNCHANGED quotaRow => RowTypeOK'
  BY <1>0 DEF quotaRow, RowTypeOK
<1>f. UNCHANGED fwdVars => ForwardTypeOK'
  BY <1>0 DEF fwdVars, ForwardTypeOK
<1>p. UNCHANGED <<pc, job, todo, cur, list>> => ProcTypeOK' /\ LocalInv'
  BY <1>0 DEF ProcTypeOK, LocalInv
<1>s. UNCHANGED seen => SeenTypeOK'
  BY <1>0 DEF SeenTypeOK
<1>n. seen' = Unseen => SeenTypeOK'
  BY DEF SeenTypeOK, Unseen
<1>u. upset' \subseteq Troubles
  BY <1>0, UpsetNext
<1>h. UNCHANGED <<torn, byQuota>> => HistoryTypeOK'
  BY <1>0, <1>u DEF HistoryTypeOK
<1>1. CASE Midnight
  <2>1. RowTypeOK'
    BY <1>0, <1>1 DEF Midnight, RowTypeOK
  <2>2. PICK current \in [Windows -> BOOLEAN] :
          seen' = seen \/ seen' = [seen EXCEPT !.current = current]
    <3>1. PICK ws \in {{"day"}, Windows} :
             \/ seen' = seen
             \/ seen' = [seen EXCEPT !.current = [w \in Windows |-> @[w] /\ w \notin ws]]
      BY <1>1 DEF Midnight
    <3>2. [w \in Windows |-> seen.current[w] /\ w \notin ws] \in [Windows -> BOOLEAN]
      OBVIOUS
    <3> QED
      BY <3>1, <3>2
  <2>4. SeenTypeOK'
    BY <1>0, <2>2 DEF SeenTypeOK
  <2>3. QED
    BY <1>1, <1>f, <1>p, <1>h, <2>1, <2>4, SpendType DEF history, Midnight, TypeOK
<1>2. CASE Crash
  <2>1. ProcTypeOK' /\ LocalInv'
    BY <1>2 DEF Crash, ProcTypeOK, LocalInv
  <2>2. HistoryTypeOK'
    BY <1>2, <1>h DEF Crash
  <2>3. QED
    BY <1>2, <1>r, <1>f, <1>n, <2>1, <2>2, SpendType DEF Crash, TypeOK
<1>3. ASSUME NEW p \in Procs, Upload(p) PROVE TypeOK' /\ LocalInv'
  <2>1. RowTypeOK'
    BY <1>0, <1>3, RolledType DEF Upload, RowTypeOK
  <2>2. ProcTypeOK' /\ LocalInv'
    BY <1>0, <1>3 DEF Upload, Start, ProcTypeOK, LocalInv
  <2>3. HistoryTypeOK'
    BY <1>3, <1>h DEF Upload
  <2>4. QED
    BY <1>3, <1>f, <1>s, <2>1, <2>2, <2>3, SpendType DEF Upload, TypeOK
<1>4. ASSUME NEW p \in Procs, List(p) PROVE TypeOK' /\ LocalInv'
  <2>1. ProcTypeOK' /\ LocalInv'
    BY <1>0, <1>4 DEF List, ProcTypeOK, LocalInv
  <2>2. QED
    BY <1>0, <1>4, <1>r, <1>f, <1>s, <1>h, <2>1 DEF history, List, TypeOK
<1>5. ASSUME NEW p \in Procs, NEW f \in Forwards, PauseOk(p, f) PROVE TypeOK' /\ LocalInv'
  <2>1. ProcTypeOK' /\ LocalInv'
    BY <1>0, <1>5 DEF PauseOk, ProcTypeOK, LocalInv
  <2>2. ForwardTypeOK'
    BY <1>0, <1>5 DEF PauseOk, ForwardTypeOK
  <2>3. HistoryTypeOK'
    BY <1>0, <1>5 DEF PauseOk, HistoryTypeOK
  <2>4. QED
    BY <1>0, <1>5, <1>r, <1>s, <2>1, <2>2, <2>3 DEF PauseOk, TypeOK
<1>6. ASSUME NEW p \in Procs, NEW f \in Forwards, PauseFails(p, f) PROVE TypeOK' /\ LocalInv'
  <2>1. ProcTypeOK' /\ LocalInv'
    BY <1>0, <1>6 DEF PauseFails, ProcTypeOK, LocalInv
  <2>2. ForwardTypeOK'
    BY <1>0, <1>6 DEF PauseFails, ForwardTypeOK
  <2>3. HistoryTypeOK'
    BY <1>0, <1>6 DEF PauseFails, HistoryTypeOK
  <2>4. QED
    BY <1>0, <1>6, <1>r, <1>s, <2>1, <2>2, <2>3 DEF PauseFails, TypeOK
<1>7. ASSUME NEW p \in Procs, StatusOff(p) PROVE TypeOK' /\ LocalInv'
  <2>1. ProcTypeOK' /\ LocalInv'
    BY <1>0, <1>7 DEF StatusOff, ProcTypeOK, LocalInv
  <2>2. ForwardTypeOK'
    BY <1>0, <1>7 DEF StatusOff, ForwardTypeOK
  <2>3. HistoryTypeOK'
    BY <1>0, <1>7, <1>u DEF StatusOff, HistoryTypeOK, ProcTypeOK
  <2>4. QED
    BY <1>0, <1>7, <1>r, <1>s, <2>1, <2>2, <2>3 DEF StatusOff, TypeOK
<1>8. ASSUME NEW p \in Procs, Mark(p) PROVE TypeOK' /\ LocalInv'
  <2>1. ProcTypeOK' /\ LocalInv'
    BY <1>0, <1>8 DEF Mark, Finish, ProcTypeOK, LocalInv
  <2>2. RowTypeOK'
    BY <1>0, <1>8 DEF Mark, Recorded, RowTypeOK, ProcTypeOK
  <2>3. QED
    BY <1>0, <1>8, <1>f, <1>s, <1>h, <2>1, <2>2 DEF Mark, TypeOK
<1>9. ASSUME NEW p \in Procs, End(p) PROVE TypeOK' /\ LocalInv'
  <2>1. ProcTypeOK' /\ LocalInv'
    BY <1>0, <1>9 DEF End, Finish, ProcTypeOK, LocalInv
  <2>2. QED
    BY <1>0, <1>9, <1>r, <1>f, <1>s, <1>h, <2>1 DEF history, End, TypeOK
<1>10. ASSUME NEW p \in Procs, NEW scope \in SUBSET Windows, Reset(p, scope)
       PROVE  TypeOK' /\ LocalInv'
  <2>1. RowTypeOK'
    BY <1>0, <1>10, RolledType DEF Reset, RowTypeOK
  <2>2. ProcTypeOK' /\ LocalInv'
    BY <1>0, <1>10 DEF Reset, Start, ProcTypeOK, LocalInv, RowTypeOK
  <2>3. HistoryTypeOK'
    BY <1>10, <1>h DEF Reset
  <2>4. QED
    BY <1>10, <1>f, <1>s, <2>1, <2>2, <2>3, SpendType DEF Reset, TypeOK
<1>11. ASSUME NEW p \in Procs, NEW f \in Forwards, Check(p, f) PROVE TypeOK' /\ LocalInv'
  <2>1. ProcTypeOK' /\ LocalInv'
    BY <1>0, <1>11 DEF Check, ProcTypeOK, LocalInv
  <2>2. QED
    BY <1>0, <1>11, <1>r, <1>f, <1>s, <1>h, <2>1 DEF history, Check, TypeOK
<1>12. ASSUME NEW p \in Procs, ResumeOk(p) \/ ResumeFails(p) \/ StatusOn(p)
       PROVE  TypeOK' /\ LocalInv'
  <2>1. ProcTypeOK' /\ LocalInv'
    BY <1>0, <1>12 DEF ResumeOk, ResumeFails, StatusOn, ProcTypeOK, LocalInv
  <2>2. ForwardTypeOK'
    BY <1>0, <1>12 DEF ResumeOk, ResumeFails, StatusOn, ForwardTypeOK, ProcTypeOK
  <2>3. HistoryTypeOK'
    <3>1. cur[p] \subseteq Forwards
      BY <1>0 DEF ProcTypeOK
    <3>2. torn' \in [pause : SUBSET Forwards, resume : SUBSET Forwards]
      BY <1>0, <1>12, <3>1 DEF ResumeOk, ResumeFails, StatusOn, HistoryTypeOK
    <3>3. byQuota' \subseteq Forwards
      BY <1>0, <1>12, <3>1 DEF ResumeOk, ResumeFails, StatusOn, HistoryTypeOK
    <3> QED
      BY <1>u, <3>2, <3>3 DEF HistoryTypeOK
  <2>4. QED
    BY <1>0, <1>12, <1>r, <1>s, <2>1, <2>2, <2>3 DEF ResumeOk, ResumeFails, StatusOn, TypeOK
<1>13. ASSUME NEW p \in Procs, NEW f \in Forwards, NEW at \in {"pausing", "resuming"}, UserOp(p, f, at)
       PROVE  TypeOK' /\ LocalInv'
  <2>1. ProcTypeOK' /\ LocalInv'
    BY <1>0, <1>13 DEF UserOp, Start, ProcTypeOK, LocalInv
  <2>2. QED
    BY <1>13, <1>r, <1>f, <1>s, <1>h, <2>1, SpendType DEF UserOp, TypeOK
<1>14. ASSUME NEW p \in Procs, Roll(p) PROVE TypeOK' /\ LocalInv'
  <2>1. ProcTypeOK' /\ LocalInv'
    BY <1>0, <1>14 DEF Roll, Start, ProcTypeOK, LocalInv
  <2>2. SeenTypeOK'
    BY <1>0, <1>14, RolledType DEF Roll, View, SeenTypeOK, RowTypeOK
  <2>3. QED
    BY <1>14, <1>r, <1>f, <1>h, <2>1, <2>2, SpendType DEF Roll, TypeOK
<1>15. ASSUME NEW p \in Procs, RollWrite(p) PROVE TypeOK' /\ LocalInv'
  <2>1. ProcTypeOK' /\ LocalInv'
    <3>1. seen.pausedIds \subseteq Forwards
      BY <1>0 DEF SeenTypeOK
    <3>2. job[p] = "roll" /\ pc[p] = "roll" /\ p \in Procs
      BY <1>15 DEF RollWrite, LocalInv
    <3>3. PICK r \in BOOLEAN :
             /\ pc' = [pc EXCEPT ![p] = IF r THEN "resuming" ELSE "idle"]
             /\ job' = [job EXCEPT ![p] = IF r THEN "release" ELSE "none"]
             /\ todo' = [todo EXCEPT ![p] = IF r THEN seen.pausedIds ELSE {}]
             /\ UNCHANGED <<cur, list>>
      BY <1>15 DEF RollWrite
    <3>4. cur[p] = {} /\ list[p] = {}
      BY <1>0, <3>2 DEF LocalInv
    <3> QED
      BY <1>0, <3>1, <3>2, <3>3, <3>4 DEF ProcTypeOK, LocalInv
  <2>2. RowTypeOK'
    BY <1>0, <1>15 DEF RollWrite, SeenTypeOK, RowTypeOK
  <2>3. QED
    BY <1>0, <1>15, <1>f, <1>n, <1>h, <2>1, <2>2 DEF RollWrite, TypeOK
<1>16. CASE UNCHANGED vars
  BY <1>0, <1>16, <1>r, <1>f, <1>p, <1>s, <1>h DEF history, procVars, vars, TypeOK
<1>17. QED
  BY <1>1, <1>2, <1>3, <1>4, <1>5, <1>6, <1>7, <1>8, <1>9, <1>10, <1>11, <1>12, <1>13, <1>14, <1>15,
     <1>16 DEF Next

\* What the nightly job read is still the row, unless a transaction came in
\* between, which is then on record.
LEMMA SeenNext == TypeOK /\ LocalInv /\ SeenInv /\ [Next]_vars => SeenInv'
<1> SUFFICES ASSUME TypeOK, LocalInv, SeenInv, [Next]_vars, "stale" \notin upset',
                    NEW q \in Procs, pc'[q] = "roll"
             PROVE  AsSeen'
  BY DEF SeenInv
<1>0. RowTypeOK /\ ProcTypeOK /\ SeenTypeOK /\ "stale" \notin upset
  BY UpsetNext DEF TypeOK
<1>1. pc[q] = "roll" => AsSeen
  BY <1>0 DEF SeenInv
<1>2. ASSUME UNCHANGED quotaRow, UNCHANGED seen, pc[q] = "roll" PROVE AsSeen'
  BY <1>1, <1>2 DEF AsSeen, Rolled, quotaRow
<1>3. ASSUME NEW p \in Procs, Upload(p) \/ Mark(p) \/ \E scope \in SUBSET Windows : Reset(p, scope)
      PROVE  FALSE
  <2>1. pc[q] = "roll"
    BY <1>0, <1>3 DEF Upload, Mark, Reset, Start, Finish, ProcTypeOK
  <2>2. "stale" \in Stale
    BY <2>1, MetTypes
  <2>3. Stale \subseteq upset'
    BY <1>3 DEF Upload, Mark, Reset
  <2> QED
    BY <2>2, <2>3
<1>4. CASE Midnight
  <2>1. PICK ws \in {{"day"}, Windows} :
           /\ fresh' = [w \in Windows |-> fresh[w] /\ w \notin ws]
           /\ seen' = [seen EXCEPT !.current = [w \in Windows |-> @[w] /\ w \notin ws]]
           /\ UNCHANGED <<used, disabled, pausedIds, pc>>
    BY <1>4 DEF Midnight
  <2>2. seen'.current = [w \in Windows |-> seen.current[w] /\ w \notin ws]
    BY <1>0, <2>1 DEF SeenTypeOK
  <2>3. seen'.used = seen.used /\ seen'.disabled = seen.disabled /\ seen'.pausedIds = seen.pausedIds
    BY <1>0, <2>1 DEF SeenTypeOK
  <2>4. AsSeen
    BY <1>1, <2>1
  <2>5. ASSUME NEW w \in Windows
        PROVE  Rolled(w)' = IF seen'.current[w] THEN seen'.used[w] ELSE 0
    BY <2>1, <2>2, <2>3, <2>4, <2>5 DEF AsSeen, Rolled
  <2> QED
    BY <2>1, <2>3, <2>4, <2>5 DEF AsSeen
<1>5. CASE Crash
  BY <1>5 DEF Crash
<1>6. ASSUME NEW p \in Procs, Roll(p) PROVE AsSeen'
  <2>1. p = q
    BY <1>0, <1>6 DEF Roll, Start, ProcTypeOK
  <2>2. pc'[p] = IF (\E w \in Windows : ~fresh[w]) \/ Released(View) THEN "roll" ELSE "idle"
    BY <1>0, <1>6 DEF Roll, Start, ProcTypeOK
  <2>3. /\ seen' = [used |-> View, current |-> [w \in Windows |-> TRUE], disabled |-> disabled,
                    pausedIds |-> pausedIds]
        /\ UNCHANGED quotaRow
    BY <1>6, <2>1, <2>2 DEF Roll
  <2>4. ASSUME NEW w \in Windows PROVE seen'.current[w] = TRUE /\ seen'.used[w] = Rolled(w)
    BY <2>3, <2>4 DEF View
  <2>5. \A w \in Windows : Rolled(w)' = Rolled(w)
    BY <2>3 DEF Rolled, quotaRow
  <2> QED
    BY <2>3, <2>4, <2>5 DEF AsSeen, quotaRow
<1>7. ASSUME NEW p \in Procs, RollWrite(p) PROVE AsSeen'
  <2>1. pc[q] = "roll" /\ p # q
    BY <1>0, <1>7 DEF RollWrite, ProcTypeOK
  <2> QED
    BY <1>7, <2>1 DEF RollWrite, LocalInv
<1>8. ASSUME NEW p \in Procs,
             \/ List(p) \/ StatusOff(p) \/ End(p) \/ ResumeOk(p) \/ ResumeFails(p) \/ StatusOn(p)
             \/ \E f \in Forwards : PauseOk(p, f) \/ PauseFails(p, f) \/ Check(p, f)
             \/ \E f \in Forwards, at \in {"pausing", "resuming"} : UserOp(p, f, at)
      PROVE  AsSeen'
  <2>1. UNCHANGED quotaRow /\ UNCHANGED seen
    BY <1>8 DEF List, StatusOff, End, ResumeOk, ResumeFails, StatusOn, PauseOk, PauseFails, Check, UserOp
  <2>2. pc[q] = "roll"
    <3>1. CASE List(p) \/ StatusOff(p) \/ StatusOn(p)
      BY <1>0, <3>1 DEF List, StatusOff, StatusOn, ProcTypeOK
    <3>2. CASE End(p)
      BY <1>0, <3>2 DEF End, Finish, ProcTypeOK
    <3>3. CASE ResumeOk(p) \/ ResumeFails(p)
      BY <1>0, <3>3 DEF ResumeOk, ResumeFails, ProcTypeOK
    <3>4. ASSUME NEW f \in Forwards, PauseOk(p, f) \/ PauseFails(p, f) \/ Check(p, f)
          PROVE  pc[q] = "roll"
      BY <1>0, <3>4 DEF PauseOk, PauseFails, Check, ProcTypeOK
    <3>5. ASSUME NEW f \in Forwards, NEW at \in {"pausing", "resuming"}, UserOp(p, f, at)
          PROVE  pc[q] = "roll"
      BY <1>0, <3>5 DEF UserOp, Start, ProcTypeOK
    <3> QED
      BY <1>8, <3>1, <3>2, <3>3, <3>4, <3>5
  <2> QED
    BY <1>2, <2>1, <2>2
<1>9. CASE UNCHANGED vars
  BY <1>2, <1>9 DEF vars, procVars
<1> QED
  BY <1>3, <1>4, <1>5, <1>6, <1>7, <1>8, <1>9 DEF Next

\* Usage only goes down at midnight and at a reset.
LEMMA LessIsNotExceeded ==
  ASSUME NEW u, NEW v, \A w \in Windows : u[w] \in Nat /\ v[w] \in Nat /\ v[w] <= u[w],
         ~Exceeded(u), QuotaAssumption
  PROVE  ~Exceeded(v)
BY DEF Exceeded, Limit, Windows

LEMMA OrderlyNext == TypeOK /\ LocalInv /\ SeenInv /\ Orderly /\ AloneInv /\ NoneForgotten /\ [Next]_vars /\ Orderly'
                       => AloneInv' /\ NoneForgotten'
<1> SUFFICES ASSUME TypeOK, LocalInv, SeenInv, Orderly, AloneInv, NoneForgotten, [Next]_vars, Orderly'
             PROVE  AloneInv' /\ NoneForgotten'
  OBVIOUS
<1>0. RowTypeOK /\ ProcTypeOK /\ \A w \in Windows : View[w] = Rolled(w) /\ View[w] \in Nat
  BY RolledType DEF TypeOK, View
<1>1. CASE Midnight
  <2>1. \A w \in Windows : View'[w] \in Nat /\ View'[w] <= View[w]
    BY <1>0, <1>1 DEF Midnight, View, Rolled, RowTypeOK
  <2>2. ~Exceeded(View) => ~Exceeded(View)'
    BY <1>0, <2>1, LessIsNotExceeded, QuotaAssumption DEF Exceeded
  <2>3. QED
    BY <1>1, <2>2 DEF Midnight, AloneInv, NoneForgotten, Busy, history
<1>2. CASE Crash
  BY <1>2 DEF Crash, Orderly, AloneInv, NoneForgotten, Settling, quotaRow
<1>3. ASSUME NEW p \in Procs, Upload(p) PROVE AloneInv' /\ NoneForgotten'
  <2> DEFINE u == [w \in Windows |-> Rolled(w) + 1]
  <2>1. /\ used' = u /\ fresh' = [w \in Windows |-> TRUE]
        /\ UNCHANGED <<disabled, pausedIds, todo, cur, list, byQuota>>
        /\ pc[p] = "idle"
        /\ job' = [job EXCEPT ![p] = IF Enforces(u) THEN "upload" ELSE "none"]
        /\ Enforces(u) => ~Busy(p)
    BY <1>3, MetTypes DEF Upload, Start, Orderly
  <2>2. job[p] = "none"
    BY <1>0, <2>1 DEF ProcTypeOK
  <2>3. \A w \in Windows : View'[w] = u[w]
    BY <2>1 DEF View, Rolled
  <2>4. Exceeded(View)' <=> Exceeded(u)
    BY <2>3 DEF Exceeded
  <2>5. CASE Enforces(u)
    <3>1. \A q \in Procs \ {p} : job[q] \notin Settling /\ job'[q] = job[q]
      BY <1>0, <2>1, <2>5 DEF Busy, Settling, ProcTypeOK
    <3>2. byQuota = {}
      BY <2>2, <2>5, <3>1 DEF NoneForgotten, Orderly, Enforces, Settling
    <3>3. job'[p] = "upload" /\ disabled' = 0
      BY <1>0, <2>1, <2>5 DEF ProcTypeOK, Enforces
    <3>4. QED
      BY <2>1, <3>1, <3>2, <3>3 DEF AloneInv, NoneForgotten, Busy, Settling
  <2>6. CASE ~Enforces(u)
    <3>1. job' = job
      BY <1>0, <2>1, <2>2, <2>6 DEF ProcTypeOK
    <3>2. \A q \in Procs : job[q] \in Settling => ~Exceeded(u)
      BY <2>6 DEF AloneInv, Enforces
    <3>3. QED
      BY <2>1, <2>4, <3>1, <3>2 DEF AloneInv, NoneForgotten, Busy, Orderly
  <2>7. QED
    BY <2>5, <2>6
<1>4. ASSUME NEW p \in Procs, List(p) PROVE AloneInv' /\ NoneForgotten'
  <2>1. job[p] = "upload"
    BY <1>4 DEF List, LocalInv
  <2>2. QED
    BY <1>0, <1>4, <2>1 DEF List, AloneInv, NoneForgotten, Orderly, Busy, View, Rolled, Exceeded, quotaRow, history,
       ProcTypeOK
<1>5. ASSUME NEW p \in Procs, NEW f \in Forwards, PauseOk(p, f) \/ PauseFails(p, f)
      PROVE  AloneInv' /\ NoneForgotten'
  <2>1. job[p] # "release"
    BY <1>5 DEF PauseOk, PauseFails, LocalInv
  <2>2. QED
    BY <1>0, <1>5, <2>1 DEF PauseOk, PauseFails, AloneInv, NoneForgotten, Orderly, Busy, View, Rolled, Exceeded, quotaRow,
       ProcTypeOK
<1>6. ASSUME NEW p \in Procs, StatusOff(p) PROVE AloneInv' /\ NoneForgotten'
  <2>1. job[p] # "release"
    BY <1>6 DEF StatusOff, LocalInv
  <2>2. AloneInv'
    BY <1>6 DEF StatusOff, AloneInv, Busy, View, Rolled, Exceeded, quotaRow
  <2>3. NoneForgotten'
    BY <1>0, <1>6, <2>1 DEF StatusOff, NoneForgotten, Orderly, quotaRow, ProcTypeOK
  <2>4. QED
    BY <2>2, <2>3
<1>7. ASSUME NEW p \in Procs, Mark(p) PROVE AloneInv' /\ NoneForgotten'
  <2>1. /\ job[p] = "upload" /\ disabled = 0 /\ disabled' = 1 /\ pausedIds' = list[p] /\ byQuota' = byQuota
        /\ job' = [job EXCEPT ![p] = "none"]
    BY <1>7 DEF Mark, Recorded, Finish, history, AloneInv, Settling
  <2>2. \A q \in Procs \ {p} : job[q] \notin Settling /\ job'[q] \notin Settling
    BY <1>0, <2>1 DEF AloneInv, Busy, Settling, ProcTypeOK
  <2>3. byQuota \subseteq list[p]
    BY <2>1, <2>2 DEF NoneForgotten, Orderly, Settling
  <2>4. job'[p] \notin Settling
    BY <1>0, <2>1 DEF Settling, ProcTypeOK
  <2>5. QED
    BY <2>1, <2>2, <2>3, <2>4 DEF AloneInv, NoneForgotten
<1>8. ASSUME NEW p \in Procs, End(p) PROVE AloneInv' /\ NoneForgotten'
  <2>1. /\ job[p] # "upload" /\ todo[p] = {} /\ cur[p] = {} /\ job' = [job EXCEPT ![p] = "none"]
        /\ list' = [list EXCEPT ![p] = {}]
        /\ UNCHANGED <<quotaRow, todo, cur, history>>
    BY <1>8 DEF End, Finish, LocalInv
  <2>2. \A q \in Procs : job'[q] \in Settling => q # p /\ job[q] = job'[q]
    BY <1>0, <2>1 DEF Settling, ProcTypeOK
  <2>3. AloneInv'
    BY <2>1, <2>2 DEF AloneInv, Busy, Settling, View, Rolled, Exceeded, quotaRow
  <2>4. NoneForgotten'
    BY <1>0, <2>1 DEF NoneForgotten, Orderly, quotaRow, history, ProcTypeOK
  <2>5. QED
    BY <2>3, <2>4
<1>9. ASSUME NEW p \in Procs, NEW scope \in SUBSET Windows, Reset(p, scope)
      PROVE  AloneInv' /\ NoneForgotten'
  <2> DEFINE u == [w \in Windows |-> IF w \in scope THEN 0 ELSE Rolled(w)]
  <2>1. /\ used' = u /\ fresh' = [w \in Windows |-> TRUE] /\ pc[p] = "idle"
        /\ UNCHANGED <<cur, list, byQuota>>
        /\ job' = [job EXCEPT ![p] = IF Released(u) THEN "release" ELSE "none"]
        /\ Released(u) => /\ ~Busy(p) /\ todo' = [todo EXCEPT ![p] = pausedIds]
                          /\ disabled' = 0 /\ pausedIds' = {}
        /\ ~Released(u) => UNCHANGED <<todo, disabled, pausedIds>>
    BY <1>9, MetTypes DEF Reset, Start, Orderly
  <2>2. job[p] = "none"
    BY <1>0, <2>1 DEF ProcTypeOK
  <2>3. \A w \in Windows : View'[w] = u[w]
    BY <2>1 DEF View, Rolled
  <2>4. Exceeded(View)' <=> Exceeded(u)
    BY <2>3 DEF Exceeded
  <2>5. CASE Released(u)
    <3>1. \A q \in Procs \ {p} : job[q] \notin Settling /\ job'[q] = job[q]
      BY <1>0, <2>1, <2>5 DEF Busy, Settling, ProcTypeOK
    <3>2. byQuota \subseteq pausedIds
      BY <2>2, <3>1 DEF NoneForgotten, Orderly, Settling
    <3>3. job'[p] = "release" /\ todo'[p] = pausedIds /\ disabled' = 0 /\ ~Exceeded(View)'
      BY <1>0, <2>1, <2>4, <2>5 DEF ProcTypeOK, Released
    <3>4. AloneInv'
      BY <3>1, <3>3 DEF AloneInv, Busy, Settling
    <3>5. NoneForgotten'
      BY <2>1, <3>2, <3>3 DEF NoneForgotten
    <3>6. QED
      BY <3>4, <3>5
  <2>6. CASE ~Released(u)
    <3>1. job' = job
      BY <1>0, <2>1, <2>2, <2>6 DEF ProcTypeOK
    <3>2. ~Exceeded(View) => ~Exceeded(u)
      <4>1. \A w \in Windows : u[w] \in Nat /\ u[w] <= View[w]
        BY <1>0
      <4>2. QED
        BY <1>0, <4>1, LessIsNotExceeded, QuotaAssumption
    <3>3. QED
      BY <2>1, <2>4, <2>6, <3>1, <3>2 DEF AloneInv, NoneForgotten, Busy, Orderly
  <2>7. QED
    BY <2>5, <2>6
<1>10. ASSUME NEW p \in Procs, NEW f \in Forwards, Check(p, f) PROVE AloneInv' /\ NoneForgotten'
  <2>1. AloneInv'
    BY <1>10 DEF Check, AloneInv, Busy, View, Rolled, Exceeded, quotaRow
  <2>2. job[p] = "release" => Allowed
    BY DEF AloneInv, Settling, Allowed
  <2>3. \A q \in Procs : job[q] = "release" => todo'[q] \cup cur'[q] = todo[q] \cup cur[q]
    BY <1>0, <1>10, <2>2 DEF Check, LocalInv, ProcTypeOK
  <2>4. NoneForgotten'
    BY <1>10, <2>3 DEF Check, NoneForgotten, Orderly, quotaRow, history
  <2>5. QED
    BY <2>1, <2>4
<1>11. ASSUME NEW p \in Procs, ResumeOk(p) PROVE AloneInv' /\ NoneForgotten'
  BY <1>11 DEF ResumeOk, AloneInv, NoneForgotten, Orderly, Busy, View, Rolled, Exceeded, quotaRow, history
<1>12. ASSUME NEW p \in Procs, StatusOn(p) PROVE AloneInv' /\ NoneForgotten'
  <2>1. AloneInv'
    BY <1>12 DEF StatusOn, AloneInv, Busy, View, Rolled, Exceeded, quotaRow
  <2>2. NoneForgotten'
    BY <1>0, <1>12 DEF StatusOn, NoneForgotten, Orderly, quotaRow, ProcTypeOK
  <2>3. QED
    BY <2>1, <2>2
<1>13. ASSUME NEW p \in Procs, NEW f \in Forwards, NEW at \in {"pausing", "resuming"}, UserOp(p, f, at)
       PROVE  AloneInv' /\ NoneForgotten'
  <2>1. /\ job[p] = "none" /\ job' = [job EXCEPT ![p] = "user"]
        /\ \A q \in Procs \ {p} : todo'[q] = todo[q]
        /\ UNCHANGED <<quotaRow, cur, list, byQuota>>
    BY <1>0, <1>13 DEF UserOp, Start, ProcTypeOK
  <2>2. \A q \in Procs : (job'[q] \in Settling \/ job[q] \in Settling) => q # p /\ job[q] = job'[q]
    BY <1>0, <2>1 DEF Settling, ProcTypeOK
  <2>3. AloneInv'
    BY <2>1, <2>2 DEF AloneInv, Busy, Settling, View, Rolled, Exceeded, quotaRow
  <2>4. NoneForgotten'
    BY <2>1, <2>2 DEF NoneForgotten, Orderly, quotaRow, history, Settling
  <2>5. QED
    BY <2>3, <2>4
<1>14. ASSUME NEW p \in Procs, Roll(p) PROVE AloneInv' /\ NoneForgotten'
  <2>1. /\ job[p] = "none" /\ job'[p] \in {"roll", "none"}
        /\ \A q \in Procs \ {p} : job'[q] = job[q]
        /\ UNCHANGED <<quotaRow, todo, cur, list, byQuota>>
    BY <1>0, <1>14 DEF Roll, Start, ProcTypeOK
  <2>2. \A q \in Procs : (job'[q] \in Settling \/ job[q] \in Settling) => q # p /\ job[q] = job'[q]
    BY <1>0, <2>1 DEF Settling, ProcTypeOK
  <2>3. AloneInv'
    BY <2>1, <2>2 DEF AloneInv, Busy, Settling, View, Rolled, Exceeded, quotaRow
  <2>4. NoneForgotten'
    BY <2>1, <2>2 DEF NoneForgotten, Orderly, quotaRow, Settling
  <2>5. QED
    BY <2>3, <2>4
<1>15. ASSUME NEW p \in Procs, RollWrite(p) PROVE AloneInv' /\ NoneForgotten'
  <2>1. pc[p] = "roll" /\ job[p] = "roll" /\ AsSeen /\ SeenTypeOK /\ UNCHANGED <<cur, list, byQuota>>
    BY <1>15 DEF RollWrite, SeenInv, Orderly, LocalInv, TypeOK
  <2>2. \A w \in Windows : View'[w] = View[w]
    BY <1>0, <1>15, <2>1 DEF RollWrite, AsSeen, View, Rolled, SeenTypeOK
  <2>3. Exceeded(View)' <=> Exceeded(View)
    BY <2>2 DEF Exceeded
  <2>4. CASE seen.disabled = 1 /\ ~Exceeded(seen.used)
    <3>1. /\ ~Busy(p) /\ disabled = 1 /\ disabled' = 0
          /\ job' = [job EXCEPT ![p] = "release"] /\ todo' = [todo EXCEPT ![p] = pausedIds]
      BY <1>15, <2>1, <2>4, MetTypes DEF RollWrite, Orderly, AsSeen
    <3>2. \A q \in Procs \ {p} : job[q] \notin Settling /\ job'[q] = job[q]
      BY <1>0, <3>1 DEF Busy, Settling, ProcTypeOK
    <3>3. byQuota \subseteq pausedIds
      BY <2>1, <3>2 DEF NoneForgotten, Settling
    <3>4. job'[p] = "release" /\ todo'[p] = pausedIds
      BY <1>0, <3>1 DEF ProcTypeOK
    <3>5. ~Exceeded(View)
      <4>1. \A w \in Windows : seen.used[w] \in Nat /\ View[w] <= seen.used[w]
        BY <1>0, <2>1 DEF AsSeen, SeenTypeOK
      <4> QED
        BY <1>0, <2>4, <4>1, LessIsNotExceeded, QuotaAssumption
    <3>6. AloneInv'
      BY <2>3, <3>1, <3>2, <3>4, <3>5 DEF AloneInv, Busy, Settling
    <3>7. NoneForgotten'
      BY <2>1, <3>3, <3>4 DEF NoneForgotten
    <3> QED
      BY <3>6, <3>7
  <2>5. CASE ~(seen.disabled = 1 /\ ~Exceeded(seen.used))
    <3>1. /\ disabled' = disabled /\ pausedIds' = pausedIds
          /\ job' = [job EXCEPT ![p] = "none"] /\ todo' = [todo EXCEPT ![p] = {}]
      BY <1>15, <2>1, <2>5 DEF RollWrite, AsSeen
    <3>2. \A q \in Procs : (job'[q] \in Settling \/ job[q] \in Settling) => q # p /\ job[q] = job'[q]
      BY <1>0, <2>1, <3>1 DEF Settling, ProcTypeOK
    <3>3. \A q \in Procs \ {p} : todo'[q] = todo[q]
      BY <1>0, <3>1 DEF ProcTypeOK
    <3>4. AloneInv'
      BY <2>3, <3>1, <3>2 DEF AloneInv, Busy, Settling
    <3>5. NoneForgotten'
      BY <2>1, <3>1, <3>2, <3>3 DEF NoneForgotten, Settling
    <3> QED
      BY <3>4, <3>5
  <2>6. QED
    BY <2>4, <2>5
<1>16. CASE UNCHANGED vars
  BY <1>16 DEF vars, AloneInv, NoneForgotten, Orderly, Busy, View, Rolled, Exceeded, quotaRow, history, procVars
<1>17. QED
  BY <1>1, <1>2, <1>3, <1>4, <1>5, <1>6, <1>7, <1>8, <1>9, <1>10, <1>11, <1>12, <1>13, <1>14, <1>15,
     <1>16 DEF Next, Orderly, ResumeFails

\* An overlap is never forgotten.
LEMMA OrderlyBefore == TypeOK /\ [Next]_vars /\ Orderly' => Orderly
BY UpsetNext DEF TypeOK, Orderly

\* The inductive invariant.
THEOREM SpecIInv == Spec => []IInv
<1>1. IInv /\ [Next]_vars => IInv'
  BY TypeOKNext, SeenNext, OrderlyNext, OrderlyBefore DEF IInv
<1>2. QED
  BY InitIInv, <1>1, PTL DEF Spec

\* Type correctness of the quota row and of the handlers' locals.
THEOREM SpecTypeOK == Spec => []TypeOK
<1>1. IInv => TypeOK
  BY DEF IInv
<1>2. QED
  BY SpecIInv, <1>1, PTL

\* As long as enforcements and releases go orderly, no forward that the quota
\* paused is lost track of (user_quota.go, paused_forward_ids).
THEOREM SpecNoneForgotten == Spec => []NoneForgotten
<1>1. IInv => NoneForgotten
  BY DEF IInv, Orderly, NoneForgotten
<1>2. QED
  BY SpecIInv, <1>1, PTL

\* So a user who is not blocked has every forward back that the quota paused.
THEOREM SpecReleaseRestores == Spec => []ReleaseRestores
<1>1. NoneForgotten => ReleaseRestores
  BY DEF NoneForgotten, ReleaseRestores, AllReleased, Quiet
<1>2. QED
  BY SpecNoneForgotten, <1>1, PTL

-----------------------------------------------------------------------------
(* While handlers keep apart *)

\* No handler met another and none was cut off.
Apart == "race" \notin upset

\* The status of a forward tells what its services do.
Real(f) ==
  /\ status[f] = 1 /\ f \notin torn.pause => On(f)
  /\ status[f] = 0 /\ f \notin torn.resume => Off(f)

\* At most one handler is at work; its working set tells how the status of a
\* forward differs from what runs; and one that enforces has seen the usage
\* exceeded, which only it could change.
ApartInv ==
  /\ \A p, q \in Procs : job[p] # "none" /\ job[q] # "none" => p = q
  /\ \A p \in Procs : job[p] = "none" => pc[p] = "idle"
  /\ \A f \in Forwards :
       IF \E p \in Procs : pc[p] \in {"stopped", "started"} /\ f \in cur[p]
       THEN IF \E p \in Procs : pc[p] = "started" THEN On(f) ELSE Off(f)
       ELSE Real(f)
  /\ \A p \in Procs : job[p] = "upload" => Exceeded(used)
  /\ "stale" \notin upset

LEMMA ApartNext ==
  ASSUME TypeOK, LocalInv, ApartInv, [Next]_vars, Apart'
  PROVE  ApartInv'
<1>0. RowTypeOK /\ ForwardTypeOK /\ ProcTypeOK /\ HistoryTypeOK
  BY DEF TypeOK
<1>1. \A p \in Procs : pc[p] = "idle" <=> job[p] = "none"
  BY <1>0 DEF ApartInv, ProcTypeOK
<1>2. ASSUME NEW p \in Procs, job[p] # "none" PROVE \A q \in Procs \ {p} : pc[q] = "idle" /\ cur[q] = {}
  BY <1>0, <1>1, <1>2 DEF ApartInv, ProcTypeOK
\* A transaction of the one at work meets no job that has read the row.
<1>3. ASSUME NEW p \in Procs, pc[p] # "roll", Race(p) = {} \/ job[p] # "none" PROVE Stale = {}
  BY <1>1, <1>2, <1>3 DEF Stale, Race
<1>4. ASSUME UNCHANGED <<status, running, torn>> PROVE \A f \in Forwards : Real(f) => Real(f)'
  BY <1>4 DEF Real, On, Off
<1>5. CASE Midnight
  <2>1. UNCHANGED <<used, status, running, torn, upset, pc, job, cur>>
    BY <1>5 DEF Midnight, fwdVars, history
  <2> QED
    BY <2>1 DEF ApartInv, Real, On, Off, Exceeded
<1>6. CASE Crash
  BY <1>6 DEF Crash, Apart
\* A handler that starts is the only one.
<1>7. ASSUME NEW p \in Procs, NEW at \in {"list", "resuming", "pausing", "idle", "roll"},
             NEW kind \in {"upload", "release", "user", "roll"}, Start(p, kind, at),
             Race(p) = {}, UNCHANGED <<status, running, torn, cur>>, "stale" \notin upset',
             at = "list" => Exceeded(used'), at = "idle" \/ kind = "upload" => at \in {"idle", "list"}
      PROVE  ApartInv'
  <2>1. \A q \in Procs \ {p} : job[q] = "none" /\ pc[q] = "idle"
    BY <1>1, <1>7 DEF Race
  <2>2. pc[p] = "idle" /\ job[p] = "none" /\ cur[p] = {}
    BY <1>0, <1>7 DEF Start, ProcTypeOK
  <2>3. /\ pc'[p] = at /\ job'[p] = IF at = "idle" THEN "none" ELSE kind
        /\ \A q \in Procs \ {p} : job'[q] = "none" /\ pc'[q] = "idle"
    BY <1>0, <1>7, <2>1 DEF Start, ProcTypeOK
  <2>4. \A f \in Forwards : Real(f)
    BY <2>1, <2>2 DEF ApartInv
  <2>5. \A q \in Procs : pc'[q] \notin {"stopped", "started"}
    BY <2>3
  <2>6. \A q \in Procs : job'[q] = "upload" => Exceeded(used')
    BY <1>7, <2>3
  <2>7. Exceeded(used') = Exceeded(used)'
    BY DEF Exceeded
  <2>8. \A f \in Forwards : Real(f)'
    BY <1>4, <1>7, <2>4
  <2> QED
    BY <1>7, <2>3, <2>5, <2>6, <2>7, <2>8 DEF ApartInv
<1>8. ASSUME NEW p \in Procs, Upload(p) PROVE ApartInv'
  <2> DEFINE u == [w \in Windows |-> Rolled(w) + 1]
  <2>1. Race(p) = {}
    BY <1>8, MetTypes DEF Upload, Race, Apart
  <2>2. /\ Start(p, "upload", IF Enforces(u) THEN "list" ELSE "idle")
        /\ UNCHANGED <<status, running, torn, cur>> /\ used' = u
    BY <1>8 DEF Upload, fwdVars
  <2>3. Enforces(u) => Exceeded(used')
    BY <2>2 DEF Enforces
  <2>4. "stale" \notin upset'
    BY <1>3, <1>8, <2>1, MetTypes DEF Upload, Start, ApartInv
  <2>5. CASE Enforces(u)
    BY <1>7, <2>1, <2>2, <2>3, <2>4, <2>5
  <2>6. CASE ~Enforces(u)
    BY <1>7, <2>1, <2>2, <2>4, <2>6
  <2> QED
    BY <2>5, <2>6
<1>9. ASSUME NEW p \in Procs, NEW scope \in SUBSET Windows, Reset(p, scope) PROVE ApartInv'
  <2>1. Race(p) = {}
    BY <1>9, MetTypes DEF Reset, Race, Apart
  <2>2. UNCHANGED <<status, running, torn, cur>>
    BY <1>9 DEF Reset, fwdVars
  <2>3. "stale" \notin upset'
    BY <1>3, <1>9, <2>1, MetTypes DEF Reset, Start, ApartInv
  <2>4. CASE Start(p, "release", "resuming")
    BY <1>7, <2>1, <2>2, <2>3, <2>4
  <2>5. CASE Start(p, "release", "idle")
    BY <1>7, <2>1, <2>2, <2>3, <2>5
  <2> QED
    BY <1>9, <2>4, <2>5 DEF Reset
<1>10. ASSUME NEW p \in Procs, NEW f \in Forwards, NEW at \in {"pausing", "resuming"},
              UserOp(p, f, at)
       PROVE  ApartInv'
  <2>1. Race(p) = {}
    BY <1>10, MetTypes DEF UserOp, Race, Apart
  <2>2. "stale" \notin upset'
    BY <1>10, MetTypes DEF UserOp, ApartInv
  <2> QED
    BY <1>7, <1>10, <2>1, <2>2 DEF UserOp, fwdVars
<1>11. ASSUME NEW p \in Procs, Roll(p) PROVE ApartInv'
  <2>1. Race(p) = {}
    BY <1>11, MetTypes DEF Roll, Race, Apart
  <2>2. "stale" \notin upset'
    BY <1>11, MetTypes DEF Roll, ApartInv
  <2>3. Start(p, "roll", "roll") \/ Start(p, "roll", "idle")
    BY <1>11 DEF Roll
  <2> QED
    BY <1>7, <1>11, <2>1, <2>2, <2>3 DEF Roll, fwdVars
<1>12. ASSUME NEW p \in Procs, RollWrite(p) PROVE ApartInv'
  <2>1. job[p] = "roll" /\ pc[p] = "roll" /\ job[p] # "none"
    BY <1>12 DEF RollWrite, LocalInv
  <2>2. PICK r \in BOOLEAN : /\ pc' = [pc EXCEPT ![p] = IF r THEN "resuming" ELSE "idle"]
                             /\ job' = [job EXCEPT ![p] = IF r THEN "release" ELSE "none"]
    BY <1>12 DEF RollWrite
  <2>3. /\ UNCHANGED <<status, running, torn, cur>> /\ "stale" \notin upset'
    BY <1>12, MetTypes DEF RollWrite, fwdVars, ApartInv
  <2>4. /\ pc'[p] \in {"resuming", "idle"} /\ job'[p] \in {"release", "none"}
        /\ job'[p] = "none" => pc'[p] = "idle"
        /\ \A q \in Procs \ {p} : job'[q] = "none" /\ pc'[q] = "idle"
    BY <1>0, <1>1, <1>2, <2>1, <2>2 DEF ProcTypeOK
  <2>5. \A f \in Forwards : Real(f)'
    BY <1>2, <1>4, <2>1, <2>3 DEF ApartInv
  <2> QED
    BY <2>3, <2>4, <2>5 DEF ApartInv
<1>13. ASSUME NEW p \in Procs, List(p) \/ Mark(p) \/ End(p) \/ ResumeFails(p) PROVE ApartInv'
  <2>1. job[p] # "none" /\ pc[p] \in {"list", "pausing", "resuming", "allowed"}
    BY <1>1, <1>13 DEF List, Mark, End, ResumeFails
  <2>2. /\ UNCHANGED <<status, used>>
        /\ \A q \in Procs \ {p} : pc'[q] = pc[q] /\ job'[q] = job[q]
        /\ pc'[p] \in {"pausing", "resuming", "idle"}
        /\ job'[p] \in {"none", job[p]} /\ (job'[p] = "none" => pc'[p] = "idle")
    BY <1>0, <1>13, <2>1 DEF List, Mark, End, ResumeFails, Finish, fwdVars, quotaRow, ProcTypeOK
  <2>3. \A f \in Forwards : Real(f)
    BY <1>2, <2>1 DEF ApartInv
  <2>4. \A q \in Procs : pc'[q] \notin {"stopped", "started"}
    BY <1>2, <2>1, <2>2
  <2>5. "stale" \notin upset'
    <3>1. Mark(p) => Stale = {}
      BY <1>3, <2>1
    <3> QED
      BY <1>13, <3>1 DEF List, Mark, End, ResumeFails, history, ApartInv
  <2>6. \A f \in Forwards : Real(f)'
    <3>1. CASE ResumeFails(p)
      <4>1. PICK done \in SUBSET Services : running' = running \cup (cur[p] \X done)
        BY <3>1 DEF ResumeFails
      <4>2. torn' = [torn EXCEPT !.resume = @ \cup cur[p]]
        BY <3>1 DEF ResumeFails
      <4>3. torn'.pause = torn.pause /\ torn'.resume = torn.resume \cup cur[p]
        BY <1>0, <4>2 DEF HistoryTypeOK
      <4>4. \A f \in Forwards : On(f) => On(f)'
        BY <4>1 DEF On
      <4>5. \A f \in Forwards : f \notin cur[p] /\ Off(f) => Off(f)'
        BY <4>1 DEF Off
      <4> QED
        BY <2>2, <2>3, <4>3, <4>4, <4>5 DEF Real
    <3>2. CASE List(p) \/ Mark(p) \/ End(p)
      BY <1>4, <2>3, <3>2 DEF List, Mark, End, fwdVars, history
    <3> QED
      BY <1>13, <3>1, <3>2
  <2> QED
    BY <2>2, <2>4, <2>5, <2>6 DEF ApartInv, Exceeded
<1>14. ASSUME NEW p \in Procs, NEW f \in Forwards, PauseFails(p, f) \/ Check(p, f) PROVE ApartInv'
  <2>1. job[p] # "none" /\ pc[p] \in {"pausing", "resuming"}
    BY <1>1, <1>14 DEF PauseFails, Check
  <2>2. /\ UNCHANGED <<status, used, job, upset>>
        /\ \A q \in Procs \ {p} : pc'[q] = pc[q]
        /\ pc'[p] \in {"pausing", "resuming", "allowed"}
    BY <1>0, <1>14, <2>1 DEF PauseFails, Check, fwdVars, quotaRow, history, ProcTypeOK
  <2>3. \A g \in Forwards : Real(g)
    BY <1>2, <2>1 DEF ApartInv
  <2>4. \A q \in Procs : pc'[q] \notin {"stopped", "started"}
    BY <1>2, <2>1, <2>2
  <2>5. \A g \in Forwards : Real(g)'
    <3>1. CASE PauseFails(p, f)
      <4>1. PICK done \in SUBSET Services : running' = running \ ({f} \X done)
        BY <3>1 DEF PauseFails
      <4>2. torn' = [torn EXCEPT !.pause = @ \cup {f}]
        BY <3>1 DEF PauseFails
      <4>3. torn'.pause = torn.pause \cup {f} /\ torn'.resume = torn.resume
        BY <1>0, <4>2 DEF HistoryTypeOK
      <4>4. \A g \in Forwards : Off(g) => Off(g)'
        BY <4>1 DEF Off
      <4>5. \A g \in Forwards : g # f /\ On(g) => On(g)'
        BY <4>1 DEF On
      <4> QED
        BY <2>2, <2>3, <4>3, <4>4, <4>5 DEF Real
    <3>2. CASE Check(p, f)
      BY <1>4, <2>3, <3>2 DEF Check, fwdVars, history
    <3> QED
      BY <1>14, <3>1, <3>2
  <2> QED
    BY <2>1, <2>2, <2>4, <2>5 DEF ApartInv, Exceeded
<1>15. ASSUME NEW p \in Procs, NEW f \in Forwards, PauseOk(p, f) PROVE ApartInv'
  <2>1. job[p] # "none" /\ pc[p] = "pausing"
    BY <1>1, <1>15 DEF PauseOk
  <2>2. /\ UNCHANGED <<status, used, job, upset>> /\ running' = running \ ({f} \X Services)
        /\ torn' = [torn EXCEPT !.pause = @ \ {f}, !.resume = @ \ {f}]
        /\ \A q \in Procs \ {p} : pc'[q] = pc[q]
        /\ pc'[p] = "stopped" /\ cur'[p] = {f}
    BY <1>0, <1>15 DEF PauseOk, quotaRow, ProcTypeOK
  <2>3. \A g \in Forwards : Real(g)
    BY <1>2, <2>1 DEF ApartInv
  <2>4. \A q \in Procs : pc'[q] # "started" /\ (pc'[q] = "stopped" => q = p)
    BY <1>2, <2>1, <2>2
  <2>5. torn'.pause = torn.pause \ {f} /\ torn'.resume = torn.resume \ {f}
    BY <1>0, <2>2 DEF HistoryTypeOK
  <2>6. Off(f)'
    BY <2>2 DEF Off
  <2>7. ASSUME NEW g \in Forwards, g # f PROVE Real(g)'
    BY <2>2, <2>3, <2>5, <2>7 DEF Real, On, Off
  <2> QED
    BY <2>1, <2>2, <2>4, <2>6, <2>7 DEF ApartInv, Exceeded
<1>16. ASSUME NEW p \in Procs, ResumeOk(p) PROVE ApartInv'
  <2>1. job[p] # "none" /\ pc[p] = "allowed"
    BY <1>1, <1>16 DEF ResumeOk
  <2>2. /\ UNCHANGED <<status, used, job, cur, upset>> /\ running' = running \cup (cur[p] \X Services)
        /\ torn' = [torn EXCEPT !.pause = @ \ cur[p], !.resume = @ \ cur[p]]
        /\ \A q \in Procs \ {p} : pc'[q] = pc[q]
        /\ pc'[p] = "started"
    BY <1>0, <1>16 DEF ResumeOk, quotaRow, ProcTypeOK
  <2>3. \A g \in Forwards : Real(g)
    BY <1>2, <2>1 DEF ApartInv
  <2>4. \A q \in Procs : pc'[q] # "stopped" /\ (pc'[q] = "started" => q = p)
    BY <1>2, <2>1, <2>2
  <2>5. torn'.pause = torn.pause \ cur[p] /\ torn'.resume = torn.resume \ cur[p]
    BY <1>0, <2>2 DEF HistoryTypeOK
  <2>6. \A g \in cur[p] : On(g)'
    BY <2>2 DEF On
  <2>7. ASSUME NEW g \in Forwards, g \notin cur[p] PROVE Real(g)'
    BY <2>2, <2>3, <2>5, <2>7 DEF Real, On, Off
  <2> QED
    BY <2>1, <2>2, <2>4, <2>6, <2>7 DEF ApartInv, Exceeded
<1>17. ASSUME NEW p \in Procs, StatusOff(p) \/ StatusOn(p) PROVE ApartInv'
  <2>1. job[p] # "none" /\ (pc[p] = "stopped" <=> StatusOff(p)) /\ (pc[p] = "started" <=> StatusOn(p))
    BY <1>1, <1>17 DEF StatusOff, StatusOn
  <2>2. /\ UNCHANGED <<running, torn, used, job, upset>>
        /\ \A q \in Procs \ {p} : pc'[q] = pc[q]
        /\ pc'[p] \in {"pausing", "resuming"}
    BY <1>0, <1>17 DEF StatusOff, StatusOn, quotaRow, ProcTypeOK
  <2>3. \A g \in Forwards : g \notin cur[p] => Real(g)
    BY <1>2, <2>1 DEF ApartInv
  <2>4. \A g \in cur[p] : IF StatusOn(p) THEN On(g) ELSE Off(g)
    <3>1. cur[p] \subseteq Forwards
      BY <1>0 DEF ProcTypeOK
    <3> QED
      BY <1>2, <1>17, <2>1, <3>1 DEF ApartInv
  <2>5. \A g \in Forwards : status'[g] = IF g \in cur[p] THEN (IF StatusOn(p) THEN 1 ELSE 0) ELSE status[g]
    BY <1>17, <2>1 DEF StatusOff, StatusOn
  <2>6. \A q \in Procs : pc'[q] \notin {"stopped", "started"}
    BY <1>2, <2>1, <2>2
  <2>7. ASSUME NEW g \in Forwards PROVE (On(g)' <=> On(g)) /\ (Off(g)' <=> Off(g))
    BY <2>2 DEF On, Off
  <2>8. \A g \in Forwards : Real(g)'
    BY <2>2, <2>3, <2>4, <2>5, <2>7 DEF Real
  <2> QED
    BY <2>1, <2>2, <2>6, <2>8 DEF ApartInv, Exceeded
<1>18. CASE UNCHANGED vars
  BY <1>18 DEF vars, quotaRow, fwdVars, procVars, history, ApartInv, Real, On, Off, Exceeded
<1> QED
  BY <1>5, <1>6, <1>8, <1>9, <1>10, <1>11, <1>12, <1>13, <1>14, <1>15, <1>16, <1>17, <1>18 DEF Next

\* A command failed for the forward since the last that succeeded.
Torn(f) == f \in torn.pause \cup torn.resume

\* Nothing runs for a disabled user but what a failed command left, and nothing
\* is about to; an enforcement under way has still to go through what runs.
DownInv ==
  /\ disabled = 1 => /\ \A f \in Forwards : Torn(f) \/ Off(f)
                     /\ \A p \in Procs : pc[p] \notin {"allowed", "started"}
  /\ \A p \in Procs :
       job[p] = "upload" /\ pc[p] \in {"pausing", "stopped"} =>
         \A f \in Forwards : f \in todo[p] \/ Torn(f) \/ Off(f)

LEMMA DownNext ==
  ASSUME TypeOK, LocalInv, SeenInv, ApartInv, DownInv, [Next]_vars, Apart'
  PROVE  DownInv'
<1>0. RowTypeOK /\ ForwardTypeOK /\ ProcTypeOK /\ HistoryTypeOK
  BY DEF TypeOK
<1>1. \A p \in Procs : pc[p] = "idle" <=> job[p] = "none"
  BY <1>0 DEF ApartInv, ProcTypeOK
<1>2. ASSUME NEW p \in Procs, job[p] # "none"
      PROVE  \A q \in Procs \ {p} : job[q] = "none" /\ pc[q] = "idle"
  BY <1>1, <1>2 DEF ApartInv
<1>k. ASSUME UNCHANGED <<running, torn>>, NEW f \in Forwards, Torn(f) \/ Off(f) PROVE (Torn(f) \/ Off(f))'
  BY <1>k DEF Torn, Off
<1>3. CASE Midnight
  BY <1>3 DEF Midnight, fwdVars, history, DownInv, Torn, Off
<1>4. CASE Crash
  BY <1>4 DEF Crash, Apart
<1>5. ASSUME NEW p \in Procs, NEW at \in {"list", "resuming", "pausing", "idle", "roll"}, NEW kind,
             Start(p, kind, at), at = "pausing" => kind = "user", UNCHANGED <<running, torn>>,
             disabled' = 1 => disabled = 1, \A q \in Procs \ {p} : todo'[q] = todo[q]
      PROVE  DownInv'
  <2>1. /\ pc'[p] = at /\ (at = "pausing" => job'[p] = "user")
        /\ \A q \in Procs \ {p} : pc'[q] = pc[q] /\ job'[q] = job[q]
    BY <1>0, <1>5 DEF Start, ProcTypeOK
  <2> QED
    BY <1>k, <1>5, <2>1 DEF DownInv
<1>6. ASSUME NEW p \in Procs, Upload(p) PROVE DownInv'
  BY <1>5, <1>6 DEF Upload, fwdVars
<1>7. ASSUME NEW p \in Procs, NEW scope \in SUBSET Windows, Reset(p, scope) PROVE DownInv'
  <2>1. /\ UNCHANGED <<running, torn>> /\ (disabled' = 1 => disabled = 1)
        /\ \A q \in Procs \ {p} : todo'[q] = todo[q]
    BY <1>0, <1>7 DEF Reset, fwdVars, ProcTypeOK
  <2>2. CASE Start(p, "release", "resuming")
    BY <1>5, <2>1, <2>2
  <2>3. CASE Start(p, "release", "idle")
    BY <1>5, <2>1, <2>3
  <2> QED
    BY <1>7, <2>2, <2>3 DEF Reset
<1>8. ASSUME NEW p \in Procs, NEW f \in Forwards, NEW at \in {"pausing", "resuming"},
             UserOp(p, f, at)
      PROVE  DownInv'
  BY <1>0, <1>5, <1>8 DEF UserOp, fwdVars, quotaRow, ProcTypeOK
<1>9. ASSUME NEW p \in Procs, Roll(p) PROVE DownInv'
  <2>1. UNCHANGED <<running, torn, disabled, todo>>
    BY <1>9 DEF Roll, fwdVars, quotaRow
  <2>2. Start(p, "roll", "roll") \/ Start(p, "roll", "idle")
    BY <1>9 DEF Roll
  <2> QED
    BY <1>5, <2>1, <2>2
\* The nightly job sets no mark it has not read.
<1>10. ASSUME NEW p \in Procs, RollWrite(p) PROVE DownInv'
  <2>1. job[p] = "roll" /\ pc[p] = "roll" /\ job[p] # "none" /\ seen.disabled = disabled
    BY <1>10 DEF RollWrite, LocalInv, SeenInv, AsSeen, ApartInv
  <2>2. PICK r \in BOOLEAN : pc' = [pc EXCEPT ![p] = IF r THEN "resuming" ELSE "idle"]
    BY <1>10 DEF RollWrite
  <2>3. /\ UNCHANGED <<running, torn>> /\ (disabled' = 1 => disabled = 1)
    BY <1>10, <2>1 DEF RollWrite, fwdVars
  <2>4. \A q \in Procs : pc'[q] \in {"resuming", "idle"}
    BY <1>0, <1>2, <2>1, <2>2 DEF ProcTypeOK
  <2> QED
    BY <1>k, <2>3, <2>4 DEF DownInv
<1>11. ASSUME NEW p \in Procs, List(p) PROVE DownInv'
  <2>1. job[p] # "none" /\ pc[p] = "list"
    BY <1>1, <1>11 DEF List
  <2>2. \A f \in Forwards : Real(f)
    BY <1>2, <2>1 DEF ApartInv
  <2>3. /\ UNCHANGED <<running, torn, disabled, job>> /\ pc'[p] = "pausing"
        /\ todo'[p] = {f \in Forwards : status[f] = 1}
        /\ \A q \in Procs \ {p} : pc'[q] = pc[q] /\ todo'[q] = todo[q]
    BY <1>0, <1>11 DEF List, fwdVars, quotaRow, history, ProcTypeOK
  <2>4. \A f \in Forwards : f \in todo'[p] \/ Torn(f) \/ Off(f)
    BY <1>0, <2>2, <2>3 DEF ForwardTypeOK, Real, Torn
  <2> QED
    BY <1>k, <2>3, <2>4 DEF DownInv
<1>12. ASSUME NEW p \in Procs, NEW f \in Forwards, PauseOk(p, f) PROVE DownInv'
  <2>1. /\ UNCHANGED <<disabled, job>> /\ running' = running \ ({f} \X Services) /\ pc'[p] = "stopped"
        /\ torn' = [torn EXCEPT !.pause = @ \ {f}, !.resume = @ \ {f}]
        /\ todo'[p] = todo[p] \ {f} /\ pc[p] = "pausing"
        /\ \A q \in Procs \ {p} : pc'[q] = pc[q] /\ todo'[q] = todo[q]
    BY <1>0, <1>12 DEF PauseOk, quotaRow, ProcTypeOK
  <2>2. torn'.pause = torn.pause \ {f} /\ torn'.resume = torn.resume \ {f}
    BY <1>0, <2>1 DEF HistoryTypeOK
  <2>3. Off(f)' /\ \A g \in Forwards : Off(g) => Off(g)'
    BY <2>1 DEF Off
  <2>4. \A g \in Forwards \ {f} : Torn(g) => Torn(g)'
    BY <2>2 DEF Torn
  <2> QED
    BY <2>1, <2>3, <2>4 DEF DownInv
<1>13. ASSUME NEW p \in Procs, NEW f \in Forwards, PauseFails(p, f) PROVE DownInv'
  <2>1. /\ UNCHANGED <<disabled, job, pc>> /\ todo'[p] = todo[p] \ {f}
        /\ torn' = [torn EXCEPT !.pause = @ \cup {f}]
        /\ \A q \in Procs \ {p} : todo'[q] = todo[q]
    BY <1>0, <1>13 DEF PauseFails, quotaRow, ProcTypeOK
  <2>2. torn'.pause = torn.pause \cup {f} /\ torn'.resume = torn.resume
    BY <1>0, <2>1 DEF HistoryTypeOK
  <2>3. PICK done \in SUBSET Services : running' = running \ ({f} \X done)
    BY <1>13 DEF PauseFails
  <2>4. \A g \in Forwards : Off(g) => Off(g)'
    BY <2>3 DEF Off
  <2>5. Torn(f)' /\ \A g \in Forwards : Torn(g) => Torn(g)'
    BY <2>2 DEF Torn
  <2> QED
    BY <2>1, <2>4, <2>5 DEF DownInv
<1>14. ASSUME NEW p \in Procs, StatusOff(p) PROVE DownInv'
  <2>1. /\ UNCHANGED <<disabled, job, running, torn, todo>> /\ pc'[p] = "pausing" /\ pc[p] = "stopped"
        /\ \A q \in Procs \ {p} : pc'[q] = pc[q]
    BY <1>0, <1>14 DEF StatusOff, quotaRow, ProcTypeOK
  <2> QED
    BY <1>k, <2>1 DEF DownInv
<1>15. ASSUME NEW p \in Procs, Mark(p) PROVE DownInv'
  <2>1. /\ job[p] = "upload" /\ pc[p] = "pausing" /\ todo[p] = {}
        /\ UNCHANGED <<running, torn, todo>> /\ pc'[p] = "idle"
        /\ \A q \in Procs \ {p} : pc'[q] = pc[q] /\ job'[q] = job[q]
    BY <1>0, <1>15 DEF Mark, Finish, fwdVars, ProcTypeOK
  <2>2. \A f \in Forwards : Torn(f) \/ Off(f)
    BY <2>1 DEF DownInv
  <2>3. \A q \in Procs : pc'[q] = "idle"
    BY <1>2, <2>1
  <2> QED
    BY <1>k, <2>1, <2>2, <2>3 DEF DownInv
<1>16. ASSUME NEW p \in Procs, End(p) \/ StatusOn(p) PROVE DownInv'
  <2>1. /\ UNCHANGED <<disabled, running, torn, todo>> /\ pc'[p] \in {"idle", "resuming"}
        /\ \A q \in Procs \ {p} : pc'[q] = pc[q] /\ job'[q] = job[q]
    BY <1>0, <1>16 DEF End, StatusOn, Finish, quotaRow, fwdVars, history, ProcTypeOK
  <2> QED
    BY <1>k, <2>1 DEF DownInv
<1>17. ASSUME NEW p \in Procs, NEW f \in Forwards, Check(p, f) PROVE DownInv'
  <2>1. /\ UNCHANGED <<disabled, running, torn, job>> /\ pc[p] = "resuming"
        /\ pc'[p] = "resuming" \/ (pc'[p] = "allowed" /\ disabled = 0)
        /\ \A q \in Procs \ {p} : pc'[q] = pc[q] /\ todo'[q] = todo[q]
    BY <1>0, <1>17 DEF Check, Allowed, quotaRow, fwdVars, history, ProcTypeOK
  <2> QED
    BY <1>k, <2>1 DEF DownInv
\* A user for whom a forward is resumed is not marked.
<1>18. ASSUME NEW p \in Procs, ResumeOk(p) \/ ResumeFails(p) PROVE DownInv'
  <2>1. /\ UNCHANGED <<disabled, job, todo>> /\ pc[p] = "allowed" /\ pc'[p] \in {"started", "resuming"}
        /\ \A q \in Procs \ {p} : pc'[q] = pc[q]
    BY <1>0, <1>18 DEF ResumeOk, ResumeFails, quotaRow, ProcTypeOK
  <2>2. disabled # 1
    BY <2>1 DEF DownInv
  <2>3. \A q \in Procs : pc'[q] \notin {"pausing", "stopped"}
    BY <1>1, <1>2, <2>1
  <2> QED
    BY <2>1, <2>2, <2>3 DEF DownInv
<1>19. CASE UNCHANGED vars
  BY <1>k, <1>19 DEF vars, quotaRow, fwdVars, procVars, history, DownInv
<1> QED
  BY <1>3, <1>4, <1>6, <1>7, <1>8, <1>9, <1>10, <1>11, <1>12, <1>13, <1>14, <1>15, <1>16, <1>17, <1>18,
     <1>19 DEF Next

\* The inductive invariant of handlers that keep apart.
KeptApart == Apart => ApartInv /\ DownInv

LEMMA SpecKeptApart == Spec => []KeptApart
<1>1. Init => KeptApart
  BY DEF Init, KeptApart, ApartInv, DownInv, Real, On, Off
<1>2. TypeOK /\ LocalInv /\ SeenInv /\ KeptApart /\ [Next]_vars => KeptApart'
  <2> SUFFICES ASSUME TypeOK, LocalInv, SeenInv, KeptApart, [Next]_vars, Apart' PROVE KeptApart'
    BY DEF KeptApart
  <2>1. upset \subseteq upset'
    BY UpsetNext DEF TypeOK
  <2> QED
    BY <2>1, ApartNext, DownNext DEF KeptApart, Apart
<1>3. IInv => TypeOK /\ LocalInv /\ SeenInv
  BY DEF IInv
<1> QED
  BY SpecIInv, <1>1, <1>2, <1>3, PTL DEF Spec

\* While handlers keep apart, the status of a forward is what runs on the nodes,
\* up to the commands that failed for it.
THEOREM SpecStatusIsReal == Spec => []StatusIsReal
<1>1. TypeOK /\ KeptApart => StatusIsReal
  <2> SUFFICES ASSUME TypeOK, ApartInv, Quiet, NEW f \in Forwards PROVE Real(f)
    BY DEF KeptApart, Apart, StatusIsReal, Real
  <2>1. \A p \in Procs : pc[p] = "idle"
    BY DEF ApartInv, Quiet
  <2> QED
    BY <2>1 DEF ApartInv
<1>2. QED
  BY SpecTypeOK, SpecKeptApart, <1>1, PTL

\* A disabled user has nothing running but what a failed command left.
THEOREM SpecDisabledIsStopped == Spec => []DisabledIsStopped
<1>1. KeptApart => DisabledIsStopped
  BY DEF KeptApart, Apart, DownInv, DisabledIsStopped, Torn
<1>2. QED
  BY SpecKeptApart, <1>1, PTL

\* The mark is only set on a usage that exceeds a limit.
THEOREM SpecMarkedWhenExceeded == Spec => MarkedWhenExceeded
<1> DEFINE Marks == disabled = 0 /\ disabled' = 1 /\ "race" \notin upset => Exceeded(used)
<1>1. TypeOK /\ IInv /\ KeptApart /\ [Next]_vars => [Marks]_vars
  <2> SUFFICES ASSUME TypeOK, IInv, KeptApart, Next, disabled = 0, disabled' = 1, Apart
               PROVE  Exceeded(used)
    BY DEF Apart
  <2>1. ~\E p \in Procs : RollWrite(p)
    BY DEF RollWrite, KeptApart, ApartInv, IInv, SeenInv, AsSeen
  <2>2. PICK p \in Procs : Mark(p)
    BY <2>1 DEF Next, Midnight, Crash, Upload, List, StatusOff, End, ResumeOk, ResumeFails, StatusOn,
       PauseOk, PauseFails, Check, UserOp, Reset, Roll, Start, quotaRow
  <2> QED
    BY <2>2 DEF Mark, KeptApart, ApartInv
<1>2. QED
  BY SpecTypeOK, SpecIInv, SpecKeptApart, <1>1, PTL DEF Spec, MarkedWhenExceeded
=============================================================================
