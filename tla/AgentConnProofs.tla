-------------------------- MODULE AgentConnProofs --------------------------
(***************************************************************************)
(* Proofs about AgentConn: type correctness, and that a connection the     *)
(* agent counts as live always has a receiver to look after it.            *)
(***************************************************************************)
EXTENDS AgentConn, TLAPS

\* The mutex outlives a step only in a dial, and the run goroutine knows its
\* connection from the dial to the cleanup.
LoopInv ==
  /\ connMutex <=> pc = "dial"
  /\ pc = "cleanup" => conn \in Conns
  /\ pc = "look" => conn \in Conns

IInv == TypeOK /\ LoopInv /\ DownWhileDialling /\ Attended

-----------------------------------------------------------------------------
LEMMA InitIInv == Init => IInv
  BY DEF Init, IInv, TypeOK, LoopInv, DownWhileDialling, Attended, LoopSteps,
         ReceiverSteps, Links

\* A receiver that is looking after the connection still does after a step
\* of it that keeps it between the top of its loop and the report of a loss.
LEMMA StillAttended ==
  ASSUME IInv, NEW r \in Receivers, UNCHANGED <<conn, pc>>, connected' => connected,
         rpc' = [rpc EXCEPT ![r] = rpc'[r]],
         \A q \in Receivers \ {r} : at'[q] = at[q],
         \/ rpc'[r] \in {"top", "command"}
         \/ rpc'[r] \in {"read", "failed"} /\ at'[r] = conn
         \/ rpc[r] \in {"read", "failed"} /\ at[r] # conn
         \/ rpc[r] = "none"
  PROVE  Attended'
<1>1. SUFFICES ASSUME connected', pc' = "serve"
               PROVE  \E q \in Receivers :
                        \/ rpc'[q] \in {"top", "command"}
                        \/ rpc'[q] \in {"read", "failed"} /\ at'[q] = conn'
  BY DEF Attended
<1>2. PICK q \in Receivers :
        \/ rpc[q] \in {"top", "command"}
        \/ rpc[q] \in {"read", "failed"} /\ at[q] = conn
  BY <1>1 DEF IInv, Attended
<1>3. CASE q = r
  BY <1>2, <1>3
<1>4. CASE q # r
  <2>1. rpc'[q] = rpc[q] /\ at'[q] = at[q]
    BY <1>4 DEF IInv, TypeOK
  <2> QED
    BY <2>1, <1>2
<1> QED
  BY <1>3, <1>4

LEMMA LoopStepIInv ==
  ASSUME IInv, LoopNext PROVE IInv'
<1> USE NoneAssumption DEF IInv, LoopStep, netVars, receiverVars
<1>1. CASE StartDial
  BY <1>1 DEF StartDial, TypeOK, LoopInv, DownWhileDialling, Attended, LoopSteps
<1>2. CASE DialFails
  BY <1>2 DEF DialFails, TypeOK, LoopInv, DownWhileDialling, Attended, LoopSteps
<1>3. CASE Serve
  <2>1. PICK r \in Receivers : rpc[r] = "none" /\ rpc' = [rpc EXCEPT ![r] = "top"]
    BY <1>3 DEF Serve
  <2>2. rpc'[r] = "top"
    BY <2>1 DEF TypeOK
  <2>3. TypeOK'
    BY <1>3, <2>1 DEF Serve, TypeOK, LoopInv, LoopSteps, ReceiverSteps
  <2> QED
    BY <1>3, <2>2, <2>3 DEF Serve, LoopInv, DownWhileDialling, Attended
<1>4. CASE Forsake
  BY <1>4 DEF Forsake, TypeOK, LoopInv, DownWhileDialling, Attended, LoopSteps
<1>5. CASE Retry
  BY <1>5 DEF Retry, TypeOK, LoopInv, DownWhileDialling, Attended, LoopSteps
<1>6. CASE Tick
  BY <1>6 DEF Tick, TypeOK, LoopInv, DownWhileDialling, Attended, LoopSteps
<1>7. CASE Cleanup
  BY <1>7 DEF Cleanup, Close, TypeOK, LoopInv, DownWhileDialling, Attended, LoopSteps, Links
<1>8. ASSUME NEW c \in Conns, DialSucceeds(c) PROVE IInv'
  BY <1>8 DEF DialSucceeds, TypeOK, LoopInv, DownWhileDialling, Attended, LoopSteps, Links
<1> QED
  BY <1>1, <1>2, <1>3, <1>4, <1>5, <1>6, <1>7, <1>8 DEF LoopNext

LEMMA ReceiverStepIInv ==
  ASSUME IInv, NEW r \in Receivers, ReceiverNext(r) PROVE IInv'
<1> USE NoneAssumption DEF ReceiverStep, loopVars, netVars
<1>1. TypeOK /\ LoopInv /\ DownWhileDialling
  BY DEF IInv
<1>2. CASE Turn(r)
  <2>1. TypeOK'
    BY <1>1, <1>2 DEF Turn, TypeOK, ReceiverSteps
  <2>2. CASE conn # None /\ connected
    <3>1. rpc'[r] = "read" /\ at'[r] = conn
      BY <1>1, <1>2, <2>2 DEF Turn, TypeOK
    <3>2. Attended'
      BY <1>2, <3>1, <1>1, StillAttended DEF Turn, TypeOK
    <3> QED
      BY <1>1, <1>2, <2>1, <3>2 DEF IInv, Turn, LoopInv, DownWhileDialling
  <2>3. CASE ~(conn # None /\ connected)
    <3>1. ~(connected /\ pc = "serve")
      BY <1>1, <2>3 DEF TypeOK
    <3>2. Attended'
      BY <1>2, <3>1 DEF Turn, Attended
    <3> QED
      BY <1>1, <1>2, <2>1, <3>2 DEF IInv, Turn, LoopInv, DownWhileDialling
  <2> QED
    BY <2>2, <2>3
<1>3. CASE Read(r)
  <2>1. TypeOK'
    BY <1>1, <1>3 DEF Read, TypeOK, ReceiverSteps
  <2>2. Attended'
    BY <1>1, <1>3, StillAttended DEF Read, TypeOK
  <2> QED
    BY <1>1, <1>3, <2>1, <2>2 DEF IInv, Read, LoopInv, DownWhileDialling
<1>4. CASE ReadTorn(r)
  <2>1. TypeOK'
    BY <1>1, <1>4 DEF ReadTorn, TypeOK, ReceiverSteps, Links
  <2>2. Attended'
    BY <1>1, <1>4, StillAttended DEF ReadTorn, TypeOK
  <2> QED
    BY <1>1, <1>4, <2>1, <2>2 DEF IInv, ReadTorn, LoopInv, DownWhileDialling
<1>5. CASE ReadFails(r)
  <2>1. TypeOK'
    BY <1>1, <1>5 DEF ReadFails, TypeOK, ReceiverSteps
  <2>2. Attended'
    BY <1>1, <1>5, StillAttended DEF ReadFails, TypeOK
  <2> QED
    BY <1>1, <1>5, <2>1, <2>2 DEF IInv, ReadFails, LoopInv, DownWhileDialling
<1>6. CASE ReadClose(r)
  BY <1>1, <1>6 DEF IInv, ReadClose, TypeOK, ReceiverSteps, LoopInv, DownWhileDialling, Attended
<1>7. CASE GiveUp(r)
  BY <1>1, <1>7 DEF IInv, GiveUp, TypeOK, ReceiverSteps, LoopInv, DownWhileDialling, Attended
<1>8. CASE Finish(r)
  <2>1. TypeOK'
    BY <1>1, <1>8 DEF Finish, TypeOK, ReceiverSteps
  <2>2. rpc'[r] = "top" /\ (connected' => connected)
    BY <1>1, <1>8 DEF Finish, TypeOK
  <2>3. Attended'
    BY <1>1, <1>8, <2>2, StillAttended DEF Finish
  <2> QED
    BY <1>1, <1>8, <2>1, <2>3 DEF IInv, Finish, LoopInv, DownWhileDialling
<1> QED
  BY <1>2, <1>3, <1>4, <1>5, <1>6, <1>7, <1>8 DEF ReceiverNext

LEMMA NetStepIInv ==
  ASSUME IInv, NEW c \in Conns, NetNext(c) PROVE IInv'
<1> USE DEF loopVars, receiverVars, TypeOK, Links, LoopInv, DownWhileDialling, Attended
<1>1. CASE Send(c)
  BY <1>1 DEF IInv, Send
<1>2. CASE Replace(c)
  BY <1>2 DEF IInv, Replace
<1>3. CASE Break(c)
  BY <1>3 DEF IInv, Break
<1> QED
  BY <1>1, <1>2, <1>3 DEF NetNext

THEOREM SpecIInv == Spec => []IInv
<1>1. IInv /\ [Next]_vars => IInv'
  <2>1. CASE Next
    BY <2>1, LoopStepIInv, ReceiverStepIInv, NetStepIInv DEF Next
  <2>2. CASE UNCHANGED vars
    BY <2>2 DEF vars, loopVars, netVars, receiverVars, IInv, TypeOK, LoopInv,
                DownWhileDialling, Attended
  <2> QED
    BY <2>1, <2>2
<1> QED
  BY InitIInv, <1>1, PTL DEF Spec

\* Type correctness of the agent's end of the connection.
THEOREM SpecTypeOK == Spec => []TypeOK
<1>1. IInv => TypeOK
  BY DEF IInv
<1> QED
  BY SpecIInv, <1>1, PTL

\* The tests of w.connected that guard against a second connection never
\* find one, as nobody but the run goroutine sets it.
THEOREM SpecDownWhileDialling == Spec => []DownWhileDialling
<1>1. IInv => DownWhileDialling
  BY DEF IInv
<1> QED
  BY SpecIInv, <1>1, PTL

\* However many receivers outlive their connections, a connection counted as
\* live has one that will notice its commands and its end.
THEOREM SpecAttended == Spec => []Attended
<1>1. IInv => Attended
  BY DEF IInv
<1> QED
  BY SpecIInv, <1>1, PTL
=============================================================================
