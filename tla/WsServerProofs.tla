--------------------------- MODULE WsServerProofs ---------------------------
(***************************************************************************)
(* Proofs about WsServer for any number of nodes, connections and calls.   *)
(*                                                                         *)
(* The argument: at any time each command is with exactly one party that   *)
(* may answer it.  It is in pending, or one handler holds it, or its       *)
(* channel was closed, and taking it out of pending under Server.mu is     *)
(* what passes it from one party to the next.                              *)
(***************************************************************************)
EXTENDS WsServer, TLAPS

\* A command nobody has answered has its fresh channel.
Unanswered(m) == chan[m] = EmptyChan

\* Whoever may still answer a command finds its channel fresh, and is alone.
PendingInv ==
  /\ \A m \in pending : /\ Unanswered(m)
                        /\ spc[m] \in {"added", "sent"}
                        /\ \A c \in Conns : m \notin held[c]
  /\ \A c \in Conns : \A m \in held[c] :
       /\ Unanswered(m)
       /\ spc[m] \notin {"new", "looked"}
       /\ \A d \in Conns : m \in held[d] => d = c
  /\ \A m \in Cmds : spc[m] \in {"new", "looked"} => Unanswered(m)

\* A channel is closed once, and without a result only by the caller itself
\* as it returns.
ChannelInv ==
  \A m \in Cmds :
    /\ chan[m].closes <= 1
    /\ chan[m].closes = 1 /\ chan[m].buf = None => spc[m] = "returned"
    /\ outcome[m] # "chanClosed"

\* A handler that holds commands has the result it will give them.
HeldInv ==
  \A c \in Conns :
    /\ held[c] # {} => hpc[c] \in {"resolving", "failing"} /\ verdict[c] # None
    /\ hpc[c] = "failing" => verdict[c] = "disconnected"

\* An "ok" on its way to a caller was said by the agent that ran the command.
AgentInv ==
  /\ \A m \in Cmds :
       /\ agent[m] \in {"none", "wire"} <=> ran[m] = None
       /\ spc[m] \in {"new", "looked", "added"} => agent[m] = "none"
       /\ chan[m].buf = "ok" => ran[m] = "ok"
       /\ outcome[m] = "ok" => ran[m] = "ok"
  /\ \A c \in Conns : \A m \in held[c] : verdict[c] = "ok" => ran[m] = "ok"

IInv == TypeOK /\ PendingInv /\ ChannelInv /\ HeldInv /\ AgentInv
-----------------------------------------------------------------------------
LEMMA CloseType == ASSUME NEW ch \in Chans PROVE Close(ch) \in Chans
BY DEF Close, Chans

LEMMA AnswerType ==
  ASSUME NEW ch \in Chans, NEW v \in Results \cup {None} PROVE Answer(ch, v) \in Chans
BY DEF Answer, Close, Chans

LEMMA InitIInv == Init => IInv
<1> SUFFICES ASSUME Init PROVE IInv
  OBVIOUS
<1>1. TypeOK
  BY DEF Init, TypeOK, EmptyChan, Chans, HandlerSteps, CallSteps
<1>2. PendingInv
  BY DEF Init, PendingInv, Unanswered
<1>3. ChannelInv
  BY NoneAssumption DEF Init, ChannelInv, EmptyChan
<1>4. HeldInv
  BY DEF Init, HeldInv
<1>5. AgentInv
  BY NoneAssumption DEF Init, AgentInv, EmptyChan
<1>6. QED
  BY <1>1, <1>2, <1>3, <1>4, <1>5 DEF IInv

\* Type correctness is inductive by itself.
LEMMA TypeOKNext == TypeOK /\ [Next]_vars => TypeOK'
<1> SUFFICES ASSUME TypeOK, [Next]_vars PROVE TypeOK'
  OBVIOUS
<1>1. ASSUME NEW c \in Conns, NEW n \in Nodes, Register(c, n) PROVE TypeOK'
  BY <1>1 DEF Register, HandlerStep, InByConn, TypeOK, HandlerSteps,
     CallSteps, Results, Outcomes, callVars, agentVars
<1>2. ASSUME NEW c \in Conns, WriteOnline(c) PROVE TypeOK'
  BY <1>2 DEF WriteOnline, HandlerStep, TypeOK, HandlerSteps, CallSteps,
     Results, Outcomes, serverVars, callVars, agentVars
<1>3. ASSUME NEW c \in Conns, Drop(c) PROVE TypeOK'
  BY <1>3 DEF Drop, TypeOK, HandlerSteps, CallSteps, Results, Outcomes,
     serverVars, callVars, agentVars
<1>4. ASSUME NEW c \in Conns, NEW m \in Cmds, ReadAnswer(c, m) PROVE TypeOK'
  <2>1. CASE Take(c, m, ran[m])
    BY <1>4, <2>1 DEF ReadAnswer, ReadMessage, Take, HandlerStep, AnswerVerdict,
       TypeOK, HandlerSteps, CallSteps, Results, Outcomes, callVars
  <2>2. CASE DropLate(c, m)
    BY <1>4, <2>2 DEF ReadAnswer, ReadMessage, DropLate, HandlerStep, TypeOK,
       HandlerSteps, CallSteps, Results, Outcomes, callVars
  <2>3. QED
    BY <1>4, <2>1, <2>2 DEF ReadAnswer, ReadMessage
<1>5. ASSUME NEW c \in Conns, NEW m \in Cmds, ReadStrayAnswer(c, m) PROVE TypeOK'
  <2>1. CASE Take(c, m, "ok")
    BY <1>5, <2>1 DEF ReadStrayAnswer, ReadMessage, Take, HandlerStep,
       AnswerVerdict, TypeOK, HandlerSteps, CallSteps, Results, Outcomes,
       callVars
  <2>2. CASE DropLate(c, m)
    BY <1>5, <2>2 DEF ReadStrayAnswer, ReadMessage, DropLate, HandlerStep,
       TypeOK, HandlerSteps, CallSteps, Results, Outcomes, callVars
  <2>3. QED
    BY <1>5, <2>1, <2>2 DEF ReadStrayAnswer, ReadMessage
<1>6. ASSUME NEW c \in Conns, NEW m \in Cmds, Resolve(c, m) PROVE TypeOK'
  BY <1>6, AnswerType DEF Resolve, HandlerStep, TypeOK, HandlerSteps,
     CallSteps, Results, Outcomes, callVars, agentVars
<1>7. ASSUME NEW c \in Conns, Unregister(c) PROVE TypeOK'
  BY <1>7 DEF Unregister, HandlerStep, TypeOK, HandlerSteps, CallSteps,
     Results, Outcomes, callVars, agentVars
<1>8. ASSUME NEW c \in Conns, CollectPending(c) PROVE TypeOK'
  BY <1>8 DEF CollectPending, HandlerStep, TypeOK, HandlerSteps, CallSteps,
     Results, Outcomes, callVars, agentVars
<1>9. ASSUME NEW c \in Conns, NEW m \in Cmds, FailOne(c, m) PROVE TypeOK'
  BY <1>9, AnswerType DEF FailOne, TypeOK, HandlerSteps, CallSteps, Results,
     Outcomes, callVars, agentVars
<1>10. ASSUME NEW c \in Conns, WriteOffline(c) PROVE TypeOK'
  BY <1>10 DEF WriteOffline, HandlerStep, TypeOK, HandlerSteps, CallSteps,
     Results, Outcomes, serverVars, callVars, agentVars
<1>11. ASSUME NEW c \in Conns, CloseConn(c) PROVE TypeOK'
  BY <1>11 DEF CloseConn, HandlerStep, TypeOK, HandlerSteps, CallSteps,
     Results, Outcomes, serverVars, callVars, agentVars
<1>12. ASSUME NEW m \in Cmds, NEW n \in Nodes, LookupAbsent(m, n) PROVE TypeOK'
  BY <1>12 DEF LookupAbsent, Return, TypeOK, HandlerSteps, CallSteps,
     Results, Outcomes, serverVars, handlerVars, agentVars
<1>13. ASSUME NEW m \in Cmds, NEW n \in Nodes, Lookup(m, n) PROVE TypeOK'
  BY <1>13 DEF Lookup, TypeOK, HandlerSteps, CallSteps, Results, Outcomes,
     serverVars, handlerVars, agentVars
<1>14. ASSUME NEW m \in Cmds, AddPending(m) PROVE TypeOK'
  BY <1>14 DEF AddPending, TypeOK, HandlerSteps, CallSteps, Results,
     Outcomes, handlerVars, agentVars
<1>15. ASSUME NEW m \in Cmds, WriteCommand(m) PROVE TypeOK'
  BY <1>15 DEF WriteCommand, OnWire, TypeOK, HandlerSteps, CallSteps,
     Results, Outcomes, serverVars, handlerVars
<1>16. ASSUME NEW m \in Cmds, WriteFails(m) PROVE TypeOK'
  <2>1. CASE m \in pending
    BY <1>16, <2>1, CloseType DEF WriteFails, Return, Cleanup, OnWire, TypeOK,
       HandlerSteps, CallSteps, Results, Outcomes, handlerVars
  <2>2. CASE m \notin pending
    BY <1>16, <2>2, CloseType DEF WriteFails, Return, Cleanup, OnWire, TypeOK,
       HandlerSteps, CallSteps, Results, Outcomes, handlerVars
  <2>3. QED
    BY <1>16, <2>1, <2>2 DEF WriteFails
<1>17. ASSUME NEW m \in Cmds, Receive(m) PROVE TypeOK'
  <2>1. CASE chan[m].buf # None /\ Return(m, chan[m].buf)
    BY <1>17, <2>1 DEF Receive, Return, Chans, TypeOK, HandlerSteps, CallSteps, Results,
       Outcomes, serverVars, handlerVars, agentVars
  <2>2. CASE chan[m].buf = None /\ chan[m].closes > 0 /\ Return(m, "chanClosed")
    BY <1>17, <2>2 DEF Receive, Return, Chans, TypeOK, HandlerSteps, CallSteps, Results,
       Outcomes, serverVars, handlerVars, agentVars
  <2>3. QED
    BY <1>17, <2>1, <2>2 DEF Receive
<1>18. ASSUME NEW m \in Cmds, Timeout(m) PROVE TypeOK'
  <2>1. CASE m \in pending
    BY <1>18, <2>1, CloseType DEF Timeout, Return, Cleanup, TypeOK, HandlerSteps,
       CallSteps, Results, Outcomes, handlerVars, agentVars
  <2>2. CASE m \notin pending
    BY <1>18, <2>2, CloseType DEF Timeout, Return, Cleanup, TypeOK, HandlerSteps,
       CallSteps, Results, Outcomes, handlerVars, agentVars
  <2>3. QED
    BY <1>18, <2>1, <2>2 DEF Timeout
<1>19. ASSUME NEW m \in Cmds, Run(m) PROVE TypeOK'
  BY <1>19 DEF Run, TypeOK, HandlerSteps, CallSteps, Results, Outcomes,
     serverVars, handlerVars, callVars
<1>20. CASE UNCHANGED vars
  BY <1>20 DEF vars, serverVars, handlerVars, callVars, agentVars, TypeOK
<1>21. QED
  BY <1>1, <1>2, <1>3, <1>4, <1>5, <1>6, <1>7, <1>8, <1>9, <1>10, <1>11, <1>12, <1>13, <1>14, <1>15, <1>16, <1>17, <1>18, <1>19, <1>20 DEF
     Next, HandlerNext, CallNext

\* One party at a time may answer a command: passed on only out of pending.
LEMMA PendingInvNext == TypeOK /\ PendingInv /\ [Next]_vars => PendingInv'
<1> SUFFICES ASSUME TypeOK, PendingInv, [Next]_vars PROVE PendingInv'
  OBVIOUS
<1> USE NoneAssumption
<1>1. ASSUME NEW c \in Conns, NEW m \in Cmds, ReadAnswer(c, m) PROVE PendingInv'
  <2>1. CASE Take(c, m, ran[m])
    BY <1>1, <2>1 DEF ReadAnswer, ReadMessage, Take, HandlerStep, AnswerVerdict,
       TypeOK, PendingInv, Unanswered, EmptyChan, Chans, callVars
  <2>2. CASE DropLate(c, m)
    BY <1>1, <2>2 DEF ReadAnswer, ReadMessage, DropLate, HandlerStep, TypeOK,
       PendingInv, Unanswered, EmptyChan, Chans, callVars
  <2>3. QED
    BY <1>1, <2>1, <2>2 DEF ReadAnswer, ReadMessage
<1>2. ASSUME NEW c \in Conns, NEW m \in Cmds, ReadStrayAnswer(c, m) PROVE PendingInv'
  <2>1. CASE Take(c, m, "ok")
    BY <1>2, <2>1 DEF ReadStrayAnswer, ReadMessage, Take, HandlerStep,
       AnswerVerdict, TypeOK, PendingInv, Unanswered, EmptyChan, Chans,
       callVars
  <2>2. CASE DropLate(c, m)
    BY <1>2, <2>2 DEF ReadStrayAnswer, ReadMessage, DropLate, HandlerStep,
       TypeOK, PendingInv, Unanswered, EmptyChan, Chans, callVars
  <2>3. QED
    BY <1>2, <2>1, <2>2 DEF ReadStrayAnswer, ReadMessage
<1>3. ASSUME NEW c \in Conns, NEW m \in Cmds, Resolve(c, m) PROVE PendingInv'
  BY <1>3 DEF Resolve, HandlerStep, Answer, Close, TypeOK, PendingInv,
     Unanswered, EmptyChan, Chans, callVars, agentVars
<1>4. ASSUME NEW c \in Conns, CollectPending(c) PROVE PendingInv'
  <2>1. /\ pending' = {m \in pending : target[m] # owner[c]}
        /\ held' = [held EXCEPT ![c] = {m \in pending : target[m] = owner[c]}]
        /\ chan' = chan /\ spc' = spc
    BY <1>4 DEF CollectPending, callVars
  <2>2. \A m \in held'[c] : m \in pending /\ m \notin pending'
    BY <2>1 DEF TypeOK
  <2>3. \A d \in Conns : d # c => held'[d] = held[d]
    BY <2>1 DEF TypeOK
  <2>4. \A m \in pending' : Unanswered(m)' /\ spc'[m] \in {"added", "sent"}
    BY <2>1 DEF PendingInv, Unanswered
  <2>5. \A m \in pending', d \in Conns : m \notin held'[d]
    BY <2>1, <2>2, <2>3 DEF PendingInv
  <2>6. \A d \in Conns : \A m \in held'[d] :
          /\ Unanswered(m)'
          /\ spc'[m] \notin {"new", "looked"}
          /\ \A e \in Conns : m \in held'[e] => e = d
    BY <2>1, <2>2, <2>3 DEF PendingInv, Unanswered
  <2>7. QED
    BY <2>1, <2>4, <2>5, <2>6 DEF PendingInv, Unanswered
<1>5. ASSUME NEW c \in Conns, NEW m \in Cmds, FailOne(c, m) PROVE PendingInv'
  BY <1>5 DEF FailOne, Answer, Close, TypeOK, PendingInv, Unanswered,
     EmptyChan, Chans, callVars, agentVars
<1>6. ASSUME NEW m \in Cmds, NEW n \in Nodes, LookupAbsent(m, n) PROVE PendingInv'
  BY <1>6 DEF LookupAbsent, Return, TypeOK, PendingInv, Unanswered,
     EmptyChan, Chans, serverVars, handlerVars, agentVars
<1>7. ASSUME NEW m \in Cmds, NEW n \in Nodes, Lookup(m, n) PROVE PendingInv'
  BY <1>7 DEF Lookup, TypeOK, PendingInv, Unanswered, EmptyChan, Chans,
     serverVars, handlerVars, agentVars
<1>8. ASSUME NEW m \in Cmds, AddPending(m) PROVE PendingInv'
  BY <1>8 DEF AddPending, TypeOK, PendingInv, Unanswered, EmptyChan, Chans,
     handlerVars, agentVars
<1>9. ASSUME NEW m \in Cmds, WriteCommand(m) PROVE PendingInv'
  BY <1>9 DEF WriteCommand, OnWire, TypeOK, PendingInv, Unanswered,
     EmptyChan, Chans, serverVars, handlerVars
<1>10. ASSUME NEW m \in Cmds, WriteFails(m) PROVE PendingInv'
  <2>1. CASE m \in pending
    BY <1>10, <2>1 DEF WriteFails, Return, Cleanup, Close, OnWire, TypeOK,
       PendingInv, Unanswered, EmptyChan, Chans, handlerVars
  <2>2. CASE m \notin pending
    BY <1>10, <2>2 DEF WriteFails, Return, Cleanup, Close, OnWire, TypeOK,
       PendingInv, Unanswered, EmptyChan, Chans, handlerVars
  <2>3. QED
    BY <1>10, <2>1, <2>2 DEF WriteFails
<1>11. ASSUME NEW m \in Cmds, Receive(m) PROVE PendingInv'
  <2>1. CASE chan[m].buf # None /\ Return(m, chan[m].buf)
    BY <1>11, <2>1 DEF Receive, Return, TypeOK, PendingInv, Unanswered,
       EmptyChan, Chans, serverVars, handlerVars, agentVars
  <2>2. CASE chan[m].buf = None /\ chan[m].closes > 0 /\ Return(m, "chanClosed")
    BY <1>11, <2>2 DEF Receive, Return, TypeOK, PendingInv, Unanswered,
       EmptyChan, Chans, serverVars, handlerVars, agentVars
  <2>3. QED
    BY <1>11, <2>1, <2>2 DEF Receive
<1>12. ASSUME NEW m \in Cmds, Timeout(m) PROVE PendingInv'
  <2>1. CASE m \in pending
    BY <1>12, <2>1 DEF Timeout, Return, Cleanup, Close, TypeOK, PendingInv,
       Unanswered, EmptyChan, Chans, handlerVars, agentVars
  <2>2. CASE m \notin pending
    BY <1>12, <2>2 DEF Timeout, Return, Cleanup, Close, TypeOK, PendingInv,
       Unanswered, EmptyChan, Chans, handlerVars, agentVars
  <2>3. QED
    BY <1>12, <2>1, <2>2 DEF Timeout
<1>13. CASE UNCHANGED <<pending, chan, spc, held>>
  BY <1>13 DEF PendingInv, Unanswered, EmptyChan, Chans
<1>14. QED
  BY <1>1, <1>2, <1>3, <1>4, <1>5, <1>6, <1>7, <1>8, <1>9, <1>10, <1>11, <1>12, <1>13 DEF
     Next, HandlerNext, CallNext, vars, Register, callVars, agentVars,
     WriteOnline, serverVars, Drop, Unregister, WriteOffline, CloseConn, Run,
     handlerVars

\* The party that answers finds a fresh channel, so no channel is closed twice.
LEMMA ChannelInvNext == TypeOK /\ PendingInv /\ ChannelInv /\ HeldInv /\ [Next]_vars => ChannelInv'
<1> SUFFICES ASSUME TypeOK, PendingInv, ChannelInv, HeldInv, [Next]_vars PROVE ChannelInv'
  OBVIOUS
<1> USE NoneAssumption
<1>1. ASSUME NEW c \in Conns, NEW m \in Cmds, Resolve(c, m) PROVE ChannelInv'
  BY <1>1 DEF Resolve, HandlerStep, Answer, Close, TypeOK, PendingInv,
     Unanswered, EmptyChan, Chans, ChannelInv, HeldInv, Results, callVars,
     agentVars
<1>2. ASSUME NEW c \in Conns, NEW m \in Cmds, FailOne(c, m) PROVE ChannelInv'
  BY <1>2 DEF FailOne, Answer, Close, TypeOK, PendingInv, Unanswered,
     EmptyChan, Chans, ChannelInv, HeldInv, Results, callVars, agentVars
<1>3. ASSUME NEW m \in Cmds, NEW n \in Nodes, LookupAbsent(m, n) PROVE ChannelInv'
  BY <1>3 DEF LookupAbsent, Return, TypeOK, PendingInv, Unanswered,
     EmptyChan, Chans, ChannelInv, HeldInv, Results, serverVars, handlerVars,
     agentVars
<1>4. ASSUME NEW m \in Cmds, NEW n \in Nodes, Lookup(m, n) PROVE ChannelInv'
  BY <1>4 DEF Lookup, TypeOK, PendingInv, Unanswered, EmptyChan, Chans,
     ChannelInv, HeldInv, Results, serverVars, handlerVars, agentVars
<1>5. ASSUME NEW m \in Cmds, AddPending(m) PROVE ChannelInv'
  BY <1>5 DEF AddPending, TypeOK, PendingInv, Unanswered, EmptyChan, Chans,
     ChannelInv, HeldInv, Results, handlerVars, agentVars
<1>6. ASSUME NEW m \in Cmds, WriteCommand(m) PROVE ChannelInv'
  BY <1>6 DEF WriteCommand, OnWire, TypeOK, PendingInv, Unanswered,
     EmptyChan, Chans, ChannelInv, HeldInv, Results, serverVars, handlerVars
<1>7. ASSUME NEW m \in Cmds, WriteFails(m) PROVE ChannelInv'
  <2>1. CASE m \in pending
    BY <1>7, <2>1 DEF WriteFails, Return, Cleanup, Close, OnWire, TypeOK,
       PendingInv, Unanswered, EmptyChan, Chans, ChannelInv, HeldInv,
       Results, handlerVars
  <2>2. CASE m \notin pending
    BY <1>7, <2>2 DEF WriteFails, Return, Cleanup, Close, OnWire, TypeOK,
       PendingInv, Unanswered, EmptyChan, Chans, ChannelInv, HeldInv,
       Results, handlerVars
  <2>3. QED
    BY <1>7, <2>1, <2>2 DEF WriteFails
<1>8. ASSUME NEW m \in Cmds, Receive(m) PROVE ChannelInv'
  <2>1. CASE chan[m].buf # None /\ Return(m, chan[m].buf)
    <3>1. chan[m].buf \in Results
      BY <2>1 DEF TypeOK, Chans
    <3>2. outcome' = [outcome EXCEPT ![m] = chan[m].buf] /\ spc' = [spc EXCEPT ![m] = "returned"]
      BY <2>1 DEF Return
    <3>3. chan' = chan
      BY <1>8 DEF Receive, serverVars
    <3>4. QED
      BY <3>1, <3>2, <3>3 DEF TypeOK, ChannelInv, Results
  <2>2. CASE chan[m].buf = None /\ chan[m].closes > 0 /\ Return(m, "chanClosed")
    <3>1. chan[m].closes = 1 /\ spc[m] = "sent"
      BY <1>8, <2>2 DEF Receive, ChannelInv, TypeOK, Chans
    <3>2. QED
      BY <2>2, <3>1 DEF ChannelInv
  <2>3. QED
    BY <1>8, <2>1, <2>2 DEF Receive
<1>9. ASSUME NEW m \in Cmds, Timeout(m) PROVE ChannelInv'
  <2>1. CASE m \in pending
    BY <1>9, <2>1 DEF Timeout, Return, Cleanup, Close, TypeOK, PendingInv,
       Unanswered, EmptyChan, Chans, ChannelInv, HeldInv, Results,
       handlerVars, agentVars
  <2>2. CASE m \notin pending
    BY <1>9, <2>2 DEF Timeout, Return, Cleanup, Close, TypeOK, PendingInv,
       Unanswered, EmptyChan, Chans, ChannelInv, HeldInv, Results,
       handlerVars, agentVars
  <2>3. QED
    BY <1>9, <2>1, <2>2 DEF Timeout
<1>10. CASE UNCHANGED <<chan, spc, outcome>>
  BY <1>10 DEF PendingInv, Unanswered, EmptyChan, Chans, ChannelInv, HeldInv,
     Results
<1>11. QED
  BY <1>1, <1>2, <1>3, <1>4, <1>5, <1>6, <1>7, <1>8, <1>9, <1>10 DEF Next,
     HandlerNext, CallNext, vars, Register, callVars, agentVars, WriteOnline,
     serverVars, Drop, ReadAnswer, ReadMessage, ReadStrayAnswer, Unregister,
     CollectPending, WriteOffline, CloseConn, Run, handlerVars

\* A handler knows the result it is about to deliver.
LEMMA HeldInvNext == TypeOK /\ HeldInv /\ AgentInv /\ [Next]_vars => HeldInv'
<1> SUFFICES ASSUME TypeOK, HeldInv, AgentInv, [Next]_vars PROVE HeldInv'
  OBVIOUS
<1> USE NoneAssumption
<1>1. ASSUME NEW c \in Conns, NEW n \in Nodes, Register(c, n) PROVE HeldInv'
  BY <1>1 DEF Register, HandlerStep, InByConn, TypeOK, HeldInv, AgentInv,
     callVars, agentVars
<1>2. ASSUME NEW c \in Conns, WriteOnline(c) PROVE HeldInv'
  BY <1>2 DEF WriteOnline, HandlerStep, TypeOK, HeldInv, AgentInv,
     serverVars, callVars, agentVars
<1>3. ASSUME NEW c \in Conns, NEW m \in Cmds, ReadAnswer(c, m) PROVE HeldInv'
  <2>1. CASE Take(c, m, ran[m])
    BY <1>3, <2>1 DEF ReadAnswer, ReadMessage, Take, HandlerStep, AnswerVerdict,
       TypeOK, HeldInv, AgentInv, callVars
  <2>2. CASE DropLate(c, m)
    BY <1>3, <2>2 DEF ReadAnswer, ReadMessage, DropLate, HandlerStep, TypeOK,
       HeldInv, AgentInv, callVars
  <2>3. QED
    BY <1>3, <2>1, <2>2 DEF ReadAnswer, ReadMessage
<1>4. ASSUME NEW c \in Conns, NEW m \in Cmds, ReadStrayAnswer(c, m) PROVE HeldInv'
  <2>1. CASE Take(c, m, "ok")
    BY <1>4, <2>1 DEF ReadStrayAnswer, ReadMessage, Take, HandlerStep,
       AnswerVerdict, TypeOK, HeldInv, AgentInv, callVars
  <2>2. CASE DropLate(c, m)
    BY <1>4, <2>2 DEF ReadStrayAnswer, ReadMessage, DropLate, HandlerStep,
       TypeOK, HeldInv, AgentInv, callVars
  <2>3. QED
    BY <1>4, <2>1, <2>2 DEF ReadStrayAnswer, ReadMessage
<1>5. ASSUME NEW c \in Conns, NEW m \in Cmds, Resolve(c, m) PROVE HeldInv'
  BY <1>5 DEF Resolve, HandlerStep, Answer, Close, TypeOK, HeldInv, AgentInv,
     callVars, agentVars
<1>6. ASSUME NEW c \in Conns, Unregister(c) PROVE HeldInv'
  BY <1>6 DEF Unregister, HandlerStep, TypeOK, HeldInv, AgentInv, callVars,
     agentVars
<1>7. ASSUME NEW c \in Conns, CollectPending(c) PROVE HeldInv'
  BY <1>7 DEF CollectPending, HandlerStep, TypeOK, HeldInv, AgentInv,
     callVars, agentVars
<1>8. ASSUME NEW c \in Conns, NEW m \in Cmds, FailOne(c, m) PROVE HeldInv'
  BY <1>8 DEF FailOne, Answer, Close, TypeOK, HeldInv, AgentInv, callVars,
     agentVars
<1>9. ASSUME NEW c \in Conns, WriteOffline(c) PROVE HeldInv'
  BY <1>9 DEF WriteOffline, HandlerStep, TypeOK, HeldInv, AgentInv,
     serverVars, callVars, agentVars
<1>10. ASSUME NEW c \in Conns, CloseConn(c) PROVE HeldInv'
  BY <1>10 DEF CloseConn, HandlerStep, TypeOK, HeldInv, AgentInv, serverVars,
     callVars, agentVars
<1>11. CASE UNCHANGED <<held, hpc, verdict>>
  BY <1>11 DEF HeldInv, AgentInv
<1>12. QED
  BY <1>1, <1>2, <1>3, <1>4, <1>5, <1>6, <1>7, <1>8, <1>9, <1>10, <1>11 DEF
     Next, HandlerNext, CallNext, vars, Drop, serverVars, callVars,
     agentVars, LookupAbsent, handlerVars, Lookup, AddPending, WriteCommand,
     WriteFails, Receive, Timeout, Run

\* "ok" is only ever the answer of the agent that ran the command.
LEMMA AgentInvNext == TypeOK /\ PendingInv /\ HeldInv /\ AgentInv /\ [Next]_vars => AgentInv'
<1> SUFFICES ASSUME TypeOK, PendingInv, HeldInv, AgentInv, [Next]_vars PROVE AgentInv'
  OBVIOUS
<1> USE NoneAssumption
<1>1. ASSUME NEW c \in Conns, NEW m \in Cmds, ReadAnswer(c, m) PROVE AgentInv'
  <2>1. CASE Take(c, m, ran[m])
    BY <1>1, <2>1 DEF ReadAnswer, ReadMessage, Take, HandlerStep, AnswerVerdict,
       TypeOK, PendingInv, Unanswered, EmptyChan, Chans, HeldInv, AgentInv,
       callVars
  <2>2. CASE DropLate(c, m)
    BY <1>1, <2>2 DEF ReadAnswer, ReadMessage, DropLate, HandlerStep, TypeOK,
       PendingInv, Unanswered, EmptyChan, Chans, HeldInv, AgentInv, callVars
  <2>3. QED
    BY <1>1, <2>1, <2>2 DEF ReadAnswer, ReadMessage
<1>2. ASSUME NEW c \in Conns, NEW m \in Cmds, ReadStrayAnswer(c, m) PROVE AgentInv'
  <2>1. CASE Take(c, m, "ok")
    BY <1>2, <2>1 DEF ReadStrayAnswer, ReadMessage, Take, HandlerStep,
       AnswerVerdict, TypeOK, PendingInv, Unanswered, EmptyChan, Chans,
       HeldInv, AgentInv, callVars
  <2>2. CASE DropLate(c, m)
    BY <1>2, <2>2 DEF ReadStrayAnswer, ReadMessage, DropLate, HandlerStep,
       TypeOK, PendingInv, Unanswered, EmptyChan, Chans, HeldInv, AgentInv,
       callVars
  <2>3. QED
    BY <1>2, <2>1, <2>2 DEF ReadStrayAnswer, ReadMessage
<1>3. ASSUME NEW c \in Conns, NEW m \in Cmds, Resolve(c, m) PROVE AgentInv'
  BY <1>3 DEF Resolve, HandlerStep, Answer, Close, TypeOK, PendingInv,
     Unanswered, EmptyChan, Chans, HeldInv, AgentInv, callVars, agentVars
<1>4. ASSUME NEW c \in Conns, CollectPending(c) PROVE AgentInv'
  BY <1>4 DEF CollectPending, HandlerStep, TypeOK, PendingInv, Unanswered,
     EmptyChan, Chans, HeldInv, AgentInv, callVars, agentVars
<1>5. ASSUME NEW c \in Conns, NEW m \in Cmds, FailOne(c, m) PROVE AgentInv'
  BY <1>5 DEF FailOne, Answer, Close, TypeOK, PendingInv, Unanswered,
     EmptyChan, Chans, HeldInv, AgentInv, callVars, agentVars
<1>6. ASSUME NEW c \in Conns, WriteOffline(c) PROVE AgentInv'
  BY <1>6 DEF WriteOffline, HandlerStep, TypeOK, PendingInv, Unanswered,
     EmptyChan, Chans, HeldInv, AgentInv, serverVars, callVars, agentVars
<1>7. ASSUME NEW m \in Cmds, NEW n \in Nodes, LookupAbsent(m, n) PROVE AgentInv'
  BY <1>7 DEF LookupAbsent, Return, TypeOK, PendingInv, Unanswered,
     EmptyChan, Chans, HeldInv, AgentInv, serverVars, handlerVars, agentVars
<1>8. ASSUME NEW m \in Cmds, NEW n \in Nodes, Lookup(m, n) PROVE AgentInv'
  BY <1>8 DEF Lookup, TypeOK, PendingInv, Unanswered, EmptyChan, Chans,
     HeldInv, AgentInv, serverVars, handlerVars, agentVars
<1>9. ASSUME NEW m \in Cmds, AddPending(m) PROVE AgentInv'
  BY <1>9 DEF AddPending, TypeOK, PendingInv, Unanswered, EmptyChan, Chans,
     HeldInv, AgentInv, handlerVars, agentVars
<1>10. ASSUME NEW m \in Cmds, WriteCommand(m) PROVE AgentInv'
  BY <1>10 DEF WriteCommand, OnWire, TypeOK, PendingInv, Unanswered,
     EmptyChan, Chans, HeldInv, AgentInv, serverVars, handlerVars
<1>11. ASSUME NEW m \in Cmds, WriteFails(m) PROVE AgentInv'
  <2>1. CASE m \in pending
    BY <1>11, <2>1 DEF WriteFails, Return, Cleanup, Close, OnWire, TypeOK,
       PendingInv, Unanswered, EmptyChan, Chans, HeldInv, AgentInv,
       handlerVars
  <2>2. CASE m \notin pending
    BY <1>11, <2>2 DEF WriteFails, Return, Cleanup, Close, OnWire, TypeOK,
       PendingInv, Unanswered, EmptyChan, Chans, HeldInv, AgentInv,
       handlerVars
  <2>3. QED
    BY <1>11, <2>1, <2>2 DEF WriteFails
<1>12. ASSUME NEW m \in Cmds, Receive(m) PROVE AgentInv'
  <2>1. CASE chan[m].buf # None /\ Return(m, chan[m].buf)
    BY <1>12, <2>1 DEF Receive, Return, TypeOK, PendingInv, Unanswered,
       EmptyChan, Chans, HeldInv, AgentInv, serverVars, handlerVars, agentVars
  <2>2. CASE chan[m].buf = None /\ chan[m].closes > 0 /\ Return(m, "chanClosed")
    BY <1>12, <2>2 DEF Receive, Return, TypeOK, PendingInv, Unanswered,
       EmptyChan, Chans, HeldInv, AgentInv, serverVars, handlerVars, agentVars
  <2>3. QED
    BY <1>12, <2>1, <2>2 DEF Receive
<1>13. ASSUME NEW m \in Cmds, Timeout(m) PROVE AgentInv'
  <2>1. CASE m \in pending
    BY <1>13, <2>1 DEF Timeout, Return, Cleanup, Close, TypeOK, PendingInv,
       Unanswered, EmptyChan, Chans, HeldInv, AgentInv, handlerVars, agentVars
  <2>2. CASE m \notin pending
    BY <1>13, <2>2 DEF Timeout, Return, Cleanup, Close, TypeOK, PendingInv,
       Unanswered, EmptyChan, Chans, HeldInv, AgentInv, handlerVars, agentVars
  <2>3. QED
    BY <1>13, <2>1, <2>2 DEF Timeout
<1>14. ASSUME NEW m \in Cmds, Run(m) PROVE AgentInv'
  BY <1>14 DEF Run, TypeOK, PendingInv, Unanswered, EmptyChan, Chans,
     HeldInv, AgentInv, serverVars, handlerVars, callVars
<1>15. CASE UNCHANGED <<agent, ran, spc, chan, outcome, held, verdict>>
  BY <1>15 DEF PendingInv, Unanswered, EmptyChan, Chans, HeldInv, AgentInv
<1>16. QED
  BY <1>1, <1>2, <1>3, <1>4, <1>5, <1>6, <1>7, <1>8, <1>9, <1>10, <1>11, <1>12, <1>13, <1>14, <1>15 DEF
     Next, HandlerNext, CallNext, vars, Register, callVars, agentVars,
     WriteOnline, serverVars, Drop, Unregister, CloseConn, handlerVars

\* The inductive invariant.
THEOREM SpecIInv == Spec => []IInv
<1>1. IInv /\ [Next]_vars => IInv'
  BY TypeOKNext, PendingInvNext, ChannelInvNext, HeldInvNext, AgentInvNext DEF IInv
<1>2. QED
  BY InitIInv, <1>1, PTL DEF Spec

\* Type correctness of the hub.
THEOREM SpecTypeOK == Spec => []TypeOK
<1>1. IInv => TypeOK
  BY DEF IInv
<1>2. QED
  BY SpecIInv, <1>1, PTL

\* No command's channel is closed twice or sent on after its close, for any
\* number of handlers, callers and timeouts racing for it (ws/server.go).
THEOREM SpecChannelClosedOnce == Spec => []ChannelClosedOnce
<1>1. IInv => ChannelClosedOnce
  BY DEF IInv, ChannelInv, ChannelClosedOnce
<1>2. QED
  BY SpecIInv, <1>1, PTL

\* SendCommand never finds its channel closed without a result.
THEOREM SpecNoEmptyChannel == Spec => []NoEmptyChannel
<1>1. IInv => NoEmptyChannel
  BY DEF IInv, ChannelInv, NoEmptyChannel
<1>2. QED
  BY SpecIInv, <1>1, PTL

\* Every pending entry has a caller that will remove it.
THEOREM SpecPendingHasCaller == Spec => []PendingHasCaller
<1>1. IInv => PendingHasCaller
  BY DEF IInv, PendingInv, PendingHasCaller
<1>2. QED
  BY SpecIInv, <1>1, PTL

\* SendCommand says "ok" only of a command its target's agent ran with success.
THEOREM SpecOkMeansRan == Spec => []OkMeansRan
<1>1. IInv => OkMeansRan
  BY DEF IInv, AgentInv, OkMeansRan
<1>2. QED
  BY SpecIInv, <1>1, PTL
-----------------------------------------------------------------------------
(* SendCommand implements CommandCall *)

\* Only a call that returned has an outcome.
OutcomeInv == \A m \in Cmds : spc[m] # "returned" => outcome[m] = None

LEMMA OutcomeInvNext == TypeOK /\ OutcomeInv /\ [Next]_vars => OutcomeInv'
<1> SUFFICES ASSUME TypeOK, OutcomeInv, [Next]_vars PROVE OutcomeInv'
  OBVIOUS
<1>1. ASSUME NEW m \in Cmds, NEW o, Return(m, o) PROVE OutcomeInv'
  BY <1>1 DEF Return, TypeOK, OutcomeInv
<1>2. ASSUME NEW m \in Cmds, NEW n \in Nodes, Lookup(m, n) PROVE OutcomeInv'
  BY <1>2 DEF Lookup, TypeOK, OutcomeInv
<1>3. ASSUME NEW m \in Cmds, AddPending(m) \/ WriteCommand(m) PROVE OutcomeInv'
  BY <1>3 DEF AddPending, WriteCommand, TypeOK, OutcomeInv
<1>4. CASE UNCHANGED <<spc, outcome>>
  BY <1>4 DEF OutcomeInv
<1>5. ASSUME NEW c \in Conns, HandlerNext(c) PROVE UNCHANGED <<spc, outcome>>
  BY <1>5 DEF HandlerNext, Register, WriteOnline, Drop, ReadAnswer, ReadStrayAnswer,
     ReadMessage, Resolve, FailOne, Unregister, CollectPending, WriteOffline, CloseConn, callVars
<1>6. ASSUME NEW m \in Cmds, CallNext(m) PROVE OutcomeInv'
  BY <1>1, <1>2, <1>3, <1>6 DEF CallNext, LookupAbsent, WriteFails, Receive, Timeout
<1>7. QED
  BY <1>4, <1>5, <1>6 DEF Next, Run, vars, callVars

\* What a caller is told of an outcome.
Told(o) == IF o \in {"ok", None} THEN o ELSE "failed"

LEMMA InitCall == Init => Call!Init
BY NoneAssumption DEF Init, Call!Init

\* A return is a Return there, running a command is a Run, and nothing else
\* shows: AgentInv has it that "ok" is only said of a command that ran.
LEMMA StepCall == IInv /\ OutcomeInv /\ [Next]_vars => [Call!Next]_(Call!vars)
<1> SUFFICES ASSUME IInv, OutcomeInv, [Next]_vars PROVE [Call!Next]_(Call!vars)
  OBVIOUS
<1>1. ASSUME NEW m \in Cmds, NEW o \in Outcomes, Return(m, o), spc[m] # "returned", ran' = ran,
             o = "ok" => ran[m] = "ok"
      PROVE  Call!Next
  <2>1. [k \in Cmds |-> Told(outcome[k])][m] = None
    BY <1>1 DEF OutcomeInv, Told
  <2>2. [k \in Cmds |-> Told(outcome'[k])] = [[k \in Cmds |-> Told(outcome[k])] EXCEPT ![m] = Told(o)]
    BY <1>1 DEF Return, IInv, TypeOK
  <2>3. Told(o) \in {"ok", "failed"} /\ (Told(o) = "ok" => ran[m] = "ok")
    BY <1>1, NoneAssumption DEF Told, Outcomes, Results
  <2>4. Call!Return(m)
    BY <1>1, <2>1, <2>2, <2>3 DEF Call!Return, Call!Outcomes, Told
  <2>5. QED
    BY <2>4 DEF Call!Next
<1>2. ASSUME NEW m \in Cmds, Run(m) PROVE Call!Next
  <2>1. ran[m] = None /\ outcome' = outcome
    BY <1>2 DEF Run, IInv, AgentInv, callVars
  <2>2. Call!Run(m)
    BY <1>2, <2>1 DEF Run, Call!Run, Call!Runs
  <2>3. QED
    BY <2>2 DEF Call!Next
<1>3. CASE UNCHANGED <<ran, outcome>>
  BY <1>3 DEF Call!vars
<1>4. ASSUME NEW c \in Conns, HandlerNext(c) PROVE UNCHANGED <<ran, outcome>>
  BY <1>4 DEF HandlerNext, Register, WriteOnline, Drop, ReadAnswer, ReadStrayAnswer,
     ReadMessage, Resolve, FailOne, Unregister, CollectPending, WriteOffline, CloseConn,
     callVars, agentVars
<1>5. ASSUME NEW m \in Cmds, CallNext(m) PROVE Call!Next \/ UNCHANGED <<ran, outcome>>
  <2>1. ASSUME NEW n \in Nodes, LookupAbsent(m, n) PROVE Call!Next
    BY <1>1, <2>1 DEF LookupAbsent, Outcomes, agentVars
  <2>2. ASSUME NEW n \in Nodes, Lookup(m, n) PROVE UNCHANGED <<ran, outcome>>
    BY <2>2 DEF Lookup, agentVars
  <2>3. CASE AddPending(m) \/ WriteCommand(m)
    BY <2>3 DEF AddPending, WriteCommand, agentVars
  <2>4. CASE WriteFails(m)
    BY <1>1, <2>4 DEF WriteFails, Outcomes
  <2>5. CASE Receive(m)
    <3>1. ASSUME chan[m].buf # None, Return(m, chan[m].buf) PROVE Call!Next
      <4>1. chan[m].buf \in Outcomes
        BY <3>1 DEF IInv, TypeOK, Chans, Outcomes
      <4>2. chan[m].buf = "ok" => ran[m] = "ok"
        BY DEF IInv, AgentInv
      <4>3. QED
        BY <1>1, <2>5, <3>1, <4>1, <4>2 DEF Receive, agentVars
    <3>2. ASSUME Return(m, "chanClosed") PROVE Call!Next
      BY <1>1, <2>5, <3>2 DEF Receive, Outcomes, agentVars
    <3>3. QED
      BY <2>5, <3>1, <3>2 DEF Receive
  <2>6. CASE Timeout(m)
    BY <1>1, <2>6 DEF Timeout, Outcomes, agentVars
  <2>7. QED
    BY <1>5, <2>1, <2>2, <2>3, <2>4, <2>5, <2>6 DEF CallNext
<1>6. QED
  BY <1>2, <1>3, <1>4, <1>5 DEF Next, vars, callVars, agentVars

\* For any nodes, connections and calls SendCommand implements CommandCall:
\* one outcome for each call, and "ok" only if the node's own agent ran the
\* command with success (ws/server.go, tryResolvePending and SendCommand).
THEOREM SpecCallSpec == Spec => CallSpec
<1>1. Init => OutcomeInv
  BY DEF Init, OutcomeInv
<1>2. Spec => []OutcomeInv
  <2>1. IInv => TypeOK
    BY DEF IInv
  <2>2. QED
    BY <1>1, <2>1, SpecIInv, OutcomeInvNext, PTL DEF Spec
<1>3. QED
  BY InitCall, StepCall, SpecIInv, <1>2, PTL DEF Spec, CallSpec, Call!Spec

-----------------------------------------------------------------------------
\* Only Register puts a session in the table, closing the one it replaces, and
\* only Unregister takes one out, of the connection it still is.
LEMMA SessionNext == TypeOK /\ SessionIsTheOpenConn /\ [Next]_vars => SessionIsTheOpenConn'
<1> SUFFICES ASSUME TypeOK, SessionIsTheOpenConn, [Next]_vars,
                    NEW d \in Conns, NEW n \in Nodes
             PROVE  /\ nodes'[n] = d => owner'[d] = n /\ hpc'[d] \in Serving
                    /\ sock'[d] = "open" /\ owner'[d] = n /\ hpc'[d] \in Serving
                         => nodes'[n] = d
  BY DEF SessionIsTheOpenConn
<1> DEFINE Goal == /\ nodes'[n] = d => owner'[d] = n /\ hpc'[d] \in Serving
                   /\ sock'[d] = "open" /\ owner'[d] = n /\ hpc'[d] \in Serving
                        => nodes'[n] = d
<1>1. /\ nodes[n] = d => owner[d] = n /\ hpc[d] \in Serving
      /\ sock[d] = "open" /\ owner[d] = n /\ hpc[d] \in Serving => nodes[n] = d
  BY DEF SessionIsTheOpenConn
<1>2. ASSUME NEW c \in Conns, NEW k \in Nodes, Register(c, k) PROVE Goal
  <2>1. /\ hpc[c] = "idle" /\ hpc' = [hpc EXCEPT ![c] = "registered"]
        /\ owner' = [owner EXCEPT ![c] = k] /\ nodes' = [nodes EXCEPT ![k] = c]
        /\ sock' = [x \in Conns |-> IF x = c THEN "open"
                                    ELSE IF x = nodes[k] THEN "closed" ELSE sock[x]]
    BY <1>2 DEF Register, HandlerStep
  <2>2. CASE d = c
    <3>1. nodes[n] # c
      BY <1>1, <2>1, <2>2 DEF Serving
    <3>2. hpc'[c] \in Serving /\ owner'[c] = k
      BY <2>1 DEF TypeOK, Serving
    <3>3. nodes'[n] = c <=> n = k
      BY <2>1, <3>1 DEF TypeOK
    <3> QED
      BY <2>2, <3>2, <3>3
  <2>3. CASE d # c
    <3>1. hpc'[d] = hpc[d] /\ owner'[d] = owner[d]
      BY <2>1, <2>3 DEF TypeOK
    <3>2. nodes'[n] = d => nodes[n] = d
      BY <2>1, <2>3 DEF TypeOK
    <3>3. sock'[d] = "open" => sock[d] = "open" /\ d # nodes[k]
      BY <2>1, <2>3
    <3>4. nodes[n] = d /\ n # k => nodes'[n] = d
      BY <2>1 DEF TypeOK
    <3> QED
      BY <1>1, <3>1, <3>2, <3>3, <3>4
  <2> QED
    BY <2>2, <2>3
<1>3. ASSUME NEW c \in Conns, Unregister(c) PROVE Goal
  <2>1. /\ hpc[c] = "reading" /\ UNCHANGED <<sock, owner>>
        /\ hpc' = [hpc EXCEPT ![c] = IF OwnsSession(c) THEN "unregistered" ELSE "closing"]
        /\ nodes' = IF OwnsSession(c) THEN [nodes EXCEPT ![owner[c]] = None] ELSE nodes
    BY <1>3 DEF Unregister, HandlerStep
  <2>2. hpc'[c] \notin Serving /\ (d # c => hpc'[d] = hpc[d])
    BY <2>1 DEF TypeOK, Serving
  <2>3. nodes'[n] = d => nodes[n] = d
    BY <2>1, NoneAssumption DEF TypeOK
  <2>4. nodes'[n] # c
    BY <1>1, <2>1, NoneAssumption DEF OwnsSession, TypeOK, SessionIsTheOpenConn
  <2>5. d # c /\ nodes[n] = d => nodes'[n] = d
    BY <2>1 DEF OwnsSession, TypeOK
  <2> QED
    BY <1>1, <2>1, <2>2, <2>3, <2>4, <2>5
<1>4. ASSUME NEW c \in Conns, NEW from \in HandlerSteps, NEW to \in HandlerSteps,
             HandlerStep(c, from, to), from \in Serving <=> to \in Serving,
             UNCHANGED <<nodes, sock, owner>>
      PROVE  Goal
  <2>1. hpc'[d] \in Serving <=> hpc[d] \in Serving
    BY <1>4 DEF HandlerStep, TypeOK
  <2> QED
    BY <1>1, <1>4, <2>1
<1>5. ASSUME NEW c \in Conns, WriteOnline(c) \/ CollectPending(c) \/ WriteOffline(c) PROVE Goal
  BY <1>4, <1>5 DEF WriteOnline, CollectPending, WriteOffline, HandlerSteps, Serving, serverVars
<1>6. ASSUME NEW c \in Conns, CloseConn(c) PROVE Goal
  BY <1>1, <1>6 DEF CloseConn, HandlerStep, Serving, serverVars, TypeOK
<1>7. ASSUME NEW c \in Conns, Drop(c) PROVE Goal
  BY <1>1, <1>7 DEF Drop, serverVars, TypeOK
<1>8. ASSUME NEW c \in Conns, NEW m \in Cmds, Resolve(c, m) PROVE Goal
  BY <1>4, <1>8 DEF Resolve, HandlerSteps, Serving
<1>9. ASSUME UNCHANGED <<nodes, sock, owner, hpc>> PROVE Goal
  BY <1>1, <1>9
<1>10. ASSUME NEW c \in Conns, NEW m \in Cmds, ReadAnswer(c, m) \/ ReadStrayAnswer(c, m)
       PROVE  Goal
  <2>1. PICK r : ReadMessage(c, m, r)
    BY <1>10 DEF ReadAnswer, ReadStrayAnswer
  <2>2. CASE Take(c, m, r)
    BY <1>4, <2>1, <2>2 DEF ReadMessage, Take, HandlerSteps, Serving
  <2>3. CASE DropLate(c, m)
    BY <1>9, <2>1, <2>3 DEF ReadMessage, DropLate
  <2> QED
    BY <2>1, <2>2, <2>3 DEF ReadMessage
<1>11. ASSUME NEW c \in Conns, NEW m \in Cmds, FailOne(c, m) PROVE Goal
  BY <1>9, <1>11 DEF FailOne
<1>12. ASSUME NEW m \in Cmds, CallNext(m) \/ Run(m) PROVE Goal
  <2>1. UNCHANGED <<nodes, sock, owner, hpc>>
    BY <1>12 DEF CallNext, Run, LookupAbsent, Lookup, AddPending, WriteCommand, WriteFails,
       Receive, Timeout, serverVars, handlerVars
  <2> QED
    BY <1>9, <2>1
<1>13. CASE UNCHANGED vars
  BY <1>9, <1>13 DEF vars, serverVars, handlerVars
<1> QED
  BY <1>2, <1>3, <1>5, <1>6, <1>7, <1>8, <1>10, <1>11, <1>12, <1>13 DEF Next, HandlerNext

\* A node's session is the connection whose handler will remove it, and a
\* served open connection is its node's session, for any number of both.
THEOREM SpecSessionIsTheOpenConn == Spec => []SessionIsTheOpenConn
<1>1. Init => SessionIsTheOpenConn
  BY NoneAssumption DEF Init, SessionIsTheOpenConn
<1>2. QED
  BY <1>1, SpecTypeOK, SessionNext, PTL DEF Spec
=============================================================================
