------------------------- MODULE ServiceStatsProofs -------------------------
(***************************************************************************)
(* The counters of a service, for any number of connections and bytes: no  *)
(* byte is recorded twice, none is lost but those that come during a       *)
(* reset, and none is left behind unannounced.                             *)
(*                                                                         *)
(* All follows from what the observer's locals say of the counters: what   *)
(* it read is still in the counter until the store, and what came since is *)
(* announced by the updated flag or by a connection about to set it.       *)
(***************************************************************************)
EXTENDS ServiceStats, TLAPS

\* The counter of a kind still holds what the observer read.
Holds(k) ==
  \/ opc \in {"record", "getIn", "getOut", "storeIn"}
  \/ opc = "loadOut" /\ k = "in"
  \/ opc = "storeOut" /\ k = "out"

ReadInv ==
  \A k \in Kinds :
    /\ Holds(k) => read[k] <= count[k]
    /\ Computed(k) => residual[k] + read[k] <= count[k]

\* Someone will have the counters looked at again.
Announced == updated \/ \E c \in Conns : conn[c] = "adding"

\* Nothing of the kind has been read, or it was reset.
Plain(k) == opc \in {"idle", "observe", "done"} \/ (opc = "storeOut" /\ k = "in")

AnnounceInv ==
  ~Announced =>
    \A k \in Kinds :
      /\ Plain(k) => count[k] = 0
      /\ Holds(k) => count[k] = read[k]
      /\ Computed(k) => residual[k] = 0

\* What the store of a reset will leave loses no byte but the late ones.
StoreInv == \A k \in Kinds : Computed(k) => passed[k] <= recorded[k] + residual[k] + late[k]

CountInv == TypeOK /\ ReadInv /\ BytesAreAccounted /\ StoreInv

LEMMA InitInv == Init => CountInv /\ AnnounceInv
<1> SUFFICES ASSUME Init PROVE CountInv /\ AnnounceInv
  OBVIOUS
<1> USE DEF Init, Zero, Kinds
<1>1. TypeOK
  BY DEF TypeOK
<1>2. ReadInv
  BY DEF ReadInv, Holds, Computed
<1>3. BytesAreAccounted /\ StoreInv
  BY DEF BytesAreAccounted, NoOvercount, NoUndercount, Unreset, StoreInv, Computed
<1>4. AnnounceInv
  BY DEF AnnounceInv, Holds, Computed, Plain
<1>5. QED
  BY <1>1, <1>2, <1>3, <1>4 DEF CountInv

LEMMA TypeOKNext == CountInv /\ [Next]_vars => TypeOK'
<1> SUFFICES ASSUME CountInv, [Next]_vars PROVE TypeOK'
  OBVIOUS
<1> USE DEF CountInv, TypeOK, Kinds, Goto, connVars, observerVars
<1>1. ASSUME NEW c \in Conns, Accept(c) \/ AddOther(c) \/ SetUpdated(c) \/ EndConn(c) PROVE TypeOK'
  BY <1>1 DEF Accept, AddOther, SetUpdated, EndConn
<1>2. ASSUME NEW c \in Conns, NEW k \in Kinds, AddBytes(c, k) PROVE TypeOK'
  BY <1>2 DEF AddBytes
<1>3. CASE Close \/ Stop \/ Retry \/ Tick
  BY <1>3 DEF Close, Stop, Retry, Tick
<1>4. CASE LoadIn \/ LoadOut \/ StoreIn \/ StoreOut
  BY <1>4 DEF LoadIn, LoadOut, StoreIn, StoreOut
<1>5. CASE Record
  BY <1>5 DEF Record
<1>6. CASE GetIn
  <2>1. Residual("in") \in Nat
    BY <1>6 DEF GetIn, Residual, ReadInv, Holds
  <2>2. QED
    BY <1>6, <2>1 DEF GetIn
<1>7. CASE GetOut
  <2>1. Residual("out") \in Nat
    BY <1>7 DEF GetOut, Residual, ReadInv, Holds
  <2>2. QED
    BY <1>7, <2>1 DEF GetOut
<1>8. CASE Observe
  BY <1>8 DEF Observe, Zero
<1>9. CASE UNCHANGED vars
  BY <1>9 DEF vars
<1>10. QED
  BY <1>1, <1>2, <1>3, <1>4, <1>5, <1>6, <1>7, <1>8, <1>9 DEF Next, Observing

LEMMA ReadInvNext == CountInv /\ [Next]_vars => ReadInv'
<1> SUFFICES ASSUME CountInv, [Next]_vars PROVE ReadInv'
  OBVIOUS
<1> USE DEF CountInv, TypeOK, Kinds, Goto, connVars, observerVars, ReadInv, Holds, Computed
<1>1. ASSUME NEW c \in Conns, Accept(c) \/ AddOther(c) \/ SetUpdated(c) \/ EndConn(c) PROVE ReadInv'
  BY <1>1 DEF Accept, AddOther, SetUpdated, EndConn
<1>2. ASSUME NEW c \in Conns, NEW k \in Kinds, AddBytes(c, k) PROVE ReadInv'
  BY <1>2 DEF AddBytes
<1>3. CASE Close \/ Stop \/ Retry \/ Tick
  BY <1>3 DEF Close, Stop, Retry, Tick
<1>4. CASE LoadIn \/ LoadOut \/ StoreIn \/ StoreOut
  BY <1>4 DEF LoadIn, LoadOut, StoreIn, StoreOut
<1>5. CASE Record \/ Observe
  BY <1>5 DEF Record, Observe
<1>6. CASE GetIn
  BY <1>6 DEF GetIn, Residual
<1>7. CASE GetOut
  BY <1>7 DEF GetOut, Residual
<1>8. CASE UNCHANGED vars
  BY <1>8 DEF vars
<1>9. QED
  BY <1>1, <1>2, <1>3, <1>4, <1>5, <1>6, <1>7, <1>8 DEF Next, Observing

LEMMA NoOvercountNext == CountInv /\ [Next]_vars => NoOvercount'
<1> SUFFICES ASSUME CountInv, [Next]_vars PROVE NoOvercount'
  OBVIOUS
<1> USE DEF CountInv, TypeOK, Kinds, Goto, connVars, observerVars, BytesAreAccounted, NoOvercount,
            Unreset
<1>1. ASSUME NEW c \in Conns, Accept(c) \/ AddOther(c) \/ SetUpdated(c) \/ EndConn(c)
      PROVE  NoOvercount'
  BY <1>1 DEF Accept, AddOther, SetUpdated, EndConn
<1>2. ASSUME NEW c \in Conns, NEW k \in Kinds, AddBytes(c, k) PROVE NoOvercount'
  BY <1>2 DEF AddBytes
<1>3. CASE Close \/ Stop \/ Retry \/ Tick
  BY <1>3 DEF Close, Stop, Retry, Tick
<1>4. CASE LoadIn \/ LoadOut
  BY <1>4 DEF LoadIn, LoadOut
<1>5. CASE Record
  BY <1>5 DEF Record
<1>6. CASE GetIn \/ GetOut
  BY <1>6 DEF GetIn, GetOut
<1>7. CASE StoreIn \/ StoreOut
  BY <1>7 DEF StoreIn, StoreOut, ReadInv, Computed
<1>8. CASE Observe
  BY <1>8 DEF Observe
<1>9. CASE UNCHANGED vars
  BY <1>9 DEF vars
<1>10. QED
  BY <1>1, <1>2, <1>3, <1>4, <1>5, <1>6, <1>7, <1>8, <1>9 DEF Next, Observing

LEMMA NoUndercountNext == CountInv /\ [Next]_vars => NoUndercount' /\ StoreInv'
<1> SUFFICES ASSUME CountInv, [Next]_vars PROVE NoUndercount' /\ StoreInv'
  OBVIOUS
<1> USE DEF CountInv, TypeOK, Kinds, Goto, connVars, observerVars, BytesAreAccounted, NoUndercount,
            Unreset, StoreInv, Computed
<1>1. ASSUME NEW c \in Conns, Accept(c) \/ AddOther(c) \/ SetUpdated(c) \/ EndConn(c)
      PROVE  NoUndercount' /\ StoreInv'
  BY <1>1 DEF Accept, AddOther, SetUpdated, EndConn
<1>2. ASSUME NEW c \in Conns, NEW k \in Kinds, AddBytes(c, k) PROVE NoUndercount' /\ StoreInv'
  BY <1>2 DEF AddBytes
<1>3. CASE Close \/ Stop \/ Retry \/ Tick
  BY <1>3 DEF Close, Stop, Retry, Tick
<1>4. CASE LoadIn \/ LoadOut
  BY <1>4 DEF LoadIn, LoadOut
<1>5. CASE Record
  BY <1>5 DEF Record
<1>6. CASE GetIn \/ GetOut
  BY <1>6 DEF GetIn, GetOut, Residual, ReadInv, Holds
<1>7. CASE StoreIn \/ StoreOut
  BY <1>7 DEF StoreIn, StoreOut
<1>8. CASE Observe
  BY <1>8 DEF Observe
<1>9. CASE UNCHANGED vars
  BY <1>9 DEF vars
<1>10. QED
  BY <1>1, <1>2, <1>3, <1>4, <1>5, <1>6, <1>7, <1>8, <1>9 DEF Next, Observing

LEMMA AnnounceInvNext == CountInv /\ AnnounceInv /\ [Next]_vars => AnnounceInv'
<1> SUFFICES ASSUME CountInv, AnnounceInv, [Next]_vars PROVE AnnounceInv'
  OBVIOUS
<1> USE DEF CountInv, TypeOK, Kinds, Goto, connVars, observerVars, AnnounceInv, Announced, Plain,
            Holds, Computed
<1>1. ASSUME NEW c \in Conns, Accept(c) \/ AddOther(c) \/ EndConn(c) PROVE AnnounceInv'
  BY <1>1 DEF Accept, AddOther, EndConn
<1>2. ASSUME NEW c \in Conns, SetUpdated(c) PROVE AnnounceInv'
  BY <1>2 DEF SetUpdated
<1>3. ASSUME NEW c \in Conns, NEW k \in Kinds, AddBytes(c, k) PROVE AnnounceInv'
  BY <1>3 DEF AddBytes
<1>4. CASE Close \/ Stop \/ Retry \/ Tick
  BY <1>4 DEF Close, Stop, Retry, Tick
<1>5. CASE LoadIn \/ LoadOut \/ Record
  BY <1>5 DEF LoadIn, LoadOut, Record
<1>6. CASE GetIn \/ GetOut
  BY <1>6 DEF GetIn, GetOut, Residual
<1>7. CASE StoreIn \/ StoreOut
  BY <1>7 DEF StoreIn, StoreOut
<1>8. CASE Observe
  BY <1>8 DEF Observe
<1>9. CASE UNCHANGED vars
  BY <1>9 DEF vars
<1>10. QED
  BY <1>1, <1>2, <1>3, <1>4, <1>5, <1>6, <1>7, <1>8, <1>9 DEF Next, Observing

\* Once the observer is gone nothing is accepted any more.
StopInv == opc = "done" => Served

LEMMA StopInvNext == TypeOK /\ StopInv /\ [Next]_vars => StopInv'
<1> SUFFICES ASSUME TypeOK, StopInv, [Next]_vars PROVE StopInv'
  OBVIOUS
<1> USE DEF TypeOK, StopInv, Served, Goto, connVars, observerVars
<1>1. CASE Observing
  BY <1>1 DEF Observing, Retry, Tick, LoadIn, LoadOut, Record, GetIn, GetOut, StoreIn, StoreOut, Observe
<1>2. CASE Stop \/ Close
  BY <1>2 DEF Stop, Close
<1>3. ASSUME NEW c \in Conns, Accept(c) \/ AddOther(c) \/ SetUpdated(c) \/ EndConn(c) PROVE StopInv'
  BY <1>3 DEF Accept, AddOther, SetUpdated, EndConn
<1>4. ASSUME NEW c \in Conns, NEW k \in Kinds, AddBytes(c, k) PROVE StopInv'
  BY <1>4 DEF AddBytes
<1>5. CASE UNCHANGED vars
  BY <1>5 DEF vars
<1>6. QED
  BY <1>1, <1>2, <1>3, <1>4, <1>5 DEF Next

\* The inductive invariant.
THEOREM SpecIInv == Spec => [](CountInv /\ AnnounceInv /\ StopInv)
<1>1. Init => CountInv /\ AnnounceInv /\ StopInv
  BY InitInv DEF Init, StopInv
<1>2. CountInv /\ AnnounceInv /\ StopInv /\ [Next]_vars => (CountInv /\ AnnounceInv /\ StopInv)'
  BY TypeOKNext, ReadInvNext, NoOvercountNext, NoUndercountNext, AnnounceInvNext, StopInvNext
     DEF CountInv, BytesAreAccounted
<1>3. QED
  BY <1>1, <1>2, PTL DEF Spec

\* Type correctness; in particular the residual of a reset never wraps below
\* zero (service.go:413 subtracts unsigned counters).
THEOREM SpecTypeOK == Spec => []TypeOK
<1>1. CountInv => TypeOK
  BY DEF CountInv
<1>2. QED
  BY SpecIInv, <1>1, PTL

\* No byte is recorded twice, and none is lost but those that come while a
\* reset stores what it computed.
THEOREM SpecBytesAreAccounted == Spec => []BytesAreAccounted
<1>1. CountInv => BytesAreAccounted
  BY DEF CountInv
<1>2. QED
  BY SpecIInv, <1>1, PTL

\* A counter that holds bytes is always announced to the observer.
THEOREM SpecCountedIsAnnounced == Spec => []CountedIsAnnounced
<1>1. CountInv /\ AnnounceInv => CountedIsAnnounced
  BY DEF CountInv, TypeOK, AnnounceInv, CountedIsAnnounced, Announced, Plain
<1>2. QED
  BY SpecIInv, <1>1, PTL

\* The observer never ends before the last connection.
THEOREM SpecObserverOutlivesConns == Spec => []ObserverOutlivesConns
<1>1. CountInv /\ StopInv => ObserverOutlivesConns
  BY DEF CountInv, TypeOK, StopInv, Served, ObserverOutlivesConns
<1>2. QED
  BY SpecIInv, <1>1, PTL
=============================================================================
