---------------------------- MODULE ServiceStats ----------------------------
(***************************************************************************)
(* The byte counters of one forwarding service on an agent, from the       *)
(* connections that bump them (go-gost/x/observer/stats/stats.go) to the   *)
(* observer goroutine that hands them to the GlobalTrafficManager and      *)
(* resets them (go-gost/x/service/service.go, observeStats), until the     *)
(* service is closed.                                                      *)
(*                                                                         *)
(* Every access of an atomic counter or flag is a step of its own.         *)
(* Abstractions: a transfer is one byte; TrafficReport takes over from     *)
(* AddTraffic.  Definitions named X_<word> are single-bug variants of X.   *)
(***************************************************************************)
EXTENDS Naturals

CONSTANTS
  Conns,      \* connections the service accepts
  MaxBytes    \* bound: bytes counted per kind

ASSUME MaxBytesAssumption == MaxBytes \in Nat

VARIABLES
  count,      \* inputBytes and outputBytes
  updated,    \* the updated flag
  conn,       \* a connection: "new", "open", "adding" (inside Add) or "closed"
  listening,  \* the listener accepts
  opc,        \* observeStats's program counter
  read,       \* inputBytes and outputBytes it read
  residual,   \* the arguments of ResetTraffic
  pending,    \* there are events whose Observe failed
  passed,     \* history: bytes counted
  late,       \* history: of these, the bytes that came between a read and a store of the reset
  recorded    \* history: bytes handed to AddTraffic

vars == <<count, updated, conn, listening, opc, read, residual, pending, passed, late, recorded>>

Kinds == {"in", "out"}

Zero == [k \in Kinds |-> 0]

TypeOK ==
  /\ count \in [Kinds -> Nat]
  /\ updated \in BOOLEAN
  /\ conn \in [Conns -> {"new", "open", "adding", "closed"}]
  /\ listening \in BOOLEAN
  /\ opc \in {"idle", "loadIn", "loadOut", "record", "getIn", "getOut", "storeIn", "storeOut",
              "observe", "done"}
  /\ read \in [Kinds -> Nat] /\ residual \in [Kinds -> Nat]
  /\ pending \in BOOLEAN
  /\ passed \in [Kinds -> Nat] /\ late \in [Kinds -> Nat] /\ recorded \in [Kinds -> Nat]

Init ==
  /\ count = Zero
  /\ updated = FALSE
  /\ conn = [c \in Conns |-> "new"]
  /\ listening = TRUE
  /\ opc = "idle"
  /\ read = Zero /\ residual = Zero
  /\ pending = FALSE
  /\ passed = Zero /\ late = Zero /\ recorded = Zero

-----------------------------------------------------------------------------
(* Connections *)

connVars == <<count, updated, conn, listening, passed, late>>
observerVars == <<opc, read, residual, pending, recorded>>

\* Serve accepts a connection.
Accept(c) ==
  /\ listening
  /\ conn[c] = "new"
  /\ conn' = [conn EXCEPT ![c] = "open"]
  /\ UNCHANGED <<count, updated, listening, passed, late, observerVars>>

\* ResetTraffic is about to store what GetIn or GetOut computed.
Computed(k) ==
  \/ opc \in {"getOut", "storeIn"} /\ k = "in"
  \/ opc \in {"storeIn", "storeOut"} /\ k = "out"

\* Add, up to its counter: a byte goes through ...
AddBytes(c, k) ==
  /\ conn[c] = "open"
  /\ passed[k] < MaxBytes
  /\ conn' = [conn EXCEPT ![c] = "adding"]
  /\ count' = [count EXCEPT ![k] = @ + 1]
  /\ passed' = [passed EXCEPT ![k] = @ + 1]
  /\ late' = [late EXCEPT ![k] = IF Computed(k) THEN @ + 1 ELSE @]
  /\ UNCHANGED <<updated, listening, observerVars>>

\* ... or a connection or an error is counted.
AddOther(c) ==
  /\ conn[c] = "open"
  /\ conn' = [conn EXCEPT ![c] = "adding"]
  /\ UNCHANGED <<count, updated, listening, passed, late, observerVars>>

\* The end of Add.
SetUpdated(c) ==
  /\ conn[c] = "adding"
  /\ updated' = TRUE
  /\ conn' = [conn EXCEPT ![c] = "open"]
  /\ UNCHANGED <<count, listening, passed, late, observerVars>>

\* The connection's handler returns.
EndConn(c) ==
  /\ conn[c] = "open"
  /\ conn' = [conn EXCEPT ![c] = "closed"]
  /\ UNCHANGED <<count, updated, listening, passed, late, observerVars>>

\* Close: no more connections are accepted.
Close ==
  /\ listening
  /\ listening' = FALSE
  /\ UNCHANGED <<count, updated, conn, passed, late, observerVars>>

-----------------------------------------------------------------------------
(* The observer goroutine *)

Goto(from, to) == opc = from /\ opc' = to

\* A tick with events pending only retries them, perhaps in vain.
Retry ==
  /\ Goto("idle", "idle")
  /\ pending
  /\ pending' \in BOOLEAN
  /\ UNCHANGED <<connVars, read, residual, recorded>>

\* A tick takes the updated flag.
Tick ==
  /\ ~pending /\ updated
  /\ Goto("idle", "loadIn")
  /\ updated' = FALSE
  /\ UNCHANGED <<count, conn, listening, passed, late, read, residual, pending, recorded>>

LoadIn ==
  /\ Goto("loadIn", "loadOut")
  /\ read' = [read EXCEPT !["in"] = count["in"]]
  /\ UNCHANGED <<connVars, residual, pending, recorded>>

LoadOut_ClearsFlag ==
  /\ Goto("loadOut", IF read["in"] > 0 \/ count["out"] > 0 THEN "record" ELSE "observe")
  /\ read' = [read EXCEPT !["out"] = count["out"]]
  /\ updated' = FALSE
  /\ UNCHANGED <<count, conn, listening, passed, late, residual, pending, recorded>>

LoadOut ==
  /\ Goto("loadOut", IF read["in"] > 0 \/ count["out"] > 0 THEN "record" ELSE "observe")
  /\ read' = [read EXCEPT !["out"] = count["out"]]
  /\ UNCHANGED <<connVars, residual, pending, recorded>>

Record_Skipped ==
  /\ Goto("record", "getIn")
  /\ UNCHANGED <<connVars, read, residual, pending, recorded>>

\* AddTraffic.
Record ==
  /\ Goto("record", "getIn")
  /\ recorded' = [k \in Kinds |-> recorded[k] + read[k]]
  /\ UNCHANGED <<connVars, read, residual, pending>>

Residual_All(k) == count[k]

Residual_Wrapped(k) == IF read[k] > 0 THEN read[k] - count[k] ELSE 0

\* What came since the counter was read.
Residual(k) == count[k] - read[k]

GetIn ==
  /\ Goto("getIn", "getOut")
  /\ residual' = [residual EXCEPT !["in"] = Residual("in")]
  /\ UNCHANGED <<connVars, read, pending, recorded>>

GetOut ==
  /\ Goto("getOut", "storeIn")
  /\ residual' = [residual EXCEPT !["out"] = Residual("out")]
  /\ UNCHANGED <<connVars, read, pending, recorded>>

\* ResetTraffic.
StoreIn ==
  /\ Goto("storeIn", "storeOut")
  /\ count' = [count EXCEPT !["in"] = residual["in"]]
  /\ UNCHANGED <<updated, conn, listening, passed, late, read, residual, pending, recorded>>

StoreOut ==
  /\ Goto("storeOut", "observe")
  /\ count' = [count EXCEPT !["out"] = residual["out"]]
  /\ UNCHANGED <<updated, conn, listening, passed, late, read, residual, pending, recorded>>

\* Observe, which may fail; read and residual go out of scope.
Observe ==
  /\ Goto("observe", "idle")
  /\ pending' \in BOOLEAN
  /\ read' = Zero /\ residual' = Zero
  /\ UNCHANGED <<connVars, recorded>>

\* Serve has returned: the listener is closed and every handler is done.
Served == ~listening /\ \A c \in Conns : conn[c] \in {"new", "closed"}

\* The cancelled context ends the observer, between two ticks.
Stop ==
  /\ Served
  /\ Goto("idle", "done")
  /\ UNCHANGED <<connVars, read, residual, pending, recorded>>

-----------------------------------------------------------------------------
Observing ==
  Retry \/ Tick \/ LoadIn \/ LoadOut \/ Record \/ GetIn \/ GetOut \/ StoreIn \/ StoreOut \/ Observe

Next ==
  \/ \E c \in Conns : Accept(c) \/ AddOther(c) \/ SetUpdated(c) \/ EndConn(c)
  \/ \E c \in Conns, k \in Kinds : AddBytes(c, k)
  \/ Close \/ Stop \/ Observing

Spec == Init /\ [][Next]_vars

\* The ticker keeps ticking, Add always runs to its end, and an observer does
\* not fail for ever: a Retry that leaves the events pending changes nothing, so
\* weak fairness asks for one that succeeds.
Fairness == WF_vars(Observing) /\ \A c \in Conns : WF_vars(SetUpdated(c))

LiveSpec == Spec /\ Fairness

-----------------------------------------------------------------------------
\* What the counter of a kind still holds of bytes already recorded.
Unreset(k) ==
  IF \/ opc \in {"getIn", "getOut", "storeIn"}
     \/ opc = "storeOut" /\ k = "out"
  THEN read[k] ELSE 0

\* A byte is handed to the panel's accounting once at most, whatever arrives
\* between the reads and the stores of the reset.
NoOvercount == \A k \in Kinds : recorded[k] + count[k] <= passed[k] + Unreset(k)

\* ... and at least once, unless it came while the reset was storing what it had
\* computed: those bytes are wiped (service.go:413, stats.go:69-72).
NoUndercount == \A k \in Kinds : passed[k] + Unreset(k) <= recorded[k] + count[k] + late[k]

\* Both bounds.
BytesAreAccounted == NoOvercount /\ NoUndercount

\* Bytes in the counters are never overlooked: the flag announces them, or the
\* goroutine that added them still will.
CountedIsAnnounced ==
  opc = "idle" /\ (\E k \in Kinds : count[k] > 0) =>
    updated \/ \E c \in Conns : conn[c] = "adding"

\* Every byte is recorded at last, though no more traffic follows, unless it
\* came during a reset or the service ends first.
BytesAreCollected ==
  \A k \in Kinds, n \in 1..MaxBytes :
    passed[k] = n ~> (recorded[k] + late[k] >= n \/ opc = "done")

\* The observer outlives the last connection: what a connection adds is never
\* added after the observer is gone (Serve waits for its handlers before it
\* cancels the context).
ObserverOutlivesConns == opc = "done" => \A c \in Conns : conn[c] \notin {"open", "adding"}
=============================================================================
