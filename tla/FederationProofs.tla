-------------------------- MODULE FederationProofs --------------------------
(***************************************************************************)
(* Type correctness of Federation, that no port of a share is held twice   *)
(* (PortsDistinct), that a tunnel at rest has every role of its path at    *)
(* the ports its rows name (PathIsWhole), and that what no binding names   *)
(* left nothing at the provider (GoneIsReleased), for every number of      *)
(* tunnels, hops, requests and ports.                                      *)
(***************************************************************************)
EXTENDS Federation, TLAPS

Assumptions ==
  /\ None \notin Tasks
  /\ Share \in [Hops -> SUBSET (1..MaxPort)]
  /\ MaxPort \in Nat /\ MaxRequests \in Nat /\ MaxFaults \in Nat

\* The assumptions of the module but that on paths, as one fact.
LEMMA Assumed == Assumptions
BY NoneAssumption, ShareAssumption, BoundAssumption DEF Assumptions

-----------------------------------------------------------------------------
(* What the helpers return *)

\* A path has a hop, none twice, and its first one alone is an exit.
LEMMA PathFacts ==
  ASSUME NEW p \in Paths
  PROVE  /\ Len(p) \in Nat /\ Len(p) > 0 /\ p # NoPath
         /\ \A i \in 1..Len(p) : p[i] \in Hops /\ (p[i] \in Exits <=> i = 1)
         /\ \A i, j \in 1..Len(p) : p[i] = p[j] => i = j
         /\ First(p) \in Hops
<1>1. p \in Seq(Hops) /\ Len(p) > 0
  BY PathAssumption
<1>2. Len(p) \in Nat /\ p # NoPath
  BY <1>1 DEF NoPath
<1>3. \A i \in 1..Len(p) : p[i] \in Hops
  BY <1>1
<1> QED
  BY <1>1, <1>2, <1>3, PathAssumption DEF First

LEMMA NoPathFacts == Len(NoPath) = 0
BY DEF NoPath

\* What the helpers return has the type it should.
LEMMA TargetTypes ==
  /\ 0 \in PortsOrNone /\ NoTarget \in Targets /\ NoPorts \in [Hops -> PortsOrNone]
  /\ \A h \in Hops, p \in PortsOrNone : [hop |-> h, port |-> p] \in Targets
BY Assumed DEF PortsOrNone, NoTarget, Targets, NoPorts, Assumptions

\* A request at one of its steps is not idle.
LEMMA AtTask ==
  ASSUME TypeOK, NEW k \in Tasks, task[k] # Idle
  PROVE  task[k] \in Task
BY DEF TypeOK

\* What the type says of a request.
LEMMA TaskFacts ==
  ASSUME NEW x \in Task
  PROVE  /\ x.tunnel \in Tunnels /\ x.path \in Paths /\ x.port \in [Hops -> PortsOrNone]
         /\ x.done \in Nat /\ x.left \in Nat /\ x.pc \in Steps /\ x.op \in Ops
         /\ x.todo \in Paths \cup {NoPath} /\ x.then \in {"end", "drop", "begin", "cascade"}
         /\ x.done <= Len(x.path) /\ x.left <= Len(x.todo)
         /\ x.pc \in {"reserving", "applying"} =>
              x.done + 1 \in 1..Len(x.path) /\ x.path[x.done + 1] \in Hops
         /\ x.pc = "releasing" => x.left \in 1..Len(x.todo) /\ x.todo \in Paths
<1>1. /\ x.tunnel \in Tunnels /\ x.path \in Paths /\ x.port \in [Hops -> PortsOrNone]
      /\ x.done \in Nat /\ x.left \in Nat /\ x.pc \in Steps /\ x.op \in Ops
      /\ x.todo \in Paths \cup {NoPath} /\ x.then \in {"end", "drop", "begin", "cascade"}
      /\ x.done <= Len(x.path) /\ x.left <= Len(x.todo)
      /\ x.pc \in {"reserving", "applying"} => x.done < Len(x.path)
      /\ x.pc = "releasing" => x.left > 0
  BY DEF Task
<1>2. Len(x.path) \in Nat /\ \A i \in 1..Len(x.path) : x.path[i] \in Hops
  BY <1>1, PathFacts
<1>3. Len(x.todo) \in Nat /\ (Len(x.todo) > 0 => x.todo \in Paths)
  BY <1>1, PathFacts, NoPathFacts
<1> QED
  BY <1>1, <1>2, <1>3

\* A call somebody makes now.
NewFor(k, n) ==
  n \in Call /\ n.by = k /\ n.pc = "new" /\ n.tunnel = task[k].tunnel

LEMMA NewCallType ==
  ASSUME NEW k \in Tasks, task[k] \in Task, NEW kind \in Kinds, NEW hop \in Hops,
         NEW port \in PortsOrNone, NEW target \in Targets
  PROVE  NewFor(k, NewCall(k, kind, hop, port, target))
<1>1. task[k].tunnel \in Tunnels
  BY DEF Task
<1> QED
  BY <1>1 DEF NewFor, NewCall, Call, CallSteps

\* A request with what a step may change.
Edited(x, pc, path, done, ports, todo, left, then) ==
  [x EXCEPT !.pc = pc, !.path = path, !.done = done, !.port = ports,
            !.todo = todo, !.left = left, !.then = then]

\* A request that is written to stays one.
LEMMA TaskEdit ==
  ASSUME NEW x \in Task, NEW pc \in Steps, NEW path \in Paths, NEW done \in Nat,
         NEW ports \in [Hops -> PortsOrNone], NEW todo \in Paths \cup {NoPath}, NEW left \in Nat,
         NEW then \in {"end", "drop", "begin", "cascade"},
         done <= Len(path), pc \in {"reserving", "applying"} => done < Len(path),
         left <= Len(todo), pc = "releasing" => left > 0,
         NEW y, y = Edited(x, pc, path, done, ports, todo, left, then)
  PROVE  y \in Task /\ y.tunnel = x.tunnel
<1> DEFINE R == [pc : Steps, op : Ops, tunnel : Tunnels, path : Paths, done : Nat,
                 port : [Hops -> PortsOrNone], todo : Paths \cup {NoPath}, left : Nat,
                 then : {"end", "drop", "begin", "cascade"}]
<1>1. x \in R
  BY DEF Task
<1>2. /\ y \in R /\ y.tunnel = x.tunnel /\ y.pc = pc /\ y.path = path /\ y.done = done
      /\ y.todo = todo /\ y.left = left
  BY <1>1 DEF Edited
<1> HIDE DEF R
<1>3. \A z \in R : /\ z.done <= Len(z.path)
                   /\ z.pc \in {"reserving", "applying"} => z.done < Len(z.path)
                   /\ z.left <= Len(z.todo)
                   /\ z.pc = "releasing" => z.left > 0
                   => z \in Task
  BY DEF Task, R
<1> QED
  BY <1>2, <1>3

\* The request goes on, with the same tunnel, and replaces its call or keeps it.
Moves(k) ==
  /\ \E x \in Task : x.tunnel = task[k].tunnel /\ task' = [task EXCEPT ![k] = x]
  /\ \/ calls' \subseteq calls
     \/ \E n : NewFor(k, n) /\ calls' = (calls \ Mine(k)) \cup {n}

\* Goto is a move.
LEMMA GotoMoves ==
  ASSUME TypeOK, NEW k \in Tasks, task[k] \in Task,
         NEW s \in Steps \ {"reserving", "applying", "releasing"},
         Goto(k, s), calls' \subseteq calls
  PROVE  Moves(k)
<1> DEFINE x == [task[k] EXCEPT !.pc = s]
<1>1. x \in Task /\ x.tunnel = task[k].tunnel
  BY DEF Task
<1>2. task' = [task EXCEPT ![k] = x]
  BY DEF Goto
<1> QED
  BY <1>1, <1>2 DEF Moves

\* What a release of hops makes of the request.
LEMMA ReleasesTask ==
  ASSUME TypeOK, NEW k \in Tasks, NEW x \in Task, task[k] = x, NEW todo \in Paths \cup {NoPath},
         NEW n \in Nat, n <= Len(todo), NEW then \in {"end", "drop", "begin", "cascade"},
         Releases(k, todo, n, then)
  PROVE  \E y \in Task :
           /\ task' = [task EXCEPT ![k] = y]
           /\ y.tunnel = x.tunnel /\ y.op = x.op /\ y.path = x.path /\ y.done = x.done
           /\ y.port = x.port /\ y.todo = todo /\ y.left = n /\ y.then = then
           /\ y.pc = IF n = 0 THEN then ELSE "releasing"
<1>1. /\ x.path \in Paths /\ x.done \in Nat /\ x.port \in [Hops -> PortsOrNone]
      /\ x.done <= Len(x.path)
  BY TaskFacts
<1>2. PICK pc \in {"releasing", "end", "drop", "begin", "cascade"} :
        pc = IF n = 0 THEN then ELSE "releasing"
  OBVIOUS
<1>3. PICK y : y = Edited(x, pc, x.path, x.done, x.port, todo, n, then)
  OBVIOUS
<1>4. /\ pc \in Steps /\ (pc \in {"reserving", "applying"} => x.done < Len(x.path))
      /\ pc = "releasing" => n > 0
  BY <1>2 DEF Steps
<1>5. y \in Task /\ y.tunnel = x.tunnel
  BY <1>1, <1>3, <1>4, TaskEdit
<1>6. y = [x EXCEPT !.pc = pc, !.todo = todo, !.left = n, !.then = then]
  BY <1>3 DEF Task, Edited
<1>7. /\ y.op = x.op /\ y.path = x.path /\ y.done = x.done /\ y.port = x.port
      /\ y.todo = todo /\ y.left = n /\ y.then = then /\ y.pc = pc
  BY <1>6 DEF Task
<1>8. task' = [task EXCEPT ![k] = y]
  BY <1>2, <1>6 DEF Releases
<1> QED
  BY <1>2, <1>5, <1>7, <1>8

\* It is a move too.
LEMMA ReleasesMoves ==
  ASSUME TypeOK, NEW k \in Tasks, task[k] \in Task, NEW todo \in Paths \cup {NoPath},
         NEW n \in Nat, n <= Len(todo), NEW then \in {"end", "drop", "begin", "cascade"},
         Releases(k, todo, n, then)
  PROVE  Moves(k)
<1>1. \E y \in Task : y.tunnel = task[k].tunnel /\ task' = [task EXCEPT ![k] = y]
  <2>1. PICK x \in Task : x = task[k]
    OBVIOUS
  <2>2. \E y \in Task : task' = [task EXCEPT ![k] = y] /\ y.tunnel = x.tunnel
    BY <2>1, ReleasesTask
  <2> QED
    BY <2>1, <2>2
<1>2. CASE n = 0
  <2>1. calls' \subseteq calls
    BY <1>2 DEF Releases
  <2> QED
    BY <1>1, <2>1 DEF Moves
<1>3. CASE n # 0
  <2>1. todo[n] \in Hops
    BY <1>3, PathFacts, NoPathFacts
  <2>2. NewFor(k, NewCall(k, "release", todo[n], 0, NoTarget))
    BY <2>1, NewCallType, TargetTypes DEF Kinds
  <2>3. calls' = (calls \ Mine(k)) \cup {NewCall(k, "release", todo[n], 0, NoTarget)}
    BY <1>3 DEF Releases
  <2> QED
    BY <1>1, <2>2, <2>3 DEF Moves
<1> QED
  BY <1>2, <1>3

\* What a reservation makes of it.
LEMMA ReservesTask ==
  ASSUME TypeOK, NEW k \in Tasks, NEW x \in Task, task[k] = x, NEW path \in Paths,
         NEW done \in Nat, done < Len(path),
         NEW ports \in [Hops -> PortsOrNone], Reserves(k, path, done, ports)
  PROVE  \E y \in Task :
           /\ task' = [task EXCEPT ![k] = y]
           /\ y.tunnel = x.tunnel /\ y.op = x.op /\ y.path = path /\ y.done = done
           /\ y.port = ports /\ y.then = "end" /\ y.pc = "reserving"
<1>1. x.todo \in Paths \cup {NoPath} /\ x.left \in Nat /\ x.left <= Len(x.todo)
  BY TaskFacts
<1>2. PICK y : y = Edited(x, "reserving", path, done, ports, x.todo, x.left, "end")
  OBVIOUS
<1>3. "reserving" \in Steps /\ done <= Len(path) /\ "end" \in {"end", "drop", "begin", "cascade"}
  BY PathFacts DEF Steps
<1>4. y \in Task /\ y.tunnel = x.tunnel
  BY <1>1, <1>2, <1>3, TaskEdit
<1>5. y = [x EXCEPT !.pc = "reserving", !.path = path, !.done = done, !.port = ports,
                    !.then = "end"]
  BY <1>1, <1>2 DEF Task, Edited
<1>6. /\ y.op = x.op /\ y.path = path /\ y.done = done /\ y.port = ports
      /\ y.then = "end" /\ y.pc = "reserving"
  BY <1>5 DEF Task
<1>7. task' = [task EXCEPT ![k] = y]
  BY <1>5 DEF Reserves
<1> QED
  BY <1>4, <1>6, <1>7

\* It is a move as well.
LEMMA ReservesMoves ==
  ASSUME TypeOK, NEW k \in Tasks, task[k] \in Task, NEW path \in Paths,
         NEW done \in Nat, done < Len(path),
         NEW ports \in [Hops -> PortsOrNone], Reserves(k, path, done, ports)
  PROVE  Moves(k)
<1> DEFINE hop == path[done + 1]
<1>1. \E y \in Task : y.tunnel = task[k].tunnel /\ task' = [task EXCEPT ![k] = y]
  <2>1. PICK x \in Task : x = task[k]
    OBVIOUS
  <2>2. \E y \in Task : task' = [task EXCEPT ![k] = y] /\ y.tunnel = x.tunnel
    BY <2>1, ReservesTask
  <2> QED
    BY <2>1, <2>2
<1>2. hop \in Hops
  BY PathFacts
<1>3. NewFor(k, NewCall(k, "reserve", hop, ports[hop], NoTarget))
  BY <1>2, NewCallType, TargetTypes DEF Kinds
<1>4. calls' = (calls \ Mine(k)) \cup {NewCall(k, "reserve", hop, ports[hop], NoTarget)}
  BY DEF Reserves
<1> QED
  BY <1>1, <1>3, <1>4 DEF Moves

\* A step of a request is a step of one that is at work.
LEMMA TaskAtWork ==
  ASSUME TypeOK, NEW k \in Tasks, TaskNext(k)
  PROVE  task[k] # Idle /\ task[k] \in Task
<1>1. task[k].pc \in Steps
  BY DEF TaskNext, At, Unchain, List, Released, Drop, Cascade, Begin, BeginRefused,
         Reserved, DialFails, ReserveAgain, ReserveFails, Applied, ApplyFails, Undo, Store,
         Conflict, Entry, End, Steps
<1>2. task[k] # Idle
  BY <1>1 DEF Idle, Steps
<1> QED
  BY <1>2, AtTask

\* Every step of a request but its last is a move.
LEMMA TaskMoves ==
  ASSUME TypeOK, NEW k \in Tasks, TaskNext(k), ~End(k)
  PROVE  task[k] # Idle /\ Moves(k)
<1>1. task[k] # Idle /\ task[k] \in Task
  BY TaskAtWork
<1> SUFFICES Moves(k)
  BY <1>1
<1>2. task[k] \in Task
  BY <1>1
<1>3. /\ task[k].tunnel \in Tunnels /\ task[k].path \in Paths
      /\ task[k].port \in [Hops -> PortsOrNone]
      /\ task[k].done \in Nat /\ task[k].left \in Nat
      /\ task[k].todo \in Paths \cup {NoPath}
      /\ task[k].then \in {"end", "drop", "begin", "cascade"}
      /\ task[k].done <= Len(task[k].path) /\ task[k].left <= Len(task[k].todo)
      /\ task[k].pc \in {"reserving", "applying"} => task[k].done < Len(task[k].path)
      /\ task[k].pc = "releasing" => task[k].left > 0
  BY <1>2, TaskFacts DEF Task
<1>4. AfterCleanup(k) \in {"begin", "cascade"}
  BY DEF AfterCleanup
<1>5. /\ Len(task[k].path) \in Nat /\ Len(task[k].path) > 0
      /\ \A i \in 1..Len(task[k].path) : task[k].path[i] \in Hops
  BY <1>3, PathFacts
<1>6. \A c \in calls : c.port \in PortsOrNone
  BY DEF TypeOK, Call
<1>7. task[k].pc \in {"reserving", "applying"} => Hop(k) \in Hops
  BY <1>3, <1>5 DEF Hop
<1>8. Beyond(k) \in Targets
  <2>1. CASE task[k].done = 0
    BY <2>1, TargetTypes DEF Beyond
  <2>2. CASE task[k].done # 0
    <3>1. task[k].path[task[k].done] \in Hops
      BY <1>3, <1>5, <2>2
    <3> QED
      BY <1>3, <2>2, <3>1, TargetTypes DEF Beyond
  <2> QED
    BY <2>1, <2>2
<1>a. CASE Unchain(k)
  BY <1>a, <1>2, GotoMoves DEF Unchain, Steps
<1>b. CASE List(k)
  <2>1. PICK todo : todo = bound[task[k].tunnel]
    OBVIOUS
  <2>2. todo \in Paths \cup {NoPath}
    BY <1>3, <2>1 DEF TypeOK
  <2>3. Len(todo) \in Nat /\ Len(todo) <= Len(todo)
    BY <2>2, PathFacts, NoPathFacts
  <2>4. PICK then \in {"end", "drop", "begin", "cascade"} :
          then = IF todo = NoPath THEN AfterCleanup(k) ELSE "drop"
    BY <1>4
  <2>5. Releases(k, todo, Len(todo), then)
    BY <1>b, <2>1, <2>4 DEF List
  <2> QED
    BY <1>2, <2>2, <2>3, <2>5, ReleasesMoves
<1>c. CASE Released(k)
  <2>1. PICK n : n = task[k].left - 1
    OBVIOUS
  <2>2. Len(task[k].todo) \in Nat
    BY <1>3, PathFacts, NoPathFacts
  <2>3. n \in Nat /\ n <= Len(task[k].todo)
    BY <1>c, <1>3, <2>1, <2>2 DEF Released, At
  <2>4. Releases(k, task[k].todo, n, task[k].then)
    BY <1>c, <2>1 DEF Released
  <2> QED
    BY <1>2, <1>3, <2>3, <2>4, ReleasesMoves
<1>d. CASE Drop(k)
  <2>1. (IF task[k].done = 0 THEN AfterCleanup(k) ELSE "end")
          \in Steps \ {"reserving", "applying", "releasing"}
    BY <1>4 DEF Steps
  <2> QED
    BY <1>d, <1>2, <2>1, GotoMoves DEF Drop
<1>e. CASE Cascade(k)
  BY <1>e, <1>2, GotoMoves DEF Cascade, Steps
<1>f. CASE Begin(k)
  <2>1. stored[task[k].tunnel] \in [Hops -> PortsOrNone]
    BY <1>3 DEF TypeOK
  <2>2. tunnel[task[k].tunnel] = "there" => route[task[k].tunnel] \in Paths
    BY <1>3 DEF TypeOK
  <2>3. CASE task[k].op = "redeploy"
    <3>1. Reserves(k, route[task[k].tunnel], 0, stored[task[k].tunnel])
          /\ route[task[k].tunnel] \in Paths
      BY <1>f, <2>2, <2>3 DEF Begin
    <3>2. 0 < Len(route[task[k].tunnel])
      BY <3>1, PathFacts
    <3> QED
      BY <1>2, <2>1, <3>1, <3>2, ReservesMoves
  <2>4. CASE task[k].op # "redeploy"
    <3>1. Reserves(k, task[k].path, 0, task[k].port)
      BY <1>f, <2>4 DEF Begin
    <3> QED
      BY <1>2, <1>3, <1>5, <3>1, ReservesMoves
  <2> QED
    BY <2>3, <2>4
<1>g. CASE BeginRefused(k)
  BY <1>g, <1>2, GotoMoves DEF BeginRefused, Steps
<1>h. CASE Reserved(k)
  <2>1. PICK c \in Mine(k) :
          /\ task' = [task EXCEPT ![k].pc = "applying", ![k].port[Hop(k)] = c.port]
          /\ calls' = (calls \ Mine(k)) \cup {NewCall(k, "apply", Hop(k), 0, Beyond(k))}
    BY <1>h DEF Reserved
  <2>2. task[k].pc = "reserving" /\ Hop(k) \in Hops
    BY <1>h, <1>7 DEF Reserved, At
  <2> DEFINE ports == [task[k].port EXCEPT ![Hop(k)] = c.port]
  <2>3. ports \in [Hops -> PortsOrNone]
    BY <1>3, <1>6 DEF Mine
  <2>4. task' = [task EXCEPT ![k] = [task[k] EXCEPT !.pc = "applying", !.port = ports]]
    BY <2>1
  <2> HIDE DEF ports
  <2> DEFINE x == [task[k] EXCEPT !.pc = "applying", !.port = ports]
  <2>5. x \in Task /\ x.tunnel = task[k].tunnel
    BY <1>2, <2>2, <2>3 DEF Task, Steps
  <2>6. NewFor(k, NewCall(k, "apply", Hop(k), 0, Beyond(k)))
    BY <1>2, <1>8, <2>2, NewCallType, TargetTypes DEF Kinds
  <2> QED
    BY <2>1, <2>4, <2>5, <2>6 DEF Moves
<1>z. CASE DialFails(k)
  BY <1>z, <1>2, GotoMoves DEF DialFails, Steps
<1>i. CASE ReserveAgain(k)
  <2>1. [task[k].port EXCEPT ![Hop(k)] = 0] \in [Hops -> PortsOrNone]
    BY <1>3, TargetTypes
  <2>2. task[k].done < Len(task[k].path)
    BY <1>i, <1>3 DEF ReserveAgain, At
  <2> QED
    BY <1>i, <1>2, <1>3, <2>1, <2>2, ReservesMoves DEF ReserveAgain
<1>j. CASE ReserveFails(k)
  BY <1>j, <1>2, GotoMoves DEF ReserveFails, Steps
<1>k. CASE Applied(k)
  <2>1. PICK c \in Mine(k) :
          LET ports == [task[k].port EXCEPT ![Hop(k)] = c.port]
              done == task[k].done + 1
          IN  IF done < Len(task[k].path)
              THEN Reserves(k, task[k].path, done, ports)
              ELSE /\ task' = [task EXCEPT ![k].pc = "store", ![k].port = ports, ![k].done = done]
                   /\ calls' = calls \ Mine(k)
    BY <1>k DEF Applied
  <2>2. PICK ports : ports = [task[k].port EXCEPT ![Hop(k)] = c.port]
    OBVIOUS
  <2>3. PICK done : done = task[k].done + 1
    OBVIOUS
  <2>a. ports \in [Hops -> PortsOrNone]
    BY <1>3, <1>6, <2>2 DEF Mine
  <2>b. task[k].pc = "applying"
    BY <1>k DEF Applied, At
  <2>4. ports \in [Hops -> PortsOrNone] /\ done \in Nat /\ done <= Len(task[k].path)
    BY <1>3, <1>5, <2>3, <2>a, <2>b
  <2>5. CASE done < Len(task[k].path)
    <3>1. Reserves(k, task[k].path, done, ports)
      BY <2>1, <2>2, <2>3, <2>5
    <3> QED
      BY <1>2, <1>3, <2>4, <2>5, <3>1, ReservesMoves
  <2>6. CASE ~(done < Len(task[k].path))
    <3> DEFINE x == [task[k] EXCEPT !.pc = "store", !.port = ports, !.done = done]
    <3>1. x \in Task /\ x.tunnel = task[k].tunnel
      BY <1>2, <2>4 DEF Task, Steps
    <3>2. task' = [task EXCEPT ![k] = x] /\ calls' \subseteq calls
      BY <2>1, <2>2, <2>3, <2>6
    <3> QED
      BY <3>1, <3>2 DEF Moves
  <2> QED
    BY <2>5, <2>6
<1>l. CASE ApplyFails(k)
  BY <1>l, <1>2, GotoMoves DEF ApplyFails, Steps
<1>m. CASE Undo(k)
  BY <1>m, <1>2, <1>3, ReleasesMoves DEF Undo
<1>n. CASE Store(k)
  BY <1>n, <1>2, GotoMoves DEF Store, Steps
<1>o. CASE Conflict(k)
  BY <1>o, <1>2, GotoMoves DEF Conflict, Steps
<1>p. CASE Entry(k)
  <2>1. CASE Goto(k, "end")
    BY <1>p, <1>2, <2>1, GotoMoves DEF Entry, Steps
  <2>2. CASE task' = [task EXCEPT ![k].pc = "undo",
                       ![k].then = IF task[k].op = "create" THEN "cascade" ELSE "drop"]
    <3>a. PICK then \in {"cascade", "drop"} :
            then = IF task[k].op = "create" THEN "cascade" ELSE "drop"
      OBVIOUS
    <3> DEFINE x == [task[k] EXCEPT !.pc = "undo", !.then = then]
    <3>1. x \in Task /\ x.tunnel = task[k].tunnel
      BY <1>2 DEF Task, Steps
    <3>2. task' = [task EXCEPT ![k] = x] /\ calls' \subseteq calls
      <4>1. calls' = calls
        BY <1>p DEF Entry
      <4> QED
        BY <2>2, <3>a, <4>1
    <3> QED
      BY <3>1, <3>2 DEF Moves
  <2> QED
    BY <1>p, <2>1, <2>2 DEF Entry
<1> QED
  BY <1>1, <1>a, <1>b, <1>c, <1>d, <1>e, <1>f, <1>g, <1>h, <1>z, <1>i, <1>j, <1>k, <1>l,
     <1>m, <1>n, <1>o, <1>p DEF TaskNext

\* A call goes on; who made it and what for stays.
Proceeds(c) ==
  \E d \in Call :
    /\ d.by = c.by /\ d.kind = c.kind /\ d.hop = c.hop /\ d.tunnel = c.tunnel
    /\ d.pc # "new"
    /\ calls' \subseteq (calls \ {c}) \cup {d}

\* It does when it becomes another that differs in its step and port.
LEMMA BecomesProceeds ==
  ASSUME NEW c \in Call, NEW s \in CallSteps \ {"new"}, NEW p \in PortsOrNone,
         NEW f \in BOOLEAN, Becomes(c, [c EXCEPT !.pc = s, !.port = p, !.found = f])
  PROVE  Proceeds(c)
<1> DEFINE d == [c EXCEPT !.pc = s, !.port = p, !.found = f]
<1>1. d \in Call /\ d.by = c.by /\ d.kind = c.kind /\ d.hop = c.hop /\ d.tunnel = c.tunnel
      /\ d.pc # "new"
  BY DEF Call
<1>2. calls' \subseteq (calls \ {c}) \cup {d}
  BY DEF Becomes
<1> QED
  BY <1>1, <1>2 DEF Proceeds

\* Most often only its step changes.
LEMMA StepProceeds ==
  ASSUME NEW c \in Call, NEW s \in CallSteps \ {"new"}, Becomes(c, [c EXCEPT !.pc = s])
  PROVE  Proceeds(c)
<1>1. c.port \in PortsOrNone /\ c.found \in BOOLEAN
  BY DEF Call
<1>2. [c EXCEPT !.pc = s] = [c EXCEPT !.pc = s, !.port = c.port, !.found = c.found]
  BY DEF Call
<1> QED
  BY <1>1, <1>2, BecomesProceeds

\* A port that can be picked is one of the share, and free.
LEMMA PicksFree ==
  ASSUME NEW c \in Call, NEW p \in Picks(c)
  PROVE  p \in FreePorts(c.hop) /\ p \in PortsOrNone
<1>1. p \in FreePorts(c.hop)
  BY DEF Picks
<1>2. c.hop \in Hops
  BY DEF Call
<1> QED
  BY <1>1, <1>2, Assumed DEF FreePorts, PortsOrNone, Assumptions

\* A step of a call is a step of that call.
LEMMA CallMoves ==
  ASSUME TypeOK, NEW c \in calls, CallNext(c)
  PROVE  Proceeds(c) /\ task' = task
<1>1. c \in Call
  BY DEF TypeOK
<1>2. RowOf(c).port \in PortsOrNone /\ c.port \in PortsOrNone /\ c.found \in BOOLEAN
  BY <1>1 DEF TypeOK, Call, RowOf, Rows
<1>3. task' = task
  BY DEF CallNext, ReserveRead, ReserveWrite, ApplyRead, AddChain, AddService, ApplyWrite,
         ReleaseRead, DeleteService, Mark, DeleteChain
<1> SUFFICES Proceeds(c)
  BY <1>3
<1>a. CASE ReserveRead(c)
  <2>1. CASE Becomes(c, [c EXCEPT !.pc = "ok", !.port = RowOf(c).port])
    <3>1. [c EXCEPT !.pc = "ok", !.port = RowOf(c).port]
            = [c EXCEPT !.pc = "ok", !.port = RowOf(c).port, !.found = c.found]
      BY <1>1 DEF Call
    <3> QED
      BY <1>1, <1>2, <2>1, <3>1, BecomesProceeds DEF CallSteps
  <2>2. ASSUME NEW p \in Picks(c),
               Becomes(c, [c EXCEPT !.pc = "write", !.port = p, !.found = RowOf(c) # NoRow])
        PROVE  Proceeds(c)
    <3>1. p \in PortsOrNone /\ (RowOf(c) # NoRow) \in BOOLEAN
      BY <1>1, PicksFree
    <3> QED
      BY <1>1, <2>2, <3>1, BecomesProceeds DEF CallSteps
  <2>3. CASE Becomes(c, [c EXCEPT !.pc = "error"])
    BY <1>1, <2>3, StepProceeds DEF CallSteps
  <2> QED
    BY <1>a, <2>1, <2>2, <2>3 DEF ReserveRead
<1>b. CASE ReserveWrite(c)
  BY <1>1, <1>b, StepProceeds DEF ReserveWrite, CallSteps
<1>c. CASE ApplyRead(c)
  <2>1. ASSUME NEW s \in {"ok", "chain", "service"},
               Becomes(c, [c EXCEPT !.pc = s, !.port = RowOf(c).port])
        PROVE  Proceeds(c)
    <3>1. [c EXCEPT !.pc = s, !.port = RowOf(c).port]
            = [c EXCEPT !.pc = s, !.port = RowOf(c).port, !.found = c.found]
      BY <1>1 DEF Call
    <3> QED
      BY <1>1, <1>2, <2>1, <3>1, BecomesProceeds DEF CallSteps
  <2>2. CASE Becomes(c, [c EXCEPT !.pc = "error"])
    BY <1>1, <2>2, StepProceeds DEF CallSteps
  <2> QED
    BY <1>c, <2>1, <2>2 DEF ApplyRead
<1>d. CASE AddChain(c)
  BY <1>1, <1>d, StepProceeds DEF AddChain, CallSteps
<1>e. CASE AddService(c)
  BY <1>1, <1>e, StepProceeds DEF AddService, CallSteps
<1>f. CASE ApplyWrite(c)
  BY <1>1, <1>f, StepProceeds DEF ApplyWrite, CallSteps
<1>g. CASE ReleaseRead(c)
  BY <1>1, <1>g, StepProceeds DEF ReleaseRead, CallSteps
<1>h. CASE DeleteService(c)
  BY <1>1, <1>h, StepProceeds DEF DeleteService, CallSteps
<1>i. CASE Mark(c)
  BY <1>1, <1>i, StepProceeds DEF Mark, CallSteps
<1>j. CASE DeleteChain(c)
  BY <1>1, <1>j, StepProceeds DEF DeleteChain, CallSteps
<1> QED
  BY <1>a, <1>b, <1>c, <1>d, <1>e, <1>f, <1>g, <1>h, <1>i, <1>j DEF CallNext

-----------------------------------------------------------------------------
(* Type correctness *)

\* The variables that neither requests nor calls are kept in.
RestOK ==
  /\ tunnel \in [Tunnels -> {"new", "coming", "there", "gone"}]
  /\ route \in [Tunnels -> Paths \cup {NoPath}]
  /\ \A t \in Tunnels : tunnel[t] = "there" => route[t] # NoPath
  /\ stored \in [Tunnels -> [Hops -> PortsOrNone]]
  /\ bound \in [Tunnels -> Paths \cup {NoPath}]
  /\ entry \in [Tunnels -> Targets]
  /\ db \in Tasks \cup {None}
  /\ row \in [Hops -> [Tunnels -> Rows]]
  /\ svc \in [Hops -> [Tunnels -> PortsOrNone]]
  /\ chain \in [Hops -> [Tunnels -> Targets]]
  /\ requests \in 0..MaxRequests
  /\ faults \in 0..MaxFaults
  /\ trouble \subseteq Troubles

\* A command that works or fails keeps the counter and the history in bounds.
LEMMA LuckType ==
  ASSUME TypeOK, Works \/ Fails
  PROVE  faults' \in 0..MaxFaults /\ trouble' \subseteq Troubles
<1>1. CASE Works
  BY <1>1 DEF Works, TypeOK
<1>2. CASE Fails
  <2>1. faults \in Nat /\ faults < MaxFaults /\ faults' = faults + 1
    BY <1>2, Assumed DEF Fails, TypeOK, Assumptions
  <2>2. faults' \in 0..MaxFaults
    BY <2>1, Assumed DEF Assumptions
  <2>3. trouble' \subseteq Troubles
    BY <1>2 DEF Fails, TypeOK, Troubles
  <2> QED
    BY <2>2, <2>3
<1> QED
  BY <1>1, <1>2

LEMMA TaskRest ==
  ASSUME TypeOK, NEW k \in Tasks, TaskNext(k)
  PROVE  RestOK'
<1>2. task[k] \in Task
  BY TaskAtWork
<1>3. /\ task[k].tunnel \in Tunnels /\ task[k].port \in [Hops -> PortsOrNone]
      /\ task[k].path \in Paths /\ task[k].path # NoPath /\ First(task[k].path) \in Hops
  BY <1>2, TaskFacts, PathFacts
<1>4. /\ 0 \in PortsOrNone /\ NoTarget \in Targets /\ NoPorts \in [Hops -> PortsOrNone]
      /\ [hop |-> First(task[k].path), port |-> task[k].port[First(task[k].path)]] \in Targets
  BY <1>3, TargetTypes
<1> USE DEF TypeOK, RestOK, consumerVars, nodeVars, countVars
<1>a. CASE Unchain(k)
  <2>1. faults' \in 0..MaxFaults /\ trouble' \subseteq Troubles
    BY <1>a, LuckType DEF Unchain
  <2>2. entry' \in [Tunnels -> Targets]
    BY <1>a, <1>3, <1>4 DEF Unchain
  <2> QED
    BY <1>a, <2>1, <2>2 DEF Unchain
<1>b. CASE List(k)
  BY <1>b DEF List
<1>c. CASE Released(k)
  BY <1>c DEF Released
<1>d. CASE Drop(k)
  BY <1>d DEF Drop
<1>e. CASE Cascade(k)
  BY <1>e, <1>3, <1>4 DEF Cascade
<1>f. CASE Begin(k)
  BY <1>f DEF Begin
<1>g. CASE BeginRefused(k)
  BY <1>g DEF BeginRefused
<1>h. CASE Reserved(k)
  BY <1>h DEF Reserved
<1>z. CASE DialFails(k)
  BY <1>z DEF DialFails, Troubles
<1>i. CASE ReserveAgain(k)
  BY <1>i DEF ReserveAgain
<1>j. CASE ReserveFails(k)
  BY <1>j DEF ReserveFails
<1>k. CASE Applied(k)
  BY <1>k DEF Applied
<1>l. CASE ApplyFails(k)
  BY <1>l DEF ApplyFails
<1>m. CASE Undo(k)
  BY <1>m DEF Undo
<1>n. CASE Store(k)
  BY <1>n, <1>3 DEF Store
<1>o. CASE Conflict(k)
  BY <1>o DEF Conflict, Troubles
<1>p. CASE Entry(k)
  <2>1. faults' \in 0..MaxFaults /\ trouble' \subseteq Troubles
    BY <1>p, LuckType DEF Entry
  <2>2. PICK new \in Targets :
          new = [hop |-> First(task[k].path), port |-> task[k].port[First(task[k].path)]]
    BY <1>4
  <2>3. [entry EXCEPT ![task[k].tunnel] = IF @ = NoTarget THEN new ELSE @] \in [Tunnels -> Targets]
    BY <1>3
  <2>4. entry' \in {entry, [entry EXCEPT ![task[k].tunnel] = IF @ = NoTarget THEN new ELSE @]}
    BY <1>p, <2>2 DEF Entry
  <2>5. entry' \in [Tunnels -> Targets]
    BY <2>3, <2>4
  <2> QED
    BY <1>p, <2>1, <2>5 DEF Entry
<1>q. CASE End(k)
  BY <1>q DEF End
<1> QED
  BY <1>a, <1>b, <1>c, <1>d, <1>e, <1>f, <1>g, <1>h, <1>z, <1>i, <1>j, <1>k, <1>l, <1>m,
     <1>n, <1>o, <1>p, <1>q DEF TaskNext

LEMMA CallRest ==
  ASSUME TypeOK, NEW c \in calls, CallNext(c)
  PROVE  RestOK'
<1>1. c \in Call
  BY DEF TypeOK
<1>2. c.hop \in Hops /\ c.tunnel \in Tunnels /\ c.port \in PortsOrNone
      /\ c.target \in Targets
  BY <1>1 DEF Call
<1>3. 0 \in PortsOrNone
  BY Assumed DEF PortsOrNone, Assumptions
<1>4. /\ [status |-> 1, applied |-> 0, port |-> c.port] \in Rows
      /\ [status |-> 1, applied |-> 1, port |-> c.port] \in Rows
  BY <1>2 DEF Rows
<1>5. RowOf(c) \in Rows
  BY <1>2 DEF RowOf, TypeOK
<1>6. [RowOf(c) EXCEPT !.status = 0] \in Rows
  BY <1>5 DEF Rows
<1> USE DEF TypeOK, RestOK, consumerVars, nodeVars, countVars
<1>a. CASE ReserveRead(c)
  BY <1>a DEF ReserveRead
<1>b. CASE ReserveWrite(c)
  <2>1. trouble' \subseteq Troubles
    BY <1>b DEF ReserveWrite, Troubles
  <2>2. row' = row \/ SetRow(c, [status |-> 1, applied |-> 0, port |-> c.port])
    BY <1>b DEF ReserveWrite
  <2>3. row' \in [Hops -> [Tunnels -> Rows]]
    <3>1. CASE row' = row
      BY <3>1
    <3>2. CASE SetRow(c, [status |-> 1, applied |-> 0, port |-> c.port])
      BY <1>2, <1>4, <3>2 DEF SetRow
    <3> QED
      BY <2>2, <3>1, <3>2
  <2> QED
    BY <1>b, <2>1, <2>3 DEF ReserveWrite
<1>c. CASE ApplyRead(c)
  BY <1>c DEF ApplyRead
<1>d. CASE AddChain(c)
  <2>1. faults' \in 0..MaxFaults /\ trouble' \subseteq Troubles
    BY <1>d, LuckType DEF AddChain
  <2>2. [chain EXCEPT ![c.hop][c.tunnel] = IF @ = NoTarget THEN c.target ELSE @]
          \in [Hops -> [Tunnels -> Targets]]
    BY <1>2
  <2>3. chain' \in [Hops -> [Tunnels -> Targets]]
    BY <1>d, <2>2 DEF AddChain
  <2> QED
    BY <1>d, <2>1, <2>3 DEF AddChain
<1>e. CASE AddService(c)
  <2>1. faults' \in 0..MaxFaults /\ trouble' \subseteq Troubles
    BY <1>e, LuckType DEF AddService
  <2>2. [svc EXCEPT ![c.hop][c.tunnel] = IF @ = 0 THEN c.port ELSE @]
          \in [Hops -> [Tunnels -> PortsOrNone]]
    BY <1>2
  <2>3. svc' \in {svc, [svc EXCEPT ![c.hop][c.tunnel] = IF @ = 0 THEN c.port ELSE @]}
    BY <1>e DEF AddService
  <2> QED
    BY <1>e, <2>1, <2>2, <2>3 DEF AddService
<1>f. CASE ApplyWrite(c)
  BY <1>f, <1>2, <1>4 DEF ApplyWrite, SetRow
<1>g. CASE ReleaseRead(c)
  BY <1>g DEF ReleaseRead
<1>h. CASE DeleteService(c)
  <2>1. faults' \in 0..MaxFaults /\ trouble' \subseteq Troubles
    BY <1>h, LuckType DEF DeleteService
  <2>2. svc' \in [Hops -> [Tunnels -> PortsOrNone]]
    <3>1. CASE svc' = svc
      BY <3>1
    <3>2. CASE svc' = [svc EXCEPT ![c.hop][c.tunnel] = 0]
      BY <1>2, <1>3, <3>2
    <3> QED
      BY <1>h, <3>1, <3>2 DEF DeleteService
  <2> QED
    BY <1>h, <2>1, <2>2 DEF DeleteService
<1>i. CASE Mark(c)
  BY <1>i, <1>2, <1>6 DEF Mark, SetRow
<1>j. CASE DeleteChain(c)
  <2>1. faults' \in 0..MaxFaults /\ trouble' \subseteq Troubles
    BY <1>j, LuckType DEF DeleteChain
  <2>2. [chain EXCEPT ![c.hop][c.tunnel] = NoTarget] \in [Hops -> [Tunnels -> Targets]]
    BY <1>2, TargetTypes
  <2>3. chain' \in {chain, [chain EXCEPT ![c.hop][c.tunnel] = NoTarget]}
    BY <1>j DEF DeleteChain
  <2> QED
    BY <1>j, <2>1, <2>2, <2>3 DEF DeleteChain
<1> QED
  BY <1>a, <1>b, <1>c, <1>d, <1>e, <1>f, <1>g, <1>h, <1>i, <1>j DEF CallNext

\* The beginning of a request is a move from rest.
Starts(k, t) ==
  \E x \in Task : x.tunnel = t /\ task' = [task EXCEPT ![k] = x]

LEMMA BeginsStarts ==
  ASSUME TypeOK, NEW k \in Tasks, NEW op \in Ops, NEW t \in Tunnels,
         NEW step \in {"begin", "unchain"}, NEW path \in Paths,
         NEW ports \in [Hops -> PortsOrNone], Begins(k, op, t, step, path, ports)
  PROVE  /\ Starts(k, t) /\ calls' = calls /\ row' = row /\ task[k] = Idle
         /\ trouble' = trouble \cup
              (IF \E j \in Tasks : task[j] # Idle /\ task[j].tunnel = t THEN {"met"} ELSE {})
         /\ requests' \in 0..MaxRequests
         /\ UNCHANGED <<route, stored, bound, entry, db, svc, chain, faults>>
<1> DEFINE x == [pc |-> step, op |-> op, tunnel |-> t, path |-> path, done |-> 0, port |-> ports,
                 todo |-> NoPath, left |-> 0, then |-> "end"]
<1>1. Len(path) \in Nat /\ Len(path) > 0 /\ Len(NoPath) = 0
  BY PathFacts, NoPathFacts
<1>2. x \in Task /\ x.tunnel = t
  BY <1>1 DEF Task, Steps
<1>3. task' = [task EXCEPT ![k] = x]
  BY DEF Begins
<1>4. Starts(k, t)
  BY <1>2, <1>3 DEF Starts
<1>5. requests' \in 0..MaxRequests
  BY Assumed DEF Begins, TypeOK, Assumptions
<1> QED
  BY <1>4, <1>5 DEF Begins, nodeVars

\* The four kinds of requests.
Request(k, t) ==
  TunnelCreate(k, t) \/ TunnelUpdate(k, t) \/ TunnelRedeploy(k, t) \/ TunnelDelete(k, t)

LEMMA RequestBegins ==
  ASSUME TypeOK, NEW k \in Tasks, NEW t \in Tunnels, Request(k, t)
  PROVE  \E op \in Ops, step \in {"begin", "unchain"}, path \in Paths,
            ports \in [Hops -> PortsOrNone] :
           /\ Begins(k, op, t, step, path, ports)
           /\ IF op = "create"
              THEN /\ step = "begin" /\ tunnel[t] = "new"
                   /\ tunnel' = [tunnel EXCEPT ![t] = "coming"]
              ELSE step = "unchain" /\ tunnel[t] = "there" /\ tunnel' = tunnel
<1>1. /\ NoPorts \in [Hops -> PortsOrNone]
      /\ \A path \in Paths : Wishes(path) \subseteq [Hops -> PortsOrNone]
  BY TargetTypes DEF Wishes
<1>2. tunnel[t] = "there" => route[t] \in Paths
  BY DEF TypeOK
<1>3. CASE TunnelCreate(k, t)
  BY <1>1, <1>3 DEF TunnelCreate, Ops
<1>4. CASE TunnelUpdate(k, t)
  BY <1>1, <1>4 DEF TunnelUpdate, Ops
<1>5. CASE TunnelRedeploy(k, t)
  BY <1>1, <1>2, <1>5 DEF TunnelRedeploy, Ops
<1>6. CASE TunnelDelete(k, t)
  BY <1>1, <1>2, <1>6 DEF TunnelDelete, Ops
<1> QED
  BY <1>3, <1>4, <1>5, <1>6 DEF Request

LEMMA RequestStarts ==
  ASSUME TypeOK, NEW k \in Tasks, NEW t \in Tunnels, Request(k, t)
  PROVE  /\ Starts(k, t) /\ calls' = calls /\ row' = row /\ task[k] = Idle
         /\ trouble' = trouble \cup
              (IF \E j \in Tasks : task[j] # Idle /\ task[j].tunnel = t THEN {"met"} ELSE {})
         /\ RestOK'
<1>1. PICK op \in Ops, step \in {"begin", "unchain"}, path \in Paths,
           ports \in [Hops -> PortsOrNone] :
        /\ Begins(k, op, t, step, path, ports)
        /\ tunnel' = tunnel \/ tunnel' = [tunnel EXCEPT ![t] = "coming"]
  BY RequestBegins
<1>2. /\ Starts(k, t) /\ calls' = calls /\ row' = row /\ task[k] = Idle
      /\ trouble' = trouble \cup
           (IF \E j \in Tasks : task[j] # Idle /\ task[j].tunnel = t THEN {"met"} ELSE {})
      /\ requests' \in 0..MaxRequests
      /\ UNCHANGED <<route, stored, bound, entry, db, svc, chain, faults>>
  BY <1>1, BeginsStarts
<1>3. /\ tunnel' \in [Tunnels -> {"new", "coming", "there", "gone"}]
      /\ \A u \in Tunnels : tunnel'[u] = "there" => route[u] # NoPath
  BY <1>1 DEF TypeOK
<1>4. trouble' \subseteq Troubles
  BY <1>2 DEF TypeOK, Troubles
<1> QED
  BY <1>2, <1>3, <1>4 DEF RestOK, TypeOK

\* A call that is lost leaves itself, failed, and perhaps a stray.
LEMMA LosesCalls ==
  ASSUME TypeOK, NEW c \in calls, Loses(c)
  PROVE  /\ calls' \subseteq Call /\ task' = task /\ RestOK'
         /\ "lost" \in trouble' /\ trouble \subseteq trouble'
<1>1. c \in Call
  BY DEF TypeOK
<1>2. [c EXCEPT !.by = None] \in Call /\ [c EXCEPT !.pc = "error"] \in Call
  BY <1>1 DEF Call, CallSteps
<1>3. PICK strays \in {{}, {[c EXCEPT !.by = None]}} :
        calls' = (calls \ {c}) \cup strays \cup {[c EXCEPT !.pc = "error"]}
  BY DEF Loses
<1>4. calls' \subseteq Call
  BY <1>2, <1>3 DEF TypeOK
<1>5. RestOK'
  BY Assumed DEF Loses, TypeOK, RestOK, consumerVars, nodeVars, Troubles, Assumptions
<1> QED
  BY <1>4, <1>5 DEF Loses

LEMMA InitTypeOK == Init => TypeOK
BY Assumed, TargetTypes DEF Init, TypeOK, NoRow, Rows, PortsOrNone, Assumptions

LEMMA NextTypeOK == TypeOK /\ [Next]_vars => TypeOK'
<1> SUFFICES ASSUME TypeOK, [Next]_vars PROVE TypeOK'
  OBVIOUS
<1> SUFFICES /\ task' \in [Tasks -> Task \cup {Idle}] /\ calls' \subseteq Call
             /\ RestOK'
  BY DEF TypeOK, RestOK
<1>1. ASSUME NEW k \in Tasks, NEW t \in Tunnels, Request(k, t)
      PROVE  task' \in [Tasks -> Task \cup {Idle}] /\ calls' \subseteq Call /\ RestOK'
  <2>1. Starts(k, t) /\ calls' = calls /\ RestOK'
    BY <1>1, RequestStarts
  <2> QED
    BY <2>1 DEF Starts, TypeOK
<1>2. ASSUME NEW k \in Tasks, TaskNext(k), ~End(k)
      PROVE  task' \in [Tasks -> Task \cup {Idle}] /\ calls' \subseteq Call /\ RestOK'
  <2>1. Moves(k) /\ RestOK'
    BY <1>2, TaskMoves, TaskRest
  <2> QED
    BY <2>1 DEF Moves, NewFor, TypeOK
<1>3. ASSUME NEW k \in Tasks, End(k)
      PROVE  task' \in [Tasks -> Task \cup {Idle}] /\ calls' \subseteq Call /\ RestOK'
  <2>1. RestOK'
    BY <1>3, TaskRest DEF TaskNext
  <2> QED
    BY <1>3, <2>1 DEF End, TypeOK
<1>4. ASSUME NEW c \in calls, CallNext(c)
      PROVE  task' \in [Tasks -> Task \cup {Idle}] /\ calls' \subseteq Call /\ RestOK'
  <2>1. Proceeds(c) /\ task' = task /\ RestOK'
    BY <1>4, CallMoves, CallRest
  <2> QED
    BY <2>1 DEF Proceeds, TypeOK
<1>5. ASSUME NEW c \in calls, Loses(c)
      PROVE  task' \in [Tasks -> Task \cup {Idle}] /\ calls' \subseteq Call /\ RestOK'
  BY <1>5, LosesCalls DEF TypeOK
<1>6. CASE UNCHANGED vars
  BY <1>6 DEF vars, consumerVars, nodeVars, countVars, TypeOK, RestOK
<1> QED
  BY <1>1, <1>2, <1>3, <1>4, <1>5, <1>6 DEF Next, Request

\* Every variable keeps its type.
THEOREM SpecTypeOK == Spec => []TypeOK
<1>1. Init => TypeOK
  BY InitTypeOK
<1>2. TypeOK /\ [Next]_vars => TypeOK'
  BY NextTypeOK
<1> QED
  BY <1>1, <1>2, PTL DEF Spec

-----------------------------------------------------------------------------
(* No port is held twice *)

\* While no two requests met on a tunnel and no answer was lost, each call is
\* one of a request at work on its tunnel, which has no other, and no other
\* request works on that tunnel.
Lone ==
  Spared({"met", "lost"}) =>
    /\ \A c \in calls : c.by \in Tasks /\ task[c.by] # Idle /\ task[c.by].tunnel = c.tunnel
    /\ \A c, d \in calls : c.by = d.by => c = d
    /\ \A j, k \in Tasks :
         task[j] # Idle /\ task[k] # Idle /\ task[j].tunnel = task[k].tunnel => j = k

\* What an apply has read of its row still holds when it writes it back.
Applying ==
  Spared({"met", "lost"}) =>
    \A c \in calls : c.kind = "apply" /\ c.pc \in {"chain", "service", "write"} =>
      RowOf(c).status = 1 /\ RowOf(c).port = c.port

\* A port that was picked is still free when it is written down.
Picked ==
  Spared({"met", "raced", "lost"}) =>
    \A c \in calls : CallAt(c, "reserve", "write") => c.port \in FreePorts(c.hop)

IInv == TypeOK /\ Lone /\ Applying /\ Picked /\ PortsDistinct

LEMMA InitIInv == Init => IInv
<1> SUFFICES ASSUME Init PROVE IInv
  OBVIOUS
<1>1. TypeOK
  BY InitTypeOK
<1>2. \A h \in Hops, t \in Tunnels : row[h][t].status = 0
  BY DEF Init, NoRow
<1>3. calls = {} /\ \A k \in Tasks : task[k] = Idle
  BY DEF Init
<1>4. PortsDistinct
  BY <1>2 DEF PortsDistinct
<1> QED
  BY <1>1, <1>3, <1>4 DEF IInv, Lone, Applying, Picked

\* Steps of requests write no rows and forget no trouble.
LEMMA TaskKeeps ==
  ASSUME NEW k \in Tasks, TaskNext(k)
  PROVE  row' = row /\ trouble \subseteq trouble'
<1> USE DEF consumerVars, nodeVars, countVars
<1>1. CASE Unchain(k) \/ Entry(k)
  BY <1>1 DEF Unchain, Entry, Works, Fails
<1>2. CASE List(k) \/ Released(k) \/ Drop(k) \/ Cascade(k) \/ Begin(k) \/ BeginRefused(k)
  BY <1>2 DEF List, Released, Drop, Cascade, Begin, BeginRefused
<1>3. CASE Reserved(k) \/ ReserveAgain(k) \/ ReserveFails(k) \/ Applied(k) \/ ApplyFails(k)
  BY <1>3 DEF Reserved, ReserveAgain, ReserveFails, Applied, ApplyFails
<1>4. CASE DialFails(k) \/ Undo(k) \/ Store(k) \/ Conflict(k) \/ End(k)
  BY <1>4 DEF DialFails, Undo, Store, Conflict, End
<1> QED
  BY <1>1, <1>2, <1>3, <1>4 DEF TaskNext

\* Where nothing is written and calls only go or begin, all but Lone holds on.
LEMMA Unwritten ==
  ASSUME IInv, TypeOK', row' = row, trouble \subseteq trouble',
         \A c \in calls' : c \in calls \/ c.pc = "new"
  PROVE  Applying' /\ Picked' /\ PortsDistinct'
<1>1. Applying'
  BY DEF IInv, Applying, Spared, RowOf
<1>2. Picked'
  BY DEF IInv, Picked, Spared, CallAt, FreePorts
<1>3. PortsDistinct'
  BY DEF IInv, PortsDistinct, Spared
<1> QED
  BY <1>1, <1>2, <1>3

LEMMA RequestIInv ==
  ASSUME IInv, TypeOK', NEW k \in Tasks, NEW t \in Tunnels, Request(k, t)
  PROVE  IInv'
<1>1. /\ Starts(k, t) /\ calls' = calls /\ row' = row /\ task[k] = Idle
      /\ trouble' = trouble \cup
           (IF \E j \in Tasks : task[j] # Idle /\ task[j].tunnel = t THEN {"met"} ELSE {})
  BY RequestStarts DEF IInv
<1>2. Lone'
  <2> SUFFICES ASSUME Spared({"met", "lost"})' PROVE Lone'
    BY DEF Lone
  <2>1. Spared({"met", "lost"}) /\ \A j \in Tasks : task[j] # Idle => task[j].tunnel # t
    BY <1>1 DEF Spared
  <2>2. /\ task'[k].tunnel = t
        /\ \A j \in Tasks : j # k => task'[j] = task[j]
    BY <1>1 DEF Starts, IInv, TypeOK
  <2>3. /\ \A c \in calls : c.by \in Tasks /\ task[c.by] # Idle /\ task[c.by].tunnel = c.tunnel
        /\ \A c, d \in calls : c.by = d.by => c = d
        /\ \A i, j \in Tasks :
             task[i] # Idle /\ task[j] # Idle /\ task[i].tunnel = task[j].tunnel => i = j
    BY <2>1 DEF IInv, Lone
  <2>4. \A c \in calls' : c.by # k
    BY <1>1, <2>3
  <2>5. \A c \in calls' : c.by \in Tasks /\ task'[c.by] # Idle /\ task'[c.by].tunnel = c.tunnel
    BY <1>1, <2>2, <2>3, <2>4
  <2>6. \A i, j \in Tasks :
          task'[i] # Idle /\ task'[j] # Idle /\ task'[i].tunnel = task'[j].tunnel => i = j
    BY <2>1, <2>2, <2>3
  <2> QED
    BY <1>1, <2>3, <2>5, <2>6 DEF Lone
<1>3. Applying' /\ Picked' /\ PortsDistinct'
  BY <1>1, Unwritten
<1> QED
  BY <1>2, <1>3 DEF IInv

LEMMA TaskIInv ==
  ASSUME IInv, TypeOK', NEW k \in Tasks, TaskNext(k)
  PROVE  IInv'
<1>1. row' = row /\ trouble \subseteq trouble'
  BY TaskKeeps
<1>2. CASE End(k)
  <2>1. calls' = calls \ Mine(k) /\ task' = [task EXCEPT ![k] = Idle]
    BY <1>2 DEF End
  <2>2. task'[k] = Idle /\ \A j \in Tasks : j # k => task'[j] = task[j]
    BY <2>1 DEF IInv, TypeOK
  <2>3. \A c \in calls' : c \in calls /\ c.by # k
    BY <2>1 DEF Mine
  <2>4. Lone'
    BY <1>1, <2>2, <2>3 DEF IInv, Lone, Spared
  <2>5. Applying' /\ Picked' /\ PortsDistinct'
    BY <1>1, <2>3, Unwritten
  <2> QED
    BY <2>4, <2>5 DEF IInv
<1>3. CASE ~End(k)
  <2>1. task[k] # Idle /\ Moves(k)
    BY <1>3, TaskMoves DEF IInv
  <2>2. PICK x \in Task : x.tunnel = task[k].tunnel /\ task' = [task EXCEPT ![k] = x]
    BY <2>1 DEF Moves
  <2>3. task'[k].tunnel = task[k].tunnel /\ \A j \in Tasks : j # k => task'[j] = task[j]
    BY <2>2 DEF IInv, TypeOK
  <2>4. task'[k] # Idle
    <3>1. task'[k] = x
      BY <2>2 DEF IInv, TypeOK
    <3> QED
      BY <3>1 DEF Task, Idle, Steps
  <2>5. \/ calls' \subseteq calls
        \/ \E n : NewFor(k, n) /\ calls' = (calls \ Mine(k)) \cup {n}
    BY <2>1 DEF Moves
  <2>6. \A c \in calls' : c \in calls \/ c.pc = "new"
    BY <2>5 DEF NewFor
  <2>7. Lone'
    <3> SUFFICES ASSUME Spared({"met", "lost"})' PROVE Lone'
      BY DEF Lone
    <3>1. /\ \A c \in calls : c.by \in Tasks /\ task[c.by] # Idle
                             /\ task[c.by].tunnel = c.tunnel
          /\ \A c, d \in calls : c.by = d.by => c = d
          /\ \A i, j \in Tasks :
               task[i] # Idle /\ task[j] # Idle /\ task[i].tunnel = task[j].tunnel => i = j
      BY <1>1 DEF IInv, Lone, Spared
    <3>2. \A i, j \in Tasks :
            task'[i] # Idle /\ task'[j] # Idle /\ task'[i].tunnel = task'[j].tunnel => i = j
      BY <2>1, <2>3, <3>1
    <3>3. CASE calls' \subseteq calls
      <4>1. \A c \in calls' : c.by \in Tasks /\ task'[c.by] # Idle
                             /\ task'[c.by].tunnel = c.tunnel
        BY <2>3, <2>4, <3>1, <3>3
      <4> QED
        BY <3>1, <3>2, <3>3, <4>1 DEF Lone
    <3>4. ASSUME NEW n, NewFor(k, n), calls' = (calls \ Mine(k)) \cup {n}
          PROVE  Lone'
      <4>1. n.by = k /\ n.tunnel = task[k].tunnel
        BY <3>4 DEF NewFor
      <4>2. \A c \in calls' : c = n \/ (c \in calls /\ c.by # k)
        BY <3>4 DEF Mine
      <4>3. \A c \in calls' : c.by \in Tasks /\ task'[c.by] # Idle
                             /\ task'[c.by].tunnel = c.tunnel
        BY <2>3, <2>4, <3>1, <4>1, <4>2
      <4>4. \A c, d \in calls' : c.by = d.by => c = d
        BY <3>1, <4>1, <4>2
      <4> QED
        BY <3>2, <4>3, <4>4 DEF Lone
    <3> QED
      BY <2>5, <3>3, <3>4
  <2> QED
    BY <1>1, <2>6, <2>7, Unwritten DEF IInv
<1> QED
  BY <1>2, <1>3

\* After a step of a call, the rows of a hop hold no port they did not hold.
Calm(h) ==
  \A t \in Tunnels : row'[h][t].status = 1 =>
    row[h][t].status = 1 /\ row'[h][t].port = row[h][t].port

\* A call writes its own row only.
LEMMA OtherRows ==
  ASSUME TypeOK, NEW c \in calls, CallNext(c), NEW h \in Hops, NEW t \in Tunnels,
         h # c.hop \/ t # c.tunnel
  PROVE  row'[h][t] = row[h][t]
<1>1. row' = row \/ \E r : SetRow(c, r)
  BY DEF CallNext, ReserveRead, ReserveWrite, ApplyRead, AddChain, AddService, ApplyWrite,
         ReleaseRead, DeleteService, Mark, DeleteChain
<1>2. CASE row' = row
  BY <1>2
<1>3. ASSUME NEW r, SetRow(c, r) PROVE row'[h][t] = row[h][t]
  BY <1>3 DEF SetRow, TypeOK
<1> QED
  BY <1>1, <1>2, <1>3

\* Only the second step of a reservation takes a port.
LEMMA CallCalm ==
  ASSUME IInv, Spared({"met", "lost"}), NEW c \in calls, CallNext(c), NEW h \in Hops,
         ~(ReserveWrite(c) /\ c.hop = h)
  PROVE  Calm(h)
<1>1. c \in Call /\ c.hop \in Hops /\ c.tunnel \in Tunnels
  BY DEF IInv, TypeOK, Call
<1>2. CASE row' = row
  BY <1>2 DEF Calm
<1>3. CASE c.hop # h
  BY <1>3, OtherRows DEF IInv, Calm
<1>4. CASE ApplyWrite(c) /\ c.hop = h
  <2>1. row'[h][c.tunnel] = [status |-> 1, applied |-> 1, port |-> c.port]
    BY <1>1, <1>4 DEF ApplyWrite, SetRow, IInv, TypeOK
  <2>2. row[h][c.tunnel].status = 1 /\ row[h][c.tunnel].port = c.port
    BY <1>4 DEF ApplyWrite, CallAt, IInv, Applying, RowOf
  <2> QED
    BY <2>1, <2>2, OtherRows DEF IInv, Calm
<1>5. CASE Mark(c) /\ c.hop = h
  <2>1. row'[h][c.tunnel] = [row[h][c.tunnel] EXCEPT !.status = 0]
    BY <1>1, <1>5 DEF Mark, SetRow, RowOf, IInv, TypeOK
  <2>2. row[h][c.tunnel] \in Rows
    BY <1>1 DEF IInv, TypeOK
  <2>3. row'[h][c.tunnel].status = 0
    BY <2>1, <2>2 DEF Rows
  <2> QED
    BY <2>3, OtherRows DEF IInv, Calm
<1> QED
  BY <1>2, <1>3, <1>4, <1>5
     DEF CallNext, ReserveRead, ReserveWrite, ApplyRead, AddChain, AddService, ApplyWrite,
         ReleaseRead, DeleteService, Mark, DeleteChain

\* A port stays free where no port is taken.
LEMMA CalmFree ==
  ASSUME NEW h \in Hops, Calm(h)
  PROVE  FreePorts(h) \subseteq FreePorts(h)'
BY DEF Calm, FreePorts

\* No step of a call but a loss forgets trouble.
LEMMA CallKeeps ==
  ASSUME NEW c \in calls, CallNext(c)
  PROVE  trouble \subseteq trouble'
BY DEF CallNext, ReserveRead, ReserveWrite, ApplyRead, AddChain, AddService, ApplyWrite,
       ReleaseRead, DeleteService, Mark, DeleteChain, Works, Fails, countVars

\* An apply that goes on has just read its row, or keeps what it read.
LEMMA ApplyGoesOn ==
  ASSUME TypeOK, NEW c \in calls, CallNext(c), NEW e \in calls', e \notin calls \ {c},
         e.kind = "apply", e.pc \in {"chain", "service", "write"}
  PROVE  /\ row' = row /\ e.hop = c.hop /\ e.tunnel = c.tunnel
         /\ \/ c.kind = "apply" /\ c.pc \in {"chain", "service", "write"} /\ e.port = c.port
            \/ RowOf(c).status = 1 /\ e.port = RowOf(c).port
<1>1. c \in Call
  BY DEF TypeOK
<1>2. \A d : Becomes(c, d) => e = d
  BY DEF Becomes
<1>a. CASE ReserveRead(c) \/ ReserveWrite(c)
  <2>1. c.kind = "reserve"
    BY <1>a DEF ReserveRead, ReserveWrite, CallAt
  <2>2. e.kind = c.kind
    BY <1>1, <1>2, <1>a DEF ReserveRead, ReserveWrite, Call
  <2> QED
    BY <2>1, <2>2
<1>b. CASE ReleaseRead(c) \/ DeleteService(c) \/ Mark(c)
  <2>1. c.kind = "release"
    BY <1>b DEF ReleaseRead, DeleteService, Mark, CallAt
  <2>2. e.kind = c.kind
    BY <1>1, <1>2, <1>b DEF ReleaseRead, DeleteService, Mark, Call
  <2> QED
    BY <2>1, <2>2
<1>c. CASE ApplyRead(c)
  BY <1>c, <1>1, <1>2 DEF ApplyRead, Call
<1>d. CASE AddChain(c)
  BY <1>d, <1>1, <1>2 DEF AddChain, CallAt, Call
<1>e. CASE AddService(c)
  BY <1>e, <1>1, <1>2 DEF AddService, CallAt, Call
<1>f. CASE ApplyWrite(c) \/ DeleteChain(c)
  BY <1>f, <1>1, <1>2 DEF ApplyWrite, DeleteChain, Call
<1> QED
  BY <1>a, <1>b, <1>c, <1>d, <1>e, <1>f DEF CallNext

\* A reservation that goes to its second step has just picked a free port.
LEMMA ReserveGoesOn ==
  ASSUME TypeOK, NEW c \in calls, CallNext(c), NEW e \in calls', e \notin calls \ {c},
         CallAt(e, "reserve", "write")
  PROVE  row' = row /\ e.hop = c.hop /\ e.port \in FreePorts(c.hop)
<1>1. c \in Call
  BY DEF TypeOK
<1>2. \A d : Becomes(c, d) => e = d
  BY DEF Becomes
<1>a. CASE ReserveRead(c)
  <2>1. PICK p \in Picks(c) : e = [c EXCEPT !.pc = "write", !.port = p,
                                            !.found = RowOf(c) # NoRow]
    BY <1>a, <1>1, <1>2 DEF ReserveRead, CallAt, Call
  <2>2. e.hop = c.hop /\ e.port = p
    BY <1>1, <2>1 DEF Call
  <2> QED
    BY <1>a, <1>1, <2>1, <2>2, PicksFree DEF ReserveRead
<1>b. CASE ReserveWrite(c) \/ ApplyWrite(c) \/ Mark(c) \/ DeleteChain(c) \/ ReleaseRead(c)
           \/ DeleteService(c)
  BY <1>b, <1>1, <1>2
     DEF ReserveWrite, ApplyWrite, Mark, DeleteChain, ReleaseRead, DeleteService, CallAt, Call
<1>c. CASE ApplyRead(c) \/ AddChain(c) \/ AddService(c)
  BY <1>c, <1>1, <1>2 DEF ApplyRead, AddChain, AddService, CallAt, Call
<1> QED
  BY <1>a, <1>b, <1>c DEF CallNext

LEMMA CallIInv ==
  ASSUME IInv, TypeOK', NEW c \in calls, CallNext(c)
  PROVE  IInv'
<1>1. trouble \subseteq trouble'
  BY CallKeeps
<1>2. Proceeds(c) /\ task' = task
  BY CallMoves DEF IInv
<1>3. Lone'
  <2>1. PICK d \in Call :
          /\ d.by = c.by /\ d.kind = c.kind /\ d.hop = c.hop /\ d.tunnel = c.tunnel
          /\ d.pc # "new"
          /\ calls' \subseteq (calls \ {c}) \cup {d}
    BY <1>2 DEF Proceeds
  <2> QED
    BY <1>1, <1>2, <2>1 DEF IInv, Lone, Spared
<1>4. Applying'
  <2> SUFFICES ASSUME Spared({"met", "lost"})', NEW e \in calls', e.kind = "apply",
                      e.pc \in {"chain", "service", "write"}
               PROVE  (RowOf(e).status = 1)' /\ (RowOf(e).port)' = e.port
    BY DEF Applying
  <2>1. Spared({"met", "lost"})
    BY <1>1 DEF Spared
  <2>2. CASE e \in calls \ {c}
    <3>1. e.tunnel # c.tunnel
      BY <2>1, <2>2 DEF IInv, Lone
    <3>2. e.hop \in Hops /\ e.tunnel \in Tunnels
      BY <2>2 DEF IInv, TypeOK, Call
    <3>3. row'[e.hop][e.tunnel] = row[e.hop][e.tunnel]
      BY <3>1, <3>2, OtherRows DEF IInv
    <3>4. row[e.hop][e.tunnel].status = 1 /\ row[e.hop][e.tunnel].port = e.port
      BY <2>1, <2>2 DEF IInv, Applying, RowOf
    <3> QED
      BY <3>3, <3>4 DEF RowOf
  <2>3. CASE e \notin calls \ {c}
    <3>1. /\ row' = row /\ e.hop = c.hop /\ e.tunnel = c.tunnel
          /\ \/ c.kind = "apply" /\ c.pc \in {"chain", "service", "write"} /\ e.port = c.port
             \/ RowOf(c).status = 1 /\ e.port = RowOf(c).port
      BY <2>3, ApplyGoesOn DEF IInv
    <3>2. RowOf(c).status = 1 /\ e.port = RowOf(c).port
      BY <2>1, <3>1 DEF IInv, Applying
    <3> QED
      BY <3>1, <3>2 DEF RowOf
  <2> QED
    BY <2>2, <2>3
<1>5. ASSUME Spared({"met", "raced", "lost"})'
      PROVE  /\ Spared({"met", "raced", "lost"}) /\ Spared({"met", "lost"})
             /\ ReserveWrite(c) => ~Racing(c)
  BY <1>1, <1>5 DEF Spared, ReserveWrite
<1>6. Picked'
  <2> SUFFICES ASSUME Spared({"met", "raced", "lost"})', NEW e \in calls',
                      CallAt(e, "reserve", "write")
               PROVE  e.port \in FreePorts(e.hop)'
    BY DEF Picked, CallAt
  <2>0. e.hop \in Hops
    BY DEF TypeOK, Call
  <2>1. CASE e \in calls \ {c}
    <3>1. e.port \in FreePorts(e.hop)
      BY <1>5, <2>1 DEF IInv, Picked
    <3>2. ~(ReserveWrite(c) /\ c.hop = e.hop)
      BY <1>5, <2>1 DEF Racing
    <3>3. Calm(e.hop)
      BY <1>5, <2>0, <3>2, CallCalm
    <3> QED
      BY <2>0, <3>1, <3>3, CalmFree
  <2>2. CASE e \notin calls \ {c}
    <3>1. row' = row /\ e.hop = c.hop /\ e.port \in FreePorts(c.hop)
      BY <2>2, ReserveGoesOn DEF IInv
    <3> QED
      BY <3>1 DEF FreePorts
  <2> QED
    BY <2>1, <2>2
<1>7. PortsDistinct'
  <2> SUFFICES ASSUME Spared({"met", "raced", "lost"})', NEW h \in Hops,
                      NEW t \in Tunnels, NEW u \in Tunnels,
                      row'[h][t].status = 1, row'[h][u].status = 1,
                      row'[h][t].port = row'[h][u].port
               PROVE  t = u
    BY DEF PortsDistinct
  <2>1. \A v, w \in Tunnels :
          row[h][v].status = 1 /\ row[h][w].status = 1 /\ row[h][v].port = row[h][w].port
            => v = w
    BY <1>5 DEF IInv, PortsDistinct
  <2>2. CASE ~(ReserveWrite(c) /\ c.hop = h)
    <3>1. Calm(h)
      BY <1>5, <2>2, CallCalm
    <3> QED
      BY <2>1, <3>1 DEF Calm
  <2>3. CASE ReserveWrite(c) /\ c.hop = h
    <3>1. c.port \in FreePorts(h)
      BY <1>5, <2>3 DEF ReserveWrite, IInv, Picked
    <3>2. \A v \in Tunnels : row[h][v].status = 1 => row[h][v].port # c.port
      BY <3>1 DEF FreePorts
    <3>3. row'[h][c.tunnel] = row[h][c.tunnel] \/ row'[h][c.tunnel].port = c.port
      BY <2>3 DEF ReserveWrite, SetRow, IInv, TypeOK, Call
    <3>4. \A v \in Tunnels : v # c.tunnel => row'[h][v] = row[h][v]
      BY OtherRows DEF IInv
    <3> QED
      BY <2>1, <3>2, <3>3, <3>4
  <2> QED
    BY <2>2, <2>3
<1> QED
  BY <1>3, <1>4, <1>6, <1>7 DEF IInv

LEMMA LosesIInv ==
  ASSUME IInv, TypeOK', NEW c \in calls, Loses(c)
  PROVE  IInv'
<1>1. "lost" \in trouble'
  BY LosesCalls DEF IInv
<1> QED
  BY <1>1 DEF IInv, Lone, Applying, Picked, PortsDistinct, Spared

LEMMA NextIInv == IInv /\ [Next]_vars => IInv'
<1> SUFFICES ASSUME IInv, [Next]_vars PROVE IInv'
  OBVIOUS
<1>1. TypeOK'
  BY NextTypeOK DEF IInv
<1>2. ASSUME NEW k \in Tasks, NEW t \in Tunnels, Request(k, t) PROVE IInv'
  BY <1>1, <1>2, RequestIInv
<1>3. ASSUME NEW k \in Tasks, TaskNext(k) PROVE IInv'
  BY <1>1, <1>3, TaskIInv
<1>4. ASSUME NEW c \in calls, CallNext(c) PROVE IInv'
  BY <1>1, <1>4, CallIInv
<1>5. ASSUME NEW c \in calls, Loses(c) PROVE IInv'
  BY <1>1, <1>5, LosesIInv
<1>6. CASE UNCHANGED vars
  <2>1. UNCHANGED <<task, calls, row, trouble>>
    BY <1>6 DEF vars, countVars
  <2> QED
    BY <1>1, <2>1
       DEF IInv, Lone, Applying, Picked, PortsDistinct, Spared, RowOf, CallAt, FreePorts
<1> QED
  BY <1>2, <1>3, <1>4, <1>5, <1>6 DEF Next, Request

\* At every moment a port of a share is held by one tunnel only, unless two
\* requests met on a tunnel, two calls picked at once or an answer was lost.
THEOREM SpecPortsDistinct == Spec => []PortsDistinct
<1>1. Init => IInv
  BY InitIInv
<1>2. IInv /\ [Next]_vars => IInv'
  BY NextIInv
<1>3. IInv => PortsDistinct
  BY DEF IInv
<1> QED
  BY <1>1, <1>2, <1>3, PTL DEF Spec
-----------------------------------------------------------------------------
(* A tunnel at rest is whole, and nothing else is left *)

\* What both properties of tunnels at rest except, and what one of them does.
Smooth == Spared({"met", "lost", "command", "conflict"})

Lucky == Spared({"raced", "dial"})

\* The states of a hop that no call is at work on, if it is not served: nothing
\* is left of it, or its port is reserved still.
Out(h, t) == row[h][t].status = 0 /\ svc[h][t] = 0 /\ chain[h][t] = NoTarget

Held(h, t) ==
  /\ row[h][t].status = 1 /\ row[h][t].applied = 0
  /\ svc[h][t] = 0 /\ chain[h][t] = NoTarget

Freed(h, t) == IF Lucky THEN Out(h, t) ELSE Out(h, t) \/ Held(h, t)

\* What the hop at place i of a path is to dial.
ToDial(t, p, i) == IF i = 1 THEN NoTarget ELSE Address(t, p[i - 1])

Stands(t, p, i) == Served(t, p[i]) /\ chain[p[i]][t] = ToDial(t, p, i)

\* The first n hops of a path stand, and nothing is left of any other hop but
\* maybe the next one, which is at work; or of that one neither.
Around(t, p, n) ==
  /\ \A i \in 1..n : Stands(t, p, i)
  /\ \A h \in Hops : (\A i \in 1..(n + 1) : h # p[i]) => Freed(h, t)

UpTo(t, p, n) ==
  /\ \A i \in 1..n : Stands(t, p, i)
  /\ \A h \in Hops : (\A i \in 1..n : h # p[i]) => Freed(h, t)

\* Everything the bindings name stands.
Standing(t, p) == bound[t] = p /\ UpTo(t, p, Len(p))

\* A tunnel no request is halfway with.
Sound(t) ==
  \E p \in Paths \cup {NoPath} :
    /\ Standing(t, p)
    /\ IF p = NoPath THEN entry[t] = NoTarget
       ELSE tunnel[t] = "there" /\ route[t] = p /\ entry[t] = Address(t, First(p))

\* How far a reservation for tunnel t is.
ReserveOK(c, t) ==
  /\ c.kind = "reserve" /\ c.pc \in {"new", "write", "error", "ok"}
  /\ c.pc = "new" => Freed(c.hop, t)
  /\ c.pc \in {"write", "error"} => Out(c.hop, t)
  /\ c.pc = "write" => c.port > 0 /\ (c.found <=> row[c.hop][t] # NoRow)
  /\ c.pc = "ok" => Held(c.hop, t) /\ c.port = row[c.hop][t].port

\* How far the application of a role is.
Unapplied(c, t) == row[c.hop][t].status = 1 /\ row[c.hop][t].applied = 0

ApplyOK(c, t) ==
  /\ c.kind = "apply"
  /\ c.pc \in {"new", "chain", "service", "write", "unchain", "error", "ok"}
  /\ c.hop \in Exits => c.target = NoTarget /\ c.pc \notin {"chain", "unchain"}
  /\ c.pc \in {"new", "chain", "error"} => Held(c.hop, t)
  /\ c.pc \in {"service", "write", "unchain"} => Unapplied(c, t)
  /\ c.pc \in {"service", "unchain"} => svc[c.hop][t] = 0
  /\ c.pc = "write" => svc[c.hop][t] = row[c.hop][t].port
  /\ c.pc = "ok" => Served(t, c.hop)
  /\ c.pc \in {"service", "write", "ok"} => chain[c.hop][t] = c.target
  /\ c.pc \in {"chain", "service", "write", "ok"} => c.port = row[c.hop][t].port
  /\ c.pc \in {"unchain", "error"} => ~Lucky

\* How far a release is.
ReleaseOK(c, t) ==
  /\ c.kind = "release" /\ c.pc \in {"new", "delete", "delchain", "mark", "ok"}
  /\ c.hop \in Exits => chain[c.hop][t] = NoTarget /\ c.pc # "delchain"
  /\ c.pc \in {"new", "delete"} => Served(t, c.hop)
  /\ c.pc \in {"delchain", "mark"} => svc[c.hop][t] = 0
  /\ c.pc = "mark" => chain[c.hop][t] = NoTarget
  /\ c.pc = "ok" => Out(c.hop, t)

\* The request knows the ports of the hops that stand.
Known(x, t) == \A i \in 1..x.done : x.port[x.path[i]] = row[x.path[i]][t].port

\* What a request x with calls C, at one of its steps, knows of its tunnel t.
Releasing(x, C, t) ==
  /\ x.left > 0
  /\ Around(t, x.todo, x.left - 1)
  /\ \A c \in C : ReleaseOK(c, t) /\ c.hop = x.todo[x.left]

SettingUp(x, C, t) ==
  /\ x.then = "end"
  /\ Around(t, x.path, x.done) /\ Known(x, t)
  /\ \A c \in C : c.hop = x.path[x.done + 1]
  /\ x.pc = "reserving" => \A c \in C : ReserveOK(c, t)
  /\ x.pc = "applying" => \A c \in C : ApplyOK(c, t) /\ c.target = ToDial(t, x.path, x.done + 1)

SetUp(x, t) == x.done = Len(x.path) /\ UpTo(t, x.path, x.done) /\ Known(x, t)

\* Where the bindings and the rows of its tunnel are.
RowsOK(x, t) ==
  /\ x.op # "create" => tunnel[t] = "there" \/ (x.pc = "end" /\ tunnel[t] = "gone")
  /\ x.pc \in {"begin", "reserving", "applying", "store"} => bound[t] = NoPath
  /\ x.pc \in {"undo", "releasing"} =>
       x.then \in {"end", "drop", "cascade"} /\ (x.then = "end" => bound[t] = NoPath)
  /\ x.pc = "entry" => bound[t] = x.path /\ route[t] = x.path /\ tunnel[t] = "there"
  /\ x.op = "redeploy" /\ x.pc \in {"reserving", "applying", "store"} => x.path = route[t]
  /\ x.pc \in {"unchain", "list", "begin"} => x.done = 0
  /\ x.pc \notin {"unchain", "end"} => entry[t] = NoTarget

Working(x, C, t) ==
  /\ RowsOK(x, t)
  /\ x.pc \notin {"releasing", "reserving", "applying"} => C = {}
  /\ x.pc \in {"unchain", "end"} => Sound(t)
  /\ x.pc = "list" => \E p \in Paths \cup {NoPath} : Standing(t, p)
  /\ x.pc = "releasing" => Releasing(x, C, t)
  /\ x.pc \in {"drop", "begin", "cascade"} => UpTo(t, NoPath, 0)
  /\ x.pc \in {"reserving", "applying"} => SettingUp(x, C, t)
  /\ x.pc = "undo" => UpTo(t, x.path, x.done)
  /\ x.pc \in {"store", "entry"} => SetUp(x, t)

\* A request k at work on tunnel t, as it is now.
AtWork(k, t, x, C) == task[k] = x /\ x \in Task /\ x.tunnel = t /\ Mine(k) = C

\* No request is at work on it.
Unworked(t) == \A k \in Tasks : task[k] # Idle => task[k].tunnel # t

\* An active row has a port, and a service runs on the port of an active row.
Ported ==
  \A h \in Hops, t \in Tunnels :
    /\ row[h][t].status = 1 => row[h][t].port > 0
    /\ svc[h][t] # 0 => row[h][t].status = 1 /\ svc[h][t] = row[h][t].port

\* What holds of every tunnel and request while nothing is excepted.
Tunnelled ==
  /\ Ported
  /\ \A t \in Tunnels : Unworked(t) => Sound(t) /\ tunnel[t] # "coming"
  /\ \A k \in Tasks, t \in Tunnels : \A x, C : AtWork(k, t, x, C) => Working(x, C, t)

TunnelInv == Smooth => Tunnelled

\* The next hop of a path is a hop, and none of those before it.
LEMMA NextHop ==
  ASSUME NEW p \in Paths, NEW n \in Nat, n < Len(p)
  PROVE  /\ n + 1 \in 1..Len(p) /\ p[n + 1] \in Hops
         /\ \A i \in 1..n : i \in 1..Len(p) /\ p[i] \in Hops /\ p[i] # p[n + 1]
         /\ p[n + 1] \in Exits <=> n = 0
<1>1. Len(p) \in Nat /\ n + 1 \in 1..Len(p) /\ \A i \in 1..n : i \in 1..Len(p) /\ i # n + 1
  BY PathFacts
<1>2. /\ \A i \in 1..Len(p) : p[i] \in Hops /\ (p[i] \in Exits <=> i = 1)
      /\ \A i, j \in 1..Len(p) : p[i] = p[j] => i = j
  BY PathFacts
<1>3. (n + 1 = 1) <=> (n = 0)
  OBVIOUS
<1> QED
  BY <1>1, <1>2, <1>3

\* The hops up to the next one, and the next one.
LEMMA UpToAround ==
  ASSUME NEW t \in Tunnels, NEW p \in Paths, NEW n \in Nat, n < Len(p), UpTo(t, p, n)
  PROVE  Around(t, p, n) /\ Freed(p[n + 1], t)
<1>1. 1..n \subseteq 1..(n + 1)
  OBVIOUS
<1> QED
  BY <1>1, NextHop DEF UpTo, Around

LEMMA AroundStands ==
  ASSUME NEW t \in Tunnels, NEW p \in Paths, NEW n \in Nat, Around(t, p, n),
         Stands(t, p, n + 1)
  PROVE  UpTo(t, p, n + 1)
<1>1. \A i \in 1..(n + 1) : i \in 1..n \/ i = n + 1
  OBVIOUS
<1> QED
  BY <1>1 DEF UpTo, Around

LEMMA AroundFreed ==
  ASSUME NEW t \in Tunnels, NEW p \in Paths, NEW n \in Nat, Around(t, p, n),
         Freed(p[n + 1], t)
  PROVE  UpTo(t, p, n)
<1>1. \A i \in 1..(n + 1) : i \in 1..n \/ i = n + 1
  OBVIOUS
<1> QED
  BY <1>1 DEF UpTo, Around

LEMMA UpToLast ==
  ASSUME NEW t \in Tunnels, NEW p \in Paths, NEW n \in Nat, n > 0, UpTo(t, p, n)
  PROVE  Around(t, p, n - 1) /\ Stands(t, p, n)
<1>1. n \in 1..n /\ 1..(n - 1) \subseteq 1..n /\ (n - 1) + 1 = n
  OBVIOUS
<1> QED
  BY <1>1 DEF UpTo, Around

\* Where no hop is to stand, the path does not matter.
LEMMA UpToNone ==
  ASSUME NEW t \in Tunnels, NEW p, NEW q, UpTo(t, p, 0)
  PROVE  UpTo(t, q, 0)
<1>1. \A i \in 1..0 : FALSE
  OBVIOUS
<1> QED
  BY <1>1 DEF UpTo

\* Nothing is written at a hop, for a tunnel, or at any.
Kept(h, t) == row'[h][t] = row[h][t] /\ svc'[h][t] = svc[h][t] /\ chain'[h][t] = chain[h][t]

Unwrought(t) == (\A h \in Hops : Kept(h, t)) /\ trouble \subseteq trouble'

\* Then what holds of the hop holds on.
LEMMA HopKept ==
  ASSUME NEW h \in Hops, NEW t \in Tunnels, Kept(h, t), trouble \subseteq trouble'
  PROVE  /\ Out(h, t)' <=> Out(h, t)
         /\ Held(h, t)' <=> Held(h, t)
         /\ Served(t, h)' <=> Served(t, h)
         /\ Freed(h, t) => Freed(h, t)'
         /\ Lucky' => Lucky
         /\ Address(t, h)' = Address(t, h)
<1>1. /\ Out(h, t)' <=> Out(h, t)
      /\ Held(h, t)' <=> Held(h, t)
      /\ Served(t, h)' <=> Served(t, h)
      /\ Address(t, h)' = Address(t, h)
  BY DEF Kept, Out, Held, Served, Address
<1>2. Lucky' => Lucky
  BY DEF Lucky, Spared
<1>3. Freed(h, t) => Freed(h, t)'
  BY <1>1, <1>2 DEF Freed
<1> QED
  BY <1>1, <1>2, <1>3

LEMMA DialKept ==
  ASSUME NEW t \in Tunnels, NEW p \in Paths, NEW i \in 1..Len(p),
         i # 1 => Kept(p[i - 1], t)
  PROVE  ToDial(t, p, i)' = ToDial(t, p, i)
BY DEF ToDial, Address, Kept

\* What stands on a path stands on, where only the hop at work is written to.
LEMMA AroundKept ==
  ASSUME NEW t \in Tunnels, NEW p \in Paths, NEW n \in Nat, n < Len(p), trouble \subseteq trouble',
         \A h \in Hops : h # p[n + 1] => Kept(h, t), Around(t, p, n)
  PROVE  Around(t, p, n)' /\ ToDial(t, p, n + 1)' = ToDial(t, p, n + 1)
<1>1. /\ n + 1 \in 1..Len(p)
      /\ \A i \in 1..n : i \in 1..Len(p) /\ p[i] \in Hops /\ Kept(p[i], t)
  BY NextHop
<1>2. \A i \in 1..(n + 1) : i # 1 => i - 1 \in 1..n
  OBVIOUS
<1>3. \A i \in 1..(n + 1) : i \in 1..Len(p) => ToDial(t, p, i)' = ToDial(t, p, i)
  BY <1>1, <1>2, DialKept
<1>4. ASSUME NEW i \in 1..n PROVE Stands(t, p, i)'
  <2>1. Stands(t, p, i) /\ i \in 1..Len(p) /\ i \in 1..(n + 1) /\ p[i] \in Hops /\ Kept(p[i], t)
    BY <1>1 DEF Around
  <2>2. Served(t, p[i])' /\ chain'[p[i]][t] = chain[p[i]][t]
    BY <2>1, HopKept DEF Stands, Kept
  <2> QED
    BY <1>3, <2>1, <2>2 DEF Stands
<1>5. ASSUME NEW h \in Hops, \A i \in 1..(n + 1) : h # p[i] PROVE Freed(h, t)'
  <2>1. Freed(h, t) /\ Kept(h, t)
    BY <1>5 DEF Around
  <2> QED
    BY <2>1, HopKept
<1>6. n + 1 \in 1..(n + 1)
  OBVIOUS
<1> QED
  BY <1>1, <1>3, <1>4, <1>5, <1>6 DEF Around

\* And all the more where nothing is.
LEMMA UpToKept ==
  ASSUME NEW t \in Tunnels, NEW p \in Paths \cup {NoPath}, NEW n \in Nat, n <= Len(p), Unwrought(t),
         UpTo(t, p, n)
  PROVE  UpTo(t, p, n)'
<1>1. ASSUME NEW i \in 1..n PROVE Stands(t, p, i)'
  <2>1. p \in Paths /\ Len(p) \in Nat
    BY PathFacts, NoPathFacts
  <2>2. i \in 1..Len(p) /\ (i # 1 => i - 1 \in 1..Len(p))
    BY <2>1
  <2>3. p[i] \in Hops /\ Kept(p[i], t) /\ (i # 1 => Kept(p[i - 1], t))
    BY <2>1, <2>2, PathFacts DEF Unwrought
  <2>4. ToDial(t, p, i)' = ToDial(t, p, i)
    BY <2>1, <2>2, <2>3, DialKept
  <2>5. Served(t, p[i]) /\ chain[p[i]][t] = ToDial(t, p, i)
    BY DEF UpTo, Stands
  <2>6. Served(t, p[i])' /\ chain'[p[i]][t] = chain[p[i]][t]
    BY <2>3, <2>5, HopKept DEF Kept, Unwrought
  <2> QED
    BY <2>4, <2>5, <2>6 DEF Stands
<1>2. ASSUME NEW h \in Hops, \A i \in 1..n : h # p[i] PROVE Freed(h, t)'
  <2>1. Freed(h, t) /\ Kept(h, t)
    BY <1>2 DEF UpTo, Unwrought
  <2> QED
    BY <2>1, HopKept DEF Unwrought
<1> QED
  BY <1>1, <1>2 DEF UpTo

\* Everywhere, for the paths requests are on.
LEMMA PathsKept ==
  ASSUME NEW t \in Tunnels, Unwrought(t)
  PROVE  /\ \A p \in Paths \cup {NoPath}, n \in Nat :
              n <= Len(p) /\ UpTo(t, p, n) => UpTo(t, p, n)'
         /\ \A p \in Paths, n \in Nat :
              n < Len(p) => /\ Around(t, p, n) => Around(t, p, n)'
                            /\ ToDial(t, p, n + 1)' = ToDial(t, p, n + 1)
<1>1. ASSUME NEW p \in Paths, NEW n \in Nat, n < Len(p)
      PROVE  ToDial(t, p, n + 1)' = ToDial(t, p, n + 1)
  <2>1. n + 1 \in 1..Len(p) /\ (n + 1 # 1 => p[(n + 1) - 1] \in Hops)
    <3>1. n + 1 # 1 => n \in 1..n /\ (n + 1) - 1 = n
      OBVIOUS
    <3> QED
      BY <1>1, <3>1, NextHop
  <2> QED
    BY <2>1, DialKept DEF Unwrought
<1>2. \A p \in Paths, n \in Nat : n < Len(p) /\ Around(t, p, n) => Around(t, p, n)'
  BY AroundKept DEF Unwrought
<1> QED
  BY <1>1, <1>2, UpToKept

\* What a request's next call is one of: none, the one it has, or a new one.
LEMMA MineNext ==
  ASSUME NEW k \in Tasks
  PROVE  /\ calls' = calls => Mine(k)' = Mine(k)
         /\ calls' = calls \ Mine(k) => Mine(k)' = {}
         /\ \A n : n.by = k /\ calls' = (calls \ Mine(k)) \cup {n} => Mine(k)' = {n}
BY DEF Mine

\* Requests write nothing at the providing panel or its nodes.
LEMMA TaskUnserving ==
  ASSUME NEW k \in Tasks, TaskNext(k)
  PROVE  row' = row /\ svc' = svc /\ chain' = chain /\ trouble \subseteq trouble'
<1> USE DEF consumerVars, nodeVars, countVars
<1>1. CASE Unchain(k) \/ Entry(k)
  BY <1>1 DEF Unchain, Entry, Works, Fails
<1>2. CASE List(k) \/ Released(k) \/ Drop(k) \/ Cascade(k) \/ Begin(k) \/ BeginRefused(k)
  BY <1>2 DEF List, Released, Drop, Cascade, Begin, BeginRefused
<1>3. CASE Reserved(k) \/ ReserveAgain(k) \/ ReserveFails(k) \/ Applied(k) \/ ApplyFails(k)
  BY <1>3 DEF Reserved, ReserveAgain, ReserveFails, Applied, ApplyFails
<1>4. CASE DialFails(k) \/ Undo(k) \/ Store(k) \/ Conflict(k) \/ End(k)
  BY <1>4 DEF DialFails, Undo, Store, Conflict, End
<1> QED
  BY <1>1, <1>2, <1>3, <1>4 DEF TaskNext

\* Where a request goes on to, if what it needs holds there.
Goes(k, t) == \E y, D : AtWork(k, t, y, D)' /\ Working(y, D, t)'

\* It goes to a step, and has no call.
LEMMA GotoNext ==
  ASSUME TypeOK, NEW k \in Tasks, NEW t, NEW x, NEW C, AtWork(k, t, x, C),
         NEW s \in Steps \ {"reserving", "applying", "releasing"}, Goto(k, s),
         (C = {} /\ calls' = calls) \/ calls' = calls \ Mine(k)
  PROVE  \E y : /\ AtWork(k, t, y, {})'
                /\ y.pc = s /\ y.op = x.op /\ y.path = x.path /\ y.done = x.done
                /\ y.port = x.port /\ y.then = x.then
<1>1. task[k] = x /\ x \in Task /\ x.tunnel = t /\ Mine(k) = C
  BY DEF AtWork
<1>2. PICK y : y = [x EXCEPT !.pc = s]
  OBVIOUS
<1>3. /\ y \in Task /\ y.tunnel = t
      /\ y.pc = s /\ y.op = x.op /\ y.path = x.path /\ y.done = x.done
      /\ y.port = x.port /\ y.then = x.then
  BY <1>1, <1>2 DEF Task
<1>4. task' = [task EXCEPT ![k] = y]
  BY <1>1, <1>2 DEF Goto
<1>5. task'[k] = y
  BY <1>4 DEF TypeOK
<1>6. Mine(k)' = {}
  BY <1>1, MineNext
<1> QED
  BY <1>3, <1>5, <1>6 DEF AtWork

\* It releases n hops that stand, or goes on when that is none.
Freeing(k, t, x, n, then) ==
  \E y, D :
    /\ AtWork(k, t, y, D)' /\ y.op = x.op /\ y.path = x.path /\ y.done = x.done
    /\ y.port = x.port /\ y.then = then
    /\ \/ n = 0 /\ y.pc = then /\ D = {} /\ UpTo(t, NoPath, 0)'
       \/ n > 0 /\ y.pc = "releasing" /\ Releasing(y, D, t)'

LEMMA ReleasesNext ==
  ASSUME TypeOK, NEW k \in Tasks, NEW t \in Tunnels, NEW x, NEW C, AtWork(k, t, x, C), Unwrought(t),
         NEW p \in Paths \cup {NoPath}, NEW n \in Nat, n <= Len(p),
         NEW then \in {"end", "drop", "begin", "cascade"}, Releases(k, p, n, then), UpTo(t, p, n)
  PROVE  Freeing(k, t, x, n, then)
<1>1. task[k] = x /\ x \in Task /\ x.tunnel = t
  BY DEF AtWork
<1>2. PICK y \in Task :
        /\ task' = [task EXCEPT ![k] = y]
        /\ y.tunnel = x.tunnel /\ y.op = x.op /\ y.path = x.path /\ y.done = x.done
        /\ y.port = x.port /\ y.todo = p /\ y.left = n /\ y.then = then
        /\ y.pc = IF n = 0 THEN then ELSE "releasing"
  BY <1>1, ReleasesTask
<1>3. task'[k] = y /\ y.tunnel = t
  BY <1>1, <1>2 DEF TypeOK
<1>4. CASE n = 0
  <2>1. calls' = calls \ Mine(k)
    BY <1>4 DEF Releases
  <2>2. Mine(k)' = {}
    BY <2>1, MineNext
  <2>3. UpTo(t, NoPath, 0)
    BY <1>4, UpToNone
  <2>4. UpTo(t, NoPath, 0)'
    BY <2>3, PathsKept, NoPathFacts
  <2>5. AtWork(k, t, y, {})' /\ y.pc = then
    BY <1>2, <1>3, <1>4, <2>2 DEF AtWork
  <2> QED
    BY <1>2, <1>4, <2>4, <2>5 DEF Freeing
<1>5. CASE n # 0
  <2>1. n > 0 /\ p \in Paths /\ Len(p) \in Nat /\ n - 1 \in Nat /\ n - 1 < Len(p) /\ n \in 1..Len(p)
    BY <1>5, PathFacts, NoPathFacts
  <2>2. Around(t, p, n - 1) /\ Stands(t, p, n)
    BY <2>1, UpToLast
  <2>3. Around(t, p, n - 1)'
    BY <2>1, <2>2, PathsKept
  <2>4. p[n] \in Hops /\ (p[n] \in Exits => n = 1)
    BY <2>1, PathFacts
  <2>5. PICK h \in Hops : h = p[n]
    BY <2>4
  <2>6. Served(t, h) /\ (h \in Exits => chain[h][t] = NoTarget)
    BY <2>2, <2>4, <2>5 DEF Stands, ToDial
  <2>7. Served(t, h)' /\ chain'[h][t] = chain[h][t]
    BY <2>6, HopKept DEF Unwrought, Kept
  <2>8. PICK c : c = NewCall(k, "release", h, 0, NoTarget)
    OBVIOUS
  <2>9. c.by = k /\ c.kind = "release" /\ c.hop = h /\ c.pc = "new"
    BY <2>8 DEF NewCall
  <2>10. Mine(k)' = {c}
    <3>1. calls' = (calls \ Mine(k)) \cup {c}
      BY <1>5, <2>5, <2>8 DEF Releases
    <3> QED
      BY <2>9, <3>1, MineNext
  <2>11. ReleaseOK(c, t)'
    BY <2>6, <2>7, <2>9 DEF ReleaseOK
  <2>12. Releasing(y, {c}, t)'
    BY <1>2, <2>1, <2>3, <2>5, <2>9, <2>11 DEF Releasing
  <2>13. AtWork(k, t, y, {c})' /\ y.pc = "releasing"
    BY <1>2, <1>3, <1>5, <2>10 DEF AtWork
  <2> QED
    BY <1>2, <2>1, <2>12, <2>13 DEF Freeing
<1> QED
  BY <1>4, <1>5

\* It reserves a port for the next hop after those that stand.
Reserving(k, t, x, p) ==
  \E y, D : /\ AtWork(k, t, y, D)' /\ y.op = x.op /\ y.path = p
            /\ y.pc = "reserving" /\ SettingUp(y, D, t)'

LEMMA ReservesNext ==
  ASSUME TypeOK, NEW k \in Tasks, NEW t \in Tunnels, NEW x, NEW C, AtWork(k, t, x, C), Unwrought(t),
         NEW p \in Paths, NEW n \in Nat, n < Len(p), NEW ports \in [Hops -> PortsOrNone],
         Reserves(k, p, n, ports), UpTo(t, p, n), \A i \in 1..n : ports[p[i]] = row[p[i]][t].port
  PROVE  Reserving(k, t, x, p)
<1>1. task[k] = x /\ x \in Task /\ x.tunnel = t
  BY DEF AtWork
<1>2. PICK y \in Task :
        /\ task' = [task EXCEPT ![k] = y]
        /\ y.tunnel = x.tunnel /\ y.op = x.op /\ y.path = p /\ y.done = n
        /\ y.port = ports /\ y.then = "end" /\ y.pc = "reserving"
  BY <1>1, ReservesTask
<1>3. task'[k] = y /\ y.tunnel = t
  BY <1>1, <1>2 DEF TypeOK
<1>4. /\ p[n + 1] \in Hops
      /\ \A i \in 1..n : p[i] \in Hops
  BY NextHop
<1>5. PICK h \in Hops : h = p[n + 1]
  BY <1>4
<1>6. Around(t, p, n)' /\ Freed(h, t)'
  <2>1. Around(t, p, n) /\ Freed(h, t)
    BY <1>5, UpToAround
  <2> QED
    BY <2>1, PathsKept, HopKept DEF Unwrought
<1>7. PICK c : c = NewCall(k, "reserve", h, ports[h], NoTarget)
  OBVIOUS
<1>8. c.by = k /\ c.kind = "reserve" /\ c.hop = h /\ c.pc = "new"
  BY <1>7 DEF NewCall
<1>9. Mine(k)' = {c}
  <2>1. calls' = (calls \ Mine(k)) \cup {c}
    BY <1>5, <1>7 DEF Reserves
  <2> QED
    BY <1>8, <2>1, MineNext
<1>10. ReserveOK(c, t)'
  BY <1>6, <1>8 DEF ReserveOK
<1>11. Known(y, t)'
  BY <1>2, <1>4 DEF Known, Unwrought, Kept
<1>12. SettingUp(y, {c}, t)'
  BY <1>2, <1>5, <1>6, <1>8, <1>10, <1>11 DEF SettingUp
<1>13. AtWork(k, t, y, {c})'
  BY <1>2, <1>3, <1>9 DEF AtWork
<1> QED
  BY <1>2, <1>12, <1>13 DEF Reserving

\* Steps of a request to which no hop matters: the entry is cleared, ...
LEMMA UnchainGoes ==
  ASSUME TypeOK, NEW k \in Tasks, NEW t \in Tunnels, NEW x, NEW C, AtWork(k, t, x, C),
         Working(x, C, t), Unwrought(t), Smooth', Unchain(k)
  PROVE  Goes(k, t)
<1>1. task[k] = x /\ x.tunnel = t /\ x.pc = "unchain"
  BY DEF AtWork, Unchain, At
<1>2. ~Fails
  BY DEF Fails, Smooth, Spared
<1>3. /\ Goto(k, "list") /\ tunnel' = tunnel /\ route' = route /\ bound' = bound /\ calls' = calls
      /\ entry' = IF tunnel[t] = "there" THEN [entry EXCEPT ![t] = NoTarget] ELSE entry
  BY <1>1, <1>2 DEF Unchain
<1>4. C = {} /\ RowsOK(x, t) /\ Sound(t)
  BY <1>1 DEF Working
<1>5. PICK p \in Paths \cup {NoPath} :
        /\ bound[t] = p /\ UpTo(t, p, Len(p))
        /\ IF p = NoPath THEN entry[t] = NoTarget ELSE tunnel[t] = "there"
  BY <1>4 DEF Sound, Standing
<1>6. entry'[t] = NoTarget
  BY <1>3, <1>5 DEF TypeOK
<1>7. PICK y : /\ AtWork(k, t, y, {})'
               /\ y.pc = "list" /\ y.op = x.op /\ y.path = x.path /\ y.done = x.done
  BY <1>3, <1>4, GotoNext DEF Steps
<1>8. UpTo(t, p, Len(p))'
  <2>1. Len(p) \in Nat /\ Len(p) <= Len(p)
    BY PathFacts, NoPathFacts
  <2> QED
    BY <1>5, <2>1, PathsKept
<1>9. RowsOK(y, t)'
  BY <1>1, <1>3, <1>4, <1>6, <1>7 DEF RowsOK
<1>10. \E q \in Paths \cup {NoPath} : Standing(t, q)'
  BY <1>3, <1>5, <1>8 DEF Standing
<1>11. Working(y, {}, t)'
  BY <1>7, <1>9, <1>10 DEF Working
<1> QED
  BY <1>7, <1>11 DEF Goes

\* ... the bindings are deleted, ...
LEMMA DropGoes ==
  ASSUME TypeOK, NEW k \in Tasks, NEW t \in Tunnels, NEW x, NEW C, AtWork(k, t, x, C),
         Working(x, C, t), Unwrought(t), Smooth', Drop(k)
  PROVE  Goes(k, t)
<1>1. task[k] = x /\ x.tunnel = t /\ x.pc = "drop"
  BY DEF AtWork, Drop, At
<1>2. PICK s \in {"begin", "cascade", "end"} :
        /\ s = IF x.done = 0 THEN AfterCleanup(k) ELSE "end"
        /\ s = "begin" => x.done = 0
  BY DEF AfterCleanup
<1>3. /\ Goto(k, s) /\ tunnel' = tunnel /\ route' = route /\ entry' = entry /\ calls' = calls
      /\ bound' = [bound EXCEPT ![t] = NoPath]
  BY <1>1, <1>2 DEF Drop
<1>4. C = {} /\ RowsOK(x, t) /\ UpTo(t, NoPath, 0)
  BY <1>1 DEF Working
<1>5. PICK y : /\ AtWork(k, t, y, {})'
               /\ y.pc = s /\ y.op = x.op /\ y.path = x.path /\ y.done = x.done
  BY <1>3, <1>4, GotoNext DEF Steps
<1>6. UpTo(t, NoPath, 0)' /\ bound'[t] = NoPath /\ entry'[t] = NoTarget
  <2>1. UpTo(t, NoPath, 0)'
    BY <1>4, PathsKept, NoPathFacts
  <2>2. bound'[t] = NoPath
    BY <1>3 DEF TypeOK
  <2>3. entry'[t] = NoTarget
    BY <1>1, <1>3, <1>4 DEF RowsOK
  <2> QED
    BY <2>1, <2>2, <2>3
<1>7. Sound(t)'
  BY <1>6, NoPathFacts DEF Sound, Standing
<1>8. RowsOK(y, t)'
  BY <1>1, <1>2, <1>3, <1>4, <1>5, <1>6 DEF RowsOK
<1>9. Working(y, {}, t)'
  BY <1>2, <1>5, <1>6, <1>7, <1>8 DEF Working
<1> QED
  BY <1>5, <1>9 DEF Goes

\* ... the tunnel's rows are, ...
LEMMA CascadeGoes ==
  ASSUME TypeOK, NEW k \in Tasks, NEW t \in Tunnels, NEW x, NEW C, AtWork(k, t, x, C),
         Working(x, C, t), Unwrought(t), Smooth', Cascade(k)
  PROVE  Goes(k, t)
<1>1. task[k] = x /\ x.tunnel = t /\ x.pc = "cascade"
  BY DEF AtWork, Cascade, At
<1>2. /\ Goto(k, "end") /\ entry' = entry /\ calls' = calls
      /\ bound' = [bound EXCEPT ![t] = NoPath] /\ tunnel' = [tunnel EXCEPT ![t] = "gone"]
  BY <1>1 DEF Cascade
<1>3. C = {} /\ RowsOK(x, t) /\ UpTo(t, NoPath, 0)
  BY <1>1 DEF Working
<1>4. PICK y : AtWork(k, t, y, {})' /\ y.pc = "end" /\ y.op = x.op
  BY <1>2, <1>3, GotoNext DEF Steps
<1>5. UpTo(t, NoPath, 0)'
  BY <1>3, PathsKept, NoPathFacts
<1>6. bound'[t] = NoPath /\ tunnel'[t] = "gone"
  BY <1>2 DEF TypeOK
<1>7. entry'[t] = NoTarget
  BY <1>1, <1>2, <1>3 DEF RowsOK
<1>8. Sound(t)'
  BY <1>5, <1>6, <1>7, NoPathFacts DEF Sound, Standing
<1>9. RowsOK(y, t)'
  BY <1>4, <1>6 DEF RowsOK
<1>10. Working(y, {}, t)'
  BY <1>4, <1>8, <1>9 DEF Working
<1> QED
  BY <1>4, <1>10 DEF Goes

\* ... or the request is refused.
LEMMA BeginRefusedGoes ==
  ASSUME TypeOK, NEW k \in Tasks, NEW t \in Tunnels, NEW x, NEW C, AtWork(k, t, x, C),
         Working(x, C, t), Unwrought(t), Smooth', BeginRefused(k)
  PROVE  Goes(k, t)
<1>1. task[k] = x /\ x.tunnel = t /\ x.pc = "begin"
  BY DEF AtWork, BeginRefused, At
<1>2. /\ Goto(k, "end") /\ entry' = entry /\ calls' = calls /\ bound' = bound
      /\ tunnel' = tunnel /\ route' = route
  BY <1>1 DEF BeginRefused, consumerVars
<1>3. C = {} /\ RowsOK(x, t) /\ UpTo(t, NoPath, 0)
  BY <1>1 DEF Working
<1>4. PICK y : AtWork(k, t, y, {})' /\ y.pc = "end" /\ y.op = x.op
  BY <1>2, <1>3, GotoNext DEF Steps
<1>5. UpTo(t, NoPath, 0)'
  BY <1>3, PathsKept, NoPathFacts
<1>6. bound'[t] = NoPath /\ entry'[t] = NoTarget
  BY <1>1, <1>2, <1>3 DEF RowsOK
<1>7. Sound(t)'
  BY <1>5, <1>6, NoPathFacts DEF Sound, Standing
<1>8. RowsOK(y, t)'
  BY <1>1, <1>2, <1>3, <1>4 DEF RowsOK
<1>9. Working(y, {}, t)'
  BY <1>4, <1>7, <1>8 DEF Working
<1> QED
  BY <1>4, <1>9 DEF Goes

\* Hops are released: those the bindings name, ...
LEMMA ListGoes ==
  ASSUME TypeOK, NEW k \in Tasks, NEW t \in Tunnels, NEW x, NEW C, AtWork(k, t, x, C),
         Working(x, C, t), Unwrought(t), Smooth', List(k)
  PROVE  Goes(k, t)
<1>1. task[k] = x /\ x.tunnel = t /\ x.pc = "list"
  BY DEF AtWork, List, At
<1>2. RowsOK(x, t) /\ \E p \in Paths \cup {NoPath} : Standing(t, p)
  BY <1>1 DEF Working
<1>3. PICK p \in Paths \cup {NoPath} : bound[t] = p /\ UpTo(t, p, Len(p))
  BY <1>2 DEF Standing
<1>4. PICK then \in {"begin", "cascade", "drop"} :
        then = IF p = NoPath THEN AfterCleanup(k) ELSE "drop"
  BY DEF AfterCleanup
<1>5. Releases(k, p, Len(p), then) /\ UNCHANGED <<tunnel, route, bound, entry>>
  BY <1>1, <1>3, <1>4 DEF List, consumerVars
<1>6. Len(p) \in Nat /\ Len(p) <= Len(p) /\ (Len(p) = 0 <=> p = NoPath)
  BY PathFacts, NoPathFacts
<1>7. PICK y, D :
        /\ AtWork(k, t, y, D)' /\ y.op = x.op /\ y.path = x.path /\ y.done = x.done
        /\ y.port = x.port /\ y.then = then
        /\ \/ Len(p) = 0 /\ y.pc = then /\ D = {} /\ UpTo(t, NoPath, 0)'
           \/ Len(p) > 0 /\ y.pc = "releasing" /\ Releasing(y, D, t)'
  <2>1. Freeing(k, t, x, Len(p), then)
    BY <1>3, <1>5, <1>6, ReleasesNext
  <2> QED
    BY <2>1 DEF Freeing
<1>8. entry[t] = NoTarget /\ x.done = 0 /\ (x.op # "create" => tunnel[t] = "there")
  BY <1>1, <1>2 DEF RowsOK
<1>9. RowsOK(y, t)'
  BY <1>3, <1>4, <1>5, <1>6, <1>7, <1>8 DEF RowsOK
<1>10. Working(y, D, t)'
  BY <1>4, <1>6, <1>7, <1>9 DEF Working
<1> QED
  BY <1>7, <1>10 DEF Goes

\* ... the next one, ...
LEMMA ReleasedGoes ==
  ASSUME TypeOK, NEW k \in Tasks, NEW t \in Tunnels, NEW x, NEW C, AtWork(k, t, x, C),
         Working(x, C, t), Unwrought(t), Smooth', Released(k)
  PROVE  Goes(k, t)
<1>1. task[k] = x /\ x.tunnel = t /\ x.pc = "releasing" /\ x \in Task /\ Mine(k) = C
  BY DEF AtWork, Released, At
<1>2. RowsOK(x, t) /\ Releasing(x, C, t)
  BY <1>1 DEF Working
<1>3. PICK c \in C : Ended(c)
  BY <1>1 DEF Released
<1>4. /\ x.left \in 1..Len(x.todo) /\ x.todo \in Paths /\ x.left \in Nat
      /\ x.then \in {"end", "drop", "begin", "cascade"}
  BY <1>1, TaskFacts
<1>5. PICK p \in Paths, n \in Nat, then \in {"end", "drop", "begin", "cascade"} :
        p = x.todo /\ n = x.left - 1 /\ then = x.then
  BY <1>4
<1>6. n < Len(p) /\ n <= Len(p) /\ n + 1 = x.left
  BY <1>4, <1>5, PathFacts
<1>7. Around(t, p, n) /\ Freed(p[n + 1], t)
  <2>1. ReleaseOK(c, t) /\ c.hop = p[n + 1] /\ Around(t, p, n)
    BY <1>2, <1>3, <1>5, <1>6 DEF Releasing
  <2>2. Out(p[n + 1], t)
    BY <1>3, <2>1 DEF ReleaseOK, Ended
  <2> QED
    BY <2>1, <2>2 DEF Freed
<1>8. UpTo(t, p, n)
  BY <1>7, AroundFreed
<1>9. Releases(k, p, n, then) /\ UNCHANGED <<tunnel, route, bound, entry>>
  BY <1>1, <1>5 DEF Released, consumerVars
<1>10. PICK y, D :
        /\ AtWork(k, t, y, D)' /\ y.op = x.op /\ y.path = x.path /\ y.done = x.done
        /\ y.port = x.port /\ y.then = then
        /\ \/ n = 0 /\ y.pc = then /\ D = {} /\ UpTo(t, NoPath, 0)'
           \/ n > 0 /\ y.pc = "releasing" /\ Releasing(y, D, t)'
  <2>1. Freeing(k, t, x, n, then)
    BY <1>6, <1>8, <1>9, ReleasesNext
  <2> QED
    BY <2>1 DEF Freeing
<1>11. /\ entry[t] = NoTarget /\ (x.op # "create" => tunnel[t] = "there")
       /\ x.then \in {"end", "drop", "cascade"} /\ (x.then = "end" => bound[t] = NoPath)
  BY <1>1, <1>2 DEF RowsOK
<1>12. RowsOK(y, t)'
  BY <1>5, <1>9, <1>10, <1>11 DEF RowsOK
<1>13. y.pc = "end" => Sound(t)'
  BY <1>5, <1>9, <1>10, <1>11, NoPathFacts DEF Sound, Standing
<1>14. Working(y, D, t)'
  BY <1>5, <1>10, <1>11, <1>12, <1>13 DEF Working
<1> QED
  BY <1>10, <1>14 DEF Goes

\* ... or those that were set up.
LEMMA UndoGoes ==
  ASSUME TypeOK, NEW k \in Tasks, NEW t \in Tunnels, NEW x, NEW C, AtWork(k, t, x, C),
         Working(x, C, t), Unwrought(t), Smooth', Undo(k)
  PROVE  Goes(k, t)
<1>1. task[k] = x /\ x.tunnel = t /\ x.pc = "undo" /\ x \in Task
  BY DEF AtWork, Undo, At
<1>2. RowsOK(x, t) /\ UpTo(t, x.path, x.done)
  BY <1>1 DEF Working
<1>3. /\ x.path \in Paths /\ x.done \in Nat /\ x.done <= Len(x.path)
      /\ x.then \in {"end", "drop", "begin", "cascade"}
  BY <1>1, TaskFacts
<1>a. PICK p \in Paths, n \in Nat, then \in {"end", "drop", "begin", "cascade"} :
        p = x.path /\ n = x.done /\ then = x.then
  BY <1>3
<1>4. Releases(k, p, n, then) /\ UNCHANGED <<tunnel, route, bound, entry>>
  BY <1>1, <1>a DEF Undo, consumerVars
<1>5. PICK y, D :
        /\ AtWork(k, t, y, D)' /\ y.op = x.op /\ y.path = x.path /\ y.done = x.done
        /\ y.port = x.port /\ y.then = then
        /\ \/ n = 0 /\ y.pc = then /\ D = {} /\ UpTo(t, NoPath, 0)'
           \/ n > 0 /\ y.pc = "releasing" /\ Releasing(y, D, t)'
  <2>1. UpTo(t, p, n) /\ n <= Len(p)
    BY <1>2, <1>3, <1>a
  <2>2. Freeing(k, t, x, n, then)
    BY <1>4, <2>1, ReleasesNext
  <2> QED
    BY <2>2 DEF Freeing
<1>6. /\ entry[t] = NoTarget /\ (x.op # "create" => tunnel[t] = "there")
      /\ x.then \in {"end", "drop", "cascade"} /\ (x.then = "end" => bound[t] = NoPath)
  BY <1>1, <1>2 DEF RowsOK
<1>7. RowsOK(y, t)'
  BY <1>a, <1>4, <1>5, <1>6 DEF RowsOK
<1>8. y.pc = "end" => Sound(t)'
  BY <1>a, <1>4, <1>5, <1>6, NoPathFacts DEF Sound, Standing
<1>9. Working(y, D, t)'
  BY <1>a, <1>5, <1>6, <1>7, <1>8 DEF Working
<1> QED
  BY <1>5, <1>9 DEF Goes

\* Hops are set up, from the first, ...
LEMMA BeginGoes ==
  ASSUME TypeOK, NEW k \in Tasks, NEW t \in Tunnels, NEW x, NEW C, AtWork(k, t, x, C),
         Working(x, C, t), Unwrought(t), Smooth', Begin(k)
  PROVE  Goes(k, t)
<1>1. task[k] = x /\ x.tunnel = t /\ x.pc = "begin" /\ x \in Task
  BY DEF AtWork, Begin, At
<1>2. RowsOK(x, t) /\ UpTo(t, NoPath, 0) /\ UNCHANGED <<tunnel, route, bound, entry>>
  BY <1>1 DEF Working, Begin, consumerVars
<1>3. PICK p \in Paths, ports \in [Hops -> PortsOrNone] :
        Reserves(k, p, 0, ports) /\ (x.op = "redeploy" => p = route[t])
  <2>1. CASE x.op = "redeploy"
    <3>1. tunnel[t] = "there" /\ Reserves(k, route[t], 0, stored[t])
      BY <1>1, <2>1 DEF Begin
    <3>2. route[t] \in Paths /\ stored[t] \in [Hops -> PortsOrNone]
      BY <3>1 DEF TypeOK
    <3> QED
      BY <3>1, <3>2
  <2>2. CASE x.op # "redeploy"
    <3>1. Reserves(k, x.path, 0, x.port)
      BY <1>1, <2>2 DEF Begin
    <3> QED
      BY <1>1, <2>2, <3>1, TaskFacts
  <2> QED
    BY <2>1, <2>2
<1>4. Reserving(k, t, x, p)
  <2>1. UpTo(t, p, 0)
    BY <1>2, UpToNone
  <2>2. 0 < Len(p) /\ \A i \in 1..0 : ports[p[i]] = row[p[i]][t].port
    BY PathFacts
  <2> QED
    BY <1>3, <2>1, <2>2, ReservesNext
<1>5. PICK y, D : /\ AtWork(k, t, y, D)' /\ y.op = x.op /\ y.path = p
                  /\ y.pc = "reserving" /\ SettingUp(y, D, t)'
  BY <1>4 DEF Reserving
<1>6. RowsOK(y, t)'
  BY <1>1, <1>2, <1>3, <1>5 DEF RowsOK
<1>7. Working(y, D, t)'
  BY <1>5, <1>6 DEF Working
<1> QED
  BY <1>5, <1>7 DEF Goes

\* What a request that sets up a hop knows.
LEMMA SettingUpFacts ==
  ASSUME NEW k \in Tasks, NEW t \in Tunnels, NEW x, NEW C, AtWork(k, t, x, C), Working(x, C, t),
         x.pc \in {"reserving", "applying"}
  PROVE  \E p \in Paths, n \in Nat :
           /\ p = x.path /\ n = x.done /\ n < Len(p)
           /\ Hop(k) = p[n + 1] /\ Hop(k) \in Hops
           /\ \A i \in 1..n : p[i] \in Hops /\ p[i] # Hop(k) /\ x.port[p[i]] = row[p[i]][t].port
           /\ Around(t, p, n)
           /\ Freed(Hop(k), t) => UpTo(t, p, n)
<1>1. task[k] = x /\ x \in Task
  BY DEF AtWork
<1>2. PICK p \in Paths, n \in Nat : p = x.path /\ n = x.done /\ n < Len(p)
  BY <1>1, TaskFacts DEF Task
<1>3. Hop(k) = p[n + 1]
  BY <1>1, <1>2 DEF Hop
<1>4. p[n + 1] \in Hops /\ \A i \in 1..n : p[i] \in Hops /\ p[i] # p[n + 1]
  BY <1>2, NextHop
<1>5. SettingUp(x, C, t)
  BY DEF Working
<1>6. Around(t, p, n) /\ \A i \in 1..n : x.port[p[i]] = row[p[i]][t].port
  BY <1>2, <1>5 DEF SettingUp, Known
<1>7. Freed(p[n + 1], t) => UpTo(t, p, n)
  BY <1>6, AroundFreed
<1> QED
  BY <1>2, <1>3, <1>4, <1>6, <1>7

\* ... which is reserved, ...
LEMMA ReservedGoes ==
  ASSUME TypeOK, NEW k \in Tasks, NEW t \in Tunnels, NEW x, NEW C, AtWork(k, t, x, C),
         Working(x, C, t), Unwrought(t), Smooth', Reserved(k)
  PROVE  Goes(k, t)
<1>1. task[k] = x /\ x.tunnel = t /\ x.pc = "reserving" /\ x \in Task /\ Mine(k) = C
  BY DEF AtWork, Reserved, At
<1>2. RowsOK(x, t) /\ SettingUp(x, C, t) /\ UNCHANGED <<tunnel, route, bound, entry>>
  BY <1>1 DEF Working, Reserved, consumerVars
<1>3. PICK p \in Paths, n \in Nat :
           /\ p = x.path /\ n = x.done /\ n < Len(p)
           /\ Hop(k) = p[n + 1] /\ Hop(k) \in Hops
           /\ \A i \in 1..n : p[i] \in Hops /\ p[i] # Hop(k) /\ x.port[p[i]] = row[p[i]][t].port
           /\ Around(t, p, n)
  BY <1>1, SettingUpFacts
<1>4. PICK h \in Hops : h = Hop(k)
  BY <1>3
<1>5. PICK c \in C :
        /\ c.pc = "ok"
        /\ task' = [task EXCEPT ![k].pc = "applying", ![k].port[h] = c.port]
        /\ calls' = (calls \ Mine(k)) \cup {NewCall(k, "apply", h, 0, Beyond(k))}
  BY <1>1, <1>4 DEF Reserved
<1>6. Held(h, t) /\ c.port = row[h][t].port /\ c.hop = h
  <2>1. ReserveOK(c, t) /\ c.hop = x.path[x.done + 1]
    BY <1>1, <1>2, <1>5 DEF SettingUp
  <2> QED
    BY <1>3, <1>4, <1>5, <2>1 DEF ReserveOK
<1>7. c.port \in PortsOrNone
  BY <1>1, <1>5 DEF Mine, TypeOK, Call
<1>8. PICK ports : ports = [x.port EXCEPT ![h] = c.port]
  OBVIOUS
<1>9. x.port \in [Hops -> PortsOrNone]
  BY <1>1, TaskFacts
<1>10. ports \in [Hops -> PortsOrNone] /\ \A i \in 1..n : ports[p[i]] = row[p[i]][t].port
  BY <1>3, <1>4, <1>7, <1>8, <1>9
<1>11. PICK y : y = [x EXCEPT !.pc = "applying", !.port = ports]
  OBVIOUS
<1>12. /\ y \in Task /\ y.pc = "applying" /\ y.tunnel = t /\ y.op = x.op /\ y.path = p
       /\ y.done = n /\ y.port = ports /\ y.then = x.then
  <2>1. x.done < Len(x.path)
    BY <1>3
  <2> QED
    BY <1>1, <1>3, <1>10, <1>11, <2>1 DEF Task, Steps
<1>13. task'[k] = y
  <2>1. task' = [task EXCEPT ![k] = y]
    BY <1>1, <1>5, <1>8, <1>11
  <2> QED
    BY <2>1 DEF TypeOK
<1>14. PICK target : target = Beyond(k)
  OBVIOUS
<1>15. target = ToDial(t, p, n + 1) /\ (h \in Exits => target = NoTarget)
  <2>1. h \in Exits <=> n = 0
    BY <1>3, <1>4, NextHop
  <2>2. CASE n = 0
    BY <1>1, <1>3, <1>14, <2>2 DEF Beyond, ToDial
  <2>3. CASE n # 0
    <3>1. target = [hop |-> p[n], port |-> x.port[p[n]]]
      BY <1>1, <1>3, <1>14, <2>3 DEF Beyond
    <3>2. x.port[p[n]] = row[p[n]][t].port
      BY <1>3, <2>3
    <3>3. n + 1 # 1 /\ (n + 1) - 1 = n
      BY <2>3
    <3>4. ToDial(t, p, n + 1) = [hop |-> p[n], port |-> row[p[n]][t].port]
      BY <3>3 DEF ToDial, Address
    <3> QED
      BY <2>1, <2>3, <3>1, <3>2, <3>4
  <2> QED
    BY <2>2, <2>3
<1>16. PICK d : d = NewCall(k, "apply", h, 0, target)
  OBVIOUS
<1>17. d.by = k /\ d.kind = "apply" /\ d.hop = h /\ d.pc = "new" /\ d.target = target
  BY <1>16 DEF NewCall
<1>18. Mine(k)' = {d}
  <2>1. calls' = (calls \ Mine(k)) \cup {d}
    BY <1>5, <1>14, <1>16
  <2> QED
    BY <1>17, <2>1, MineNext
<1>19. Held(h, t)' /\ Around(t, p, n)' /\ ToDial(t, p, n + 1)' = ToDial(t, p, n + 1)
  BY <1>3, <1>6, PathsKept, HopKept DEF Unwrought
<1>20. ApplyOK(d, t)'
  BY <1>15, <1>17, <1>19 DEF ApplyOK
<1>21. Known(y, t)'
  BY <1>3, <1>10, <1>12 DEF Known, Unwrought, Kept
<1>22. SettingUp(y, {d}, t)'
  <2>1. d.hop = y.path[y.done + 1] /\ (d.target = ToDial(t, y.path, y.done + 1))'
    BY <1>3, <1>4, <1>12, <1>15, <1>17, <1>19
  <2> QED
    BY <1>2, <1>12, <1>19, <1>20, <1>21, <2>1 DEF SettingUp
<1>23. RowsOK(y, t)'
  BY <1>1, <1>2, <1>3, <1>12 DEF RowsOK
<1>24. Working(y, {d}, t)'
  BY <1>12, <1>22, <1>23 DEF Working
<1>25. AtWork(k, t, y, {d})'
  BY <1>12, <1>13, <1>18 DEF AtWork
<1> QED
  BY <1>24, <1>25 DEF Goes

\* ... or is not, and what stands is to be taken back, ...
LEMMA SetUpFails ==
  ASSUME TypeOK, NEW k \in Tasks, NEW t \in Tunnels, NEW x, NEW C, AtWork(k, t, x, C),
         Working(x, C, t), Unwrought(t), x.pc \in {"reserving", "applying"},
         Goto(k, "undo"), calls' = calls \ Mine(k), UNCHANGED <<tunnel, route, bound, entry>>,
         NEW h \in Hops, h = Hop(k), Freed(h, t)'
  PROVE  Goes(k, t)
<1>1. RowsOK(x, t) /\ SettingUp(x, C, t)
  BY DEF Working
<1>2. PICK p \in Paths, n \in Nat :
        p = x.path /\ n = x.done /\ n < Len(p) /\ h = p[n + 1] /\ Around(t, p, n)
  BY SettingUpFacts
<1>3. PICK y : /\ AtWork(k, t, y, {})'
               /\ y.pc = "undo" /\ y.op = x.op /\ y.path = x.path /\ y.done = x.done
               /\ y.then = x.then
  BY GotoNext DEF Steps
<1>4. Around(t, p, n)'
  BY <1>2, PathsKept
<1>5. \A i \in 1..(n + 1) : i \in 1..n \/ i = n + 1
  BY <1>2
<1>6. UpTo(t, p, n)'
  BY <1>2, <1>4, <1>5 DEF UpTo, Around
<1>7. RowsOK(y, t)'
  BY <1>1, <1>3 DEF RowsOK, SettingUp
<1>8. Working(y, {}, t)'
  BY <1>2, <1>3, <1>6, <1>7 DEF Working
<1> QED
  BY <1>3, <1>8 DEF Goes

LEMMA DialFailsGoes ==
  ASSUME TypeOK, NEW k \in Tasks, NEW t \in Tunnels, NEW x, NEW C, AtWork(k, t, x, C),
         Working(x, C, t), Unwrought(t), Smooth', DialFails(k)
  PROVE  Goes(k, t)
<1>1. task[k] = x /\ x.pc = "reserving" /\ Mine(k) = C
  BY DEF AtWork, DialFails, At
<1>2. /\ Goto(k, "undo") /\ calls' = calls \ Mine(k)
      /\ UNCHANGED <<tunnel, route, bound, entry>> /\ "dial" \in trouble'
  BY DEF DialFails, consumerVars
<1>3. PICK c \in C : c.pc = "ok"
  BY <1>1 DEF DialFails
<1>4. PICK h \in Hops : h = Hop(k)
  BY <1>1, SettingUpFacts
<1>5. ReserveOK(c, t) /\ c.hop = h
  <2>1. SettingUp(x, C, t) /\ h = x.path[x.done + 1]
    BY <1>1, <1>4 DEF Working, Hop
  <2> QED
    BY <1>1, <1>3, <2>1 DEF SettingUp
<1>6. Held(h, t)'
  <2>1. Held(h, t)
    BY <1>3, <1>5 DEF ReserveOK
  <2> QED
    BY <2>1, HopKept DEF Unwrought
<1>7. Freed(h, t)'
  <2>1. ~Lucky'
    BY <1>2 DEF Lucky, Spared
  <2> QED
    BY <1>6, <2>1 DEF Freed
<1> QED
  BY <1>1, <1>2, <1>4, <1>7, SetUpFails

LEMMA ReserveFailsGoes ==
  ASSUME TypeOK, NEW k \in Tasks, NEW t \in Tunnels, NEW x, NEW C, AtWork(k, t, x, C),
         Working(x, C, t), Unwrought(t), Smooth', ReserveFails(k)
  PROVE  Goes(k, t)
<1>1. task[k] = x /\ x.pc = "reserving" /\ Mine(k) = C
  BY DEF AtWork, ReserveFails, At
<1>2. /\ Goto(k, "undo") /\ calls' = calls \ Mine(k)
      /\ UNCHANGED <<tunnel, route, bound, entry>>
  BY DEF ReserveFails, consumerVars
<1>3. PICK c \in C : c.pc = "error"
  BY <1>1 DEF ReserveFails
<1>4. PICK h \in Hops : h = Hop(k)
  BY <1>1, SettingUpFacts
<1>5. ReserveOK(c, t) /\ c.hop = h
  <2>1. SettingUp(x, C, t) /\ h = x.path[x.done + 1]
    BY <1>1, <1>4 DEF Working, Hop
  <2> QED
    BY <1>1, <1>3, <2>1 DEF SettingUp
<1>6. Freed(h, t)'
  <2>1. Freed(h, t)
    BY <1>3, <1>5 DEF ReserveOK, Freed
  <2> QED
    BY <2>1, HopKept DEF Unwrought
<1> QED
  BY <1>1, <1>2, <1>4, <1>6, SetUpFails

LEMMA ApplyFailsGoes ==
  ASSUME TypeOK, NEW k \in Tasks, NEW t \in Tunnels, NEW x, NEW C, AtWork(k, t, x, C),
         Working(x, C, t), Unwrought(t), Smooth', ApplyFails(k)
  PROVE  Goes(k, t)
<1>1. task[k] = x /\ x.pc = "applying" /\ Mine(k) = C
  BY DEF AtWork, ApplyFails, At
<1>2. /\ Goto(k, "undo") /\ calls' = calls \ Mine(k)
      /\ UNCHANGED <<tunnel, route, bound, entry>>
  BY DEF ApplyFails, consumerVars
<1>3. PICK c \in C : c.pc = "error"
  BY <1>1 DEF ApplyFails
<1>4. PICK h \in Hops : h = Hop(k)
  BY <1>1, SettingUpFacts
<1>5. ApplyOK(c, t) /\ c.hop = h
  <2>1. SettingUp(x, C, t) /\ h = x.path[x.done + 1]
    BY <1>1, <1>4 DEF Working, Hop
  <2> QED
    BY <1>1, <1>3, <2>1 DEF SettingUp
<1>6. Freed(h, t)'
  <2>1. Freed(h, t)
    BY <1>3, <1>5 DEF ApplyOK, Freed
  <2> QED
    BY <2>1, HopKept DEF Unwrought
<1> QED
  BY <1>1, <1>2, <1>4, <1>6, SetUpFails

\* ... or reserved at another port, ...
LEMMA ReserveAgainGoes ==
  ASSUME TypeOK, NEW k \in Tasks, NEW t \in Tunnels, NEW x, NEW C, AtWork(k, t, x, C),
         Working(x, C, t), Unwrought(t), Smooth', ReserveAgain(k)
  PROVE  Goes(k, t)
<1>1. task[k] = x /\ x.pc = "reserving" /\ Mine(k) = C /\ x \in Task
  BY DEF AtWork, ReserveAgain, At
<1>2. UNCHANGED <<tunnel, route, bound, entry>> /\ RowsOK(x, t) /\ SettingUp(x, C, t)
  BY <1>1 DEF ReserveAgain, consumerVars, Working
<1>3. PICK c \in C : c.pc = "error"
  BY <1>1 DEF ReserveAgain
<1>4. PICK p \in Paths, n \in Nat :
           /\ p = x.path /\ n = x.done /\ n < Len(p)
           /\ Hop(k) = p[n + 1] /\ Hop(k) \in Hops
           /\ \A i \in 1..n : p[i] \in Hops /\ p[i] # Hop(k) /\ x.port[p[i]] = row[p[i]][t].port
           /\ Freed(Hop(k), t) => UpTo(t, p, n)
  BY <1>1, SettingUpFacts
<1>5. PICK h \in Hops : h = Hop(k)
  BY <1>4
<1>6. UpTo(t, p, n)
  <2>1. ReserveOK(c, t) /\ c.hop = h
    BY <1>1, <1>2, <1>3, <1>4, <1>5 DEF SettingUp
  <2>2. Freed(h, t)
    BY <1>3, <2>1 DEF ReserveOK, Freed
  <2> QED
    BY <1>4, <1>5, <2>2
<1>7. PICK ports : ports = [x.port EXCEPT ![h] = 0]
  OBVIOUS
<1>8. ports \in [Hops -> PortsOrNone] /\ \A i \in 1..n : ports[p[i]] = row[p[i]][t].port
  <2>1. x.port \in [Hops -> PortsOrNone] /\ 0 \in PortsOrNone
    BY <1>1, TaskFacts, TargetTypes
  <2> QED
    BY <1>4, <1>5, <1>7, <2>1
<1>9. Reserves(k, p, n, ports)
  BY <1>1, <1>4, <1>5, <1>7 DEF ReserveAgain
<1>10. Reserving(k, t, x, p)
  BY <1>4, <1>6, <1>8, <1>9, ReservesNext
<1>11. PICK y, D : /\ AtWork(k, t, y, D)' /\ y.op = x.op /\ y.path = p
                   /\ y.pc = "reserving" /\ SettingUp(y, D, t)'
  BY <1>10 DEF Reserving
<1>12. RowsOK(y, t)'
  BY <1>1, <1>2, <1>4, <1>11 DEF RowsOK
<1>13. Working(y, D, t)'
  BY <1>11, <1>12 DEF Working
<1> QED
  BY <1>11, <1>13 DEF Goes

\* ... until the last one stands.
LEMMA AppliedGoes ==
  ASSUME TypeOK, NEW k \in Tasks, NEW t \in Tunnels, NEW x, NEW C, AtWork(k, t, x, C),
         Working(x, C, t), Unwrought(t), Smooth', Applied(k)
  PROVE  Goes(k, t)
<1>1. task[k] = x /\ x.pc = "applying" /\ Mine(k) = C /\ x \in Task /\ x.tunnel = t
  BY DEF AtWork, Applied, At
<1>2. UNCHANGED <<tunnel, route, bound, entry>> /\ RowsOK(x, t) /\ SettingUp(x, C, t)
  BY <1>1 DEF Applied, consumerVars, Working
<1>3. PICK p \in Paths, n \in Nat :
           /\ p = x.path /\ n = x.done /\ n < Len(p)
           /\ Hop(k) = p[n + 1] /\ Hop(k) \in Hops
           /\ \A i \in 1..n : p[i] \in Hops /\ p[i] # Hop(k) /\ x.port[p[i]] = row[p[i]][t].port
           /\ Around(t, p, n)
  BY <1>1, SettingUpFacts
<1>4. PICK h \in Hops : h = Hop(k)
  BY <1>3
<1>d. PICK c \in C :
        /\ c.pc = "ok"
        /\ LET ports == [x.port EXCEPT ![h] = c.port]
               done == n + 1
           IN  IF done < Len(p)
               THEN Reserves(k, p, done, ports)
               ELSE /\ task' = [task EXCEPT ![k].pc = "store", ![k].port = ports, ![k].done = done]
                    /\ calls' = calls \ Mine(k)
  BY <1>1, <1>3, <1>4 DEF Applied
<1>e. PICK ports : ports = [x.port EXCEPT ![h] = c.port]
  OBVIOUS
<1>f. PICK m \in Nat : m = n + 1
  OBVIOUS
<1>5. /\ c.pc = "ok" /\ ports = [x.port EXCEPT ![h] = c.port] /\ m = n + 1
      /\ m < Len(p) => Reserves(k, p, m, ports)
      /\ ~(m < Len(p)) =>
           /\ task' = [task EXCEPT ![k].pc = "store", ![k].port = ports, ![k].done = m]
           /\ calls' = calls \ Mine(k)
  <2>1. CASE m < Len(p)
    <3>1. Reserves(k, p, m, ports)
      BY <1>d, <1>e, <1>f, <2>1
    <3> QED
      BY <1>d, <1>e, <1>f, <2>1, <3>1
  <2>2. CASE ~(m < Len(p))
    <3>1. /\ task' = [task EXCEPT ![k].pc = "store", ![k].port = ports, ![k].done = m]
          /\ calls' = calls \ Mine(k)
      BY <1>d, <1>e, <1>f, <2>2
    <3> QED
      BY <1>d, <1>e, <1>f, <2>2, <3>1
  <2> QED
    BY <2>1, <2>2
<1>6. ApplyOK(c, t) /\ c.target = ToDial(t, p, n + 1) /\ c.hop = h
  BY <1>1, <1>2, <1>3, <1>4, <1>5 DEF SettingUp
<1>7. Served(t, h) /\ chain[h][t] = c.target /\ c.port = row[h][t].port
  BY <1>5, <1>6 DEF ApplyOK
<1>8. UpTo(t, p, m)
  <2>1. Stands(t, p, n + 1)
    BY <1>3, <1>4, <1>6, <1>7 DEF Stands
  <2> QED
    BY <1>3, <1>5, <2>1, AroundStands
<1>9. ports \in [Hops -> PortsOrNone] /\ \A i \in 1..m : ports[p[i]] = row[p[i]][t].port
  <2>1. x.port \in [Hops -> PortsOrNone] /\ c.port \in PortsOrNone
    BY <1>1, <1>5, TaskFacts DEF Mine, TypeOK, Call
  <2>2. ports[h] = row[h][t].port /\ \A i \in 1..n : ports[p[i]] = row[p[i]][t].port
    BY <1>3, <1>4, <1>5, <1>7, <2>1
  <2>3. \A i \in 1..m : i \in 1..n \/ i = n + 1
    BY <1>5
  <2> QED
    BY <1>3, <1>4, <1>5, <2>1, <2>2, <2>3
<1>a. CASE m < Len(p)
  <2>1. Reserving(k, t, x, p)
    BY <1>5, <1>8, <1>9, <1>a, ReservesNext
  <2>2. PICK y, D : /\ AtWork(k, t, y, D)' /\ y.op = x.op /\ y.path = p
                    /\ y.pc = "reserving" /\ SettingUp(y, D, t)'
    BY <2>1 DEF Reserving
  <2>3. RowsOK(y, t)'
    BY <1>1, <1>2, <1>3, <2>2 DEF RowsOK
  <2>4. Working(y, D, t)'
    BY <2>2, <2>3 DEF Working
  <2> QED
    BY <2>2, <2>4 DEF Goes
<1>b. CASE ~(m < Len(p))
  <2>1. PICK y : y = [x EXCEPT !.pc = "store", !.port = ports, !.done = m]
    OBVIOUS
  <2>2. m = Len(p) /\ m <= Len(p)
    BY <1>3, <1>5, <1>b, PathFacts
  <2>3. /\ y \in Task /\ y.pc = "store" /\ y.tunnel = t /\ y.op = x.op /\ y.path = p
        /\ y.done = m /\ y.port = ports
    BY <1>1, <1>3, <1>5, <1>9, <2>1, <2>2 DEF Task, Steps
  <2>4. task' = [task EXCEPT ![k] = y] /\ calls' = calls \ Mine(k)
    BY <1>1, <1>5, <1>b, <2>1
  <2>5. AtWork(k, t, y, {})'
    <3>1. task'[k] = y
      BY <2>4 DEF TypeOK
    <3>2. Mine(k)' = {}
      BY <2>4, MineNext
    <3> QED
      BY <2>3, <3>1, <3>2 DEF AtWork
  <2>6. UpTo(t, p, m)'
    BY <1>8, <2>2, PathsKept
  <2>7. Known(y, t)'
    <3>1. \A i \in 1..m : p[i] \in Hops
      BY <2>2, PathFacts
    <3> QED
      BY <1>9, <2>3, <3>1 DEF Known, Unwrought, Kept
  <2>8. SetUp(y, t)'
    BY <2>2, <2>3, <2>6, <2>7 DEF SetUp
  <2>9. RowsOK(y, t)'
    BY <1>1, <1>2, <1>3, <2>3 DEF RowsOK
  <2>10. Working(y, {}, t)'
    BY <2>3, <2>8, <2>9 DEF Working
  <2> QED
    BY <2>5, <2>10 DEF Goes
<1> QED
  BY <1>a, <1>b

\* Then the rows and the bindings are written, ...
LEMMA StoreGoes ==
  ASSUME TypeOK, NEW k \in Tasks, NEW t \in Tunnels, NEW x, NEW C, AtWork(k, t, x, C),
         Working(x, C, t), Unwrought(t), Smooth', Store(k)
  PROVE  Goes(k, t)
<1>1. task[k] = x /\ x.tunnel = t /\ x.pc = "store" /\ x \in Task
  BY DEF AtWork, Store, At
<1>2. C = {} /\ RowsOK(x, t) /\ SetUp(x, t)
  BY <1>1 DEF Working
<1>3. PICK p \in Paths, n \in Nat : p = x.path /\ n = x.done /\ n = Len(p)
  BY <1>1, <1>2, TaskFacts DEF SetUp
<1>4. /\ Goto(k, "entry") /\ UNCHANGED <<entry, calls>>
      /\ bound' = [bound EXCEPT ![t] = p]
      /\ route' = IF x.op = "redeploy" THEN route ELSE [route EXCEPT ![t] = p]
      /\ tunnel' = IF x.op = "create" THEN [tunnel EXCEPT ![t] = "there"] ELSE tunnel
  BY <1>1, <1>3 DEF Store
<1>5. /\ x.op # "create" => tunnel[t] = "there"
      /\ x.op = "redeploy" => route[t] = p
      /\ entry[t] = NoTarget
  BY <1>1, <1>2, <1>3 DEF RowsOK
<1>6. bound'[t] = p /\ route'[t] = p /\ tunnel'[t] = "there" /\ entry'[t] = NoTarget
  BY <1>4, <1>5 DEF TypeOK
<1>7. PICK y : /\ AtWork(k, t, y, {})'
               /\ y.pc = "entry" /\ y.op = x.op /\ y.path = x.path /\ y.done = x.done
               /\ y.port = x.port
  BY <1>2, <1>4, GotoNext DEF Steps
<1>8. UpTo(t, p, n)'
  <2>1. UpTo(t, p, n) /\ n <= Len(p)
    BY <1>2, <1>3 DEF SetUp
  <2> QED
    BY <2>1, PathsKept
<1>9. Known(y, t)'
  <2>1. \A i \in 1..n : p[i] \in Hops
    BY <1>3, PathFacts
  <2>2. \A i \in 1..n : row'[p[i]][t] = row[p[i]][t]
    BY <2>1 DEF Unwrought, Kept
  <2>3. \A i \in 1..n : x.port[p[i]] = row[p[i]][t].port
    BY <1>2, <1>3 DEF SetUp, Known
  <2>4. y.done = n /\ y.path = p /\ y.port = x.port
    BY <1>3, <1>7
  <2> QED
    BY <2>2, <2>3, <2>4 DEF Known
<1>10. SetUp(y, t)'
  BY <1>3, <1>7, <1>8, <1>9 DEF SetUp
<1>11. RowsOK(y, t)'
  BY <1>3, <1>6, <1>7 DEF RowsOK
<1>12. Working(y, {}, t)'
  BY <1>7, <1>10, <1>11 DEF Working
<1> QED
  BY <1>7, <1>12 DEF Goes

\* ... and the entry node is told, or that fails and all is taken back.
LEMMA EntryGoes ==
  ASSUME TypeOK, NEW k \in Tasks, NEW t \in Tunnels, NEW x, NEW C, AtWork(k, t, x, C),
         Working(x, C, t), Unwrought(t), Smooth', Entry(k)
  PROVE  Goes(k, t)
<1>1. task[k] = x /\ x.tunnel = t /\ x.pc = "entry" /\ x \in Task
  BY DEF AtWork, Entry, At
<1>2. C = {} /\ RowsOK(x, t) /\ SetUp(x, t)
  BY <1>1 DEF Working
<1>3. PICK p \in Paths, n \in Nat : p = x.path /\ n = x.done /\ n = Len(p)
  BY <1>1, <1>2, TaskFacts DEF SetUp
<1>4. ~Fails
  BY DEF Fails, Smooth, Spared
<1>5. UNCHANGED <<tunnel, route, bound, calls>>
  BY DEF Entry
<1>6. /\ bound[t] = p /\ route[t] = p /\ tunnel[t] = "there" /\ entry[t] = NoTarget
  BY <1>1, <1>2, <1>3 DEF RowsOK
<1>7. UpTo(t, p, n) /\ UpTo(t, p, n)'
  <2>1. UpTo(t, p, n) /\ n <= Len(p)
    BY <1>2, <1>3 DEF SetUp
  <2> QED
    BY <2>1, PathsKept
<1>8. PICK h \in Hops : h = First(p)
  BY PathFacts
<1>9. x.port[h] = row[h][t].port /\ row'[h][t] = row[h][t]
  <2>1. n \in 1..n
    BY <1>3, PathFacts
  <2> QED
    BY <1>2, <1>3, <1>8, <2>1 DEF SetUp, Known, First, Unwrought, Kept
<1>a. CASE /\ Goto(k, "end")
           /\ entry' = [entry EXCEPT ![t] = IF @ = NoTarget
                          THEN [hop |-> h, port |-> x.port[h]] ELSE @]
  <2>1. entry'[t] = [hop |-> h, port |-> x.port[h]]
    BY <1>6, <1>a DEF TypeOK
  <2>2. (entry[t] = Address(t, h))'
    BY <1>9, <2>1 DEF Address
  <2>3. p # NoPath
    BY PathFacts
  <2>4. Sound(t)'
    BY <1>3, <1>5, <1>6, <1>7, <1>8, <2>2, <2>3 DEF Sound, Standing
  <2>5. PICK y : AtWork(k, t, y, {})' /\ y.pc = "end" /\ y.op = x.op
    BY <1>2, <1>5, <1>a, GotoNext DEF Steps
  <2>6. RowsOK(y, t)'
    BY <1>5, <1>6, <2>5 DEF RowsOK
  <2>7. Working(y, {}, t)'
    BY <2>4, <2>5, <2>6 DEF Working
  <2> QED
    BY <2>5, <2>7 DEF Goes
<1>b. CASE /\ entry' = entry
           /\ task' = [task EXCEPT ![k].pc = "undo",
                        ![k].then = IF x.op = "create" THEN "cascade" ELSE "drop"]
  <2>1. PICK then \in {"cascade", "drop"} : then = IF x.op = "create" THEN "cascade" ELSE "drop"
    OBVIOUS
  <2>2. PICK y : y = [x EXCEPT !.pc = "undo", !.then = then]
    OBVIOUS
  <2>3. /\ y \in Task /\ y.tunnel = t /\ y.pc = "undo" /\ y.op = x.op /\ y.path = x.path
        /\ y.done = x.done /\ y.then = then
    BY <1>1, <2>2 DEF Task, Steps
  <2>4. task' = [task EXCEPT ![k] = y]
    BY <1>1, <1>b, <2>1, <2>2
  <2>5. AtWork(k, t, y, {})'
    <3>1. task'[k] = y
      BY <2>4 DEF TypeOK
    <3>2. Mine(k)' = {}
      BY <1>2, <1>5, MineNext DEF AtWork
    <3> QED
      BY <2>3, <3>1, <3>2 DEF AtWork
  <2>6. RowsOK(y, t)'
    BY <1>5, <1>6, <1>b, <2>3 DEF RowsOK
  <2>7. Working(y, {}, t)'
    BY <1>3, <1>7, <2>3, <2>6 DEF Working
  <2> QED
    BY <2>5, <2>7 DEF Goes
<1> QED
  BY <1>1, <1>3, <1>4, <1>8, <1>a, <1>b DEF Entry

\* Whatever step a request takes, what it needs holds at the next.
LEMMA TaskWorks ==
  ASSUME TypeOK, NEW k \in Tasks, NEW t \in Tunnels, NEW x, NEW C, AtWork(k, t, x, C),
         Working(x, C, t), Smooth', TaskNext(k), ~End(k)
  PROVE  Goes(k, t)
<1>1. Unwrought(t)
  BY TaskUnserving DEF Unwrought, Kept
<1>2. ~Conflict(k)
  BY DEF Conflict, Smooth, Spared
<1>3. CASE Unchain(k) \/ List(k) \/ Released(k) \/ Drop(k) \/ Cascade(k)
  BY <1>1, <1>3, UnchainGoes, ListGoes, ReleasedGoes, DropGoes, CascadeGoes
<1>4. CASE Begin(k) \/ BeginRefused(k) \/ Reserved(k) \/ DialFails(k)
  BY <1>1, <1>4, BeginGoes, BeginRefusedGoes, ReservedGoes, DialFailsGoes
<1>5. CASE ReserveAgain(k) \/ ReserveFails(k) \/ Applied(k) \/ ApplyFails(k)
  BY <1>1, <1>5, ReserveAgainGoes, ReserveFailsGoes, AppliedGoes, ApplyFailsGoes
<1>6. CASE Undo(k) \/ Store(k) \/ Entry(k)
  BY <1>1, <1>6, UndoGoes, StoreGoes, EntryGoes
<1> QED
  BY <1>2, <1>3, <1>4, <1>5, <1>6 DEF TaskNext

\* A call becomes the only call of its request.
LEMMA MineBecomes ==
  ASSUME NEW c \in calls, NEW d, d.by = c.by, c.by # None, Mine(c.by) = {c}, Becomes(c, d)
  PROVE  Mine(c.by)' = {d}
<1>1. calls' = (calls \ {c}) \cup {d}
  BY DEF Becomes
<1> QED
  BY <1>1 DEF Mine

\* A call writes to its own hop of its own tunnel only.
LEMMA CallTouches ==
  ASSUME TypeOK, NEW c \in calls, CallNext(c)
  PROVE  /\ UNCHANGED <<consumerVars, task>> /\ trouble \subseteq trouble'
         /\ \A h \in Hops, t \in Tunnels : h # c.hop \/ t # c.tunnel => Kept(h, t)
<1>1. UNCHANGED <<consumerVars, task>>
  BY DEF CallNext, ReserveRead, ReserveWrite, ApplyRead, AddChain, AddService, ApplyWrite,
         ReleaseRead, DeleteService, Mark, DeleteChain
<1>2. \A h \in Hops, t \in Tunnels : h # c.hop \/ t # c.tunnel => row'[h][t] = row[h][t]
  BY OtherRows
<1>3. \A h \in Hops, t \in Tunnels : h # c.hop \/ t # c.tunnel => svc'[h][t] = svc[h][t]
  <2>1. CASE svc' = svc
    BY <2>1
  <2>2. CASE AddService(c)
    BY <2>2 DEF AddService, TypeOK
  <2>3. CASE DeleteService(c)
    BY <2>3 DEF DeleteService, TypeOK
  <2> QED
    BY <2>1, <2>2, <2>3
       DEF CallNext, ReserveRead, ReserveWrite, ApplyRead, AddChain, ApplyWrite, ReleaseRead,
           Mark, DeleteChain, nodeVars
<1>4. \A h \in Hops, t \in Tunnels : h # c.hop \/ t # c.tunnel => chain'[h][t] = chain[h][t]
  <2>1. CASE chain' = chain
    BY <2>1
  <2>2. CASE AddChain(c)
    BY <2>2 DEF AddChain, TypeOK
  <2>3. CASE DeleteChain(c)
    BY <2>3 DEF DeleteChain, TypeOK
  <2> QED
    BY <2>1, <2>2, <2>3
       DEF CallNext, ReserveRead, ReserveWrite, ApplyRead, AddService, ApplyWrite, ReleaseRead,
           DeleteService, Mark, nodeVars
<1> QED
  BY <1>1, <1>2, <1>3, <1>4, CallKeeps DEF Kept

\* The port a reservation picks is one of the share.
LEMMA PicksPort ==
  ASSUME NEW c \in Call, NEW p \in Picks(c)
  PROVE  p > 0
<1>1. p \in FreePorts(c.hop) /\ c.hop \in Hops
  BY PicksFree DEF Call
<1>2. p \in Share[c.hop] /\ Share[c.hop] \subseteq 1..MaxPort /\ MaxPort \in Nat
  BY <1>1, Assumed DEF FreePorts, Assumptions
<1> QED
  BY <1>2

\* A step of a reservation.
LEMMA ReserveWorks ==
  ASSUME TypeOK, NEW c \in calls, NEW t \in Tunnels, c.tunnel = t, c.by # None,
         Mine(c.by) = {c}, ReserveOK(c, t), Ported, ReserveRead(c) \/ ReserveWrite(c)
  PROVE  \E d : Mine(c.by)' = {d} /\ d.hop = c.hop /\ ReserveOK(d, t)'
<1>1. c \in Call /\ c.hop \in Hops /\ c.kind = "reserve"
  BY DEF TypeOK, Call, ReserveOK
<1>a. CASE ReserveRead(c)
  <2>1. Kept(c.hop, t) /\ trouble \subseteq trouble' /\ c.pc = "new"
    BY <1>a DEF ReserveRead, Kept, nodeVars, countVars, CallAt
  <2>2. /\ Out(c.hop, t)' <=> Out(c.hop, t)
        /\ Held(c.hop, t)' <=> Held(c.hop, t)
        /\ row'[c.hop][t] = row[c.hop][t]
    BY <1>1, <2>1, HopKept DEF Kept
  <2>3. Out(c.hop, t) \/ Held(c.hop, t)
    BY <2>1 DEF ReserveOK, Freed
  <2>4. CASE RowOf(c).status = 1 /\ Becomes(c, [c EXCEPT !.pc = "ok", !.port = RowOf(c).port])
    <3>1. PICK d : d = [c EXCEPT !.pc = "ok", !.port = RowOf(c).port]
      OBVIOUS
    <3>2. /\ d.by = c.by /\ d.hop = c.hop /\ d.kind = "reserve" /\ d.pc = "ok"
          /\ d.port = row[c.hop][t].port
      BY <1>1, <3>1 DEF Call, RowOf
    <3>3. Mine(c.by)' = {d}
      BY <2>4, <3>1, <3>2, MineBecomes
    <3>4. Held(c.hop, t)
      BY <2>3, <2>4 DEF Out, RowOf
    <3>5. ReserveOK(d, t)'
      BY <2>2, <3>2, <3>4 DEF ReserveOK
    <3> QED
      BY <3>2, <3>3, <3>5
  <2>5. ASSUME RowOf(c).status = 0, NEW p \in Picks(c),
               Becomes(c, [c EXCEPT !.pc = "write", !.port = p, !.found = RowOf(c) # NoRow])
        PROVE  \E d : Mine(c.by)' = {d} /\ d.hop = c.hop /\ ReserveOK(d, t)'
    <3>1. PICK d : d = [c EXCEPT !.pc = "write", !.port = p, !.found = RowOf(c) # NoRow]
      OBVIOUS
    <3>2. /\ d.by = c.by /\ d.hop = c.hop /\ d.kind = "reserve" /\ d.pc = "write"
          /\ d.port = p /\ (d.found <=> row[c.hop][t] # NoRow)
      BY <1>1, <3>1 DEF Call, RowOf
    <3>3. Mine(c.by)' = {d}
      BY <2>5, <3>1, <3>2, MineBecomes
    <3>4. p > 0
      BY <1>1, PicksPort
    <3>5. Out(c.hop, t)
      BY <2>3, <2>5 DEF Held, RowOf
    <3>6. ReserveOK(d, t)'
      BY <2>2, <3>2, <3>4, <3>5 DEF ReserveOK
    <3> QED
      BY <3>2, <3>3, <3>6
  <2>6. CASE RowOf(c).status = 0 /\ Becomes(c, [c EXCEPT !.pc = "error"])
    <3>1. PICK d : d = [c EXCEPT !.pc = "error"]
      OBVIOUS
    <3>2. d.by = c.by /\ d.hop = c.hop /\ d.kind = "reserve" /\ d.pc = "error"
      BY <1>1, <3>1 DEF Call
    <3>3. Mine(c.by)' = {d}
      BY <2>6, <3>1, <3>2, MineBecomes
    <3>4. Out(c.hop, t)
      BY <2>3, <2>6 DEF Held, RowOf
    <3>5. ReserveOK(d, t)'
      BY <2>2, <3>2, <3>4 DEF ReserveOK
    <3> QED
      BY <3>2, <3>3, <3>5
  <2> QED
    BY <1>a, <2>4, <2>5, <2>6 DEF ReserveRead
<1>b. CASE ReserveWrite(c)
  <2>1. Out(c.hop, t) /\ c.port > 0 /\ (c.found <=> row[c.hop][t] # NoRow)
    BY <1>b DEF ReserveWrite, CallAt, ReserveOK
  <2>2. /\ SetRow(c, [status |-> 1, applied |-> 0, port |-> c.port])
        /\ Becomes(c, [c EXCEPT !.pc = "ok"]) /\ svc' = svc /\ chain' = chain
    BY <1>b, <2>1 DEF ReserveWrite, RowOf, nodeVars
  <2>3. PICK d : d = [c EXCEPT !.pc = "ok"]
    OBVIOUS
  <2>4. d.by = c.by /\ d.hop = c.hop /\ d.kind = "reserve" /\ d.pc = "ok" /\ d.port = c.port
    BY <1>1, <2>3 DEF Call
  <2>5. Mine(c.by)' = {d}
    BY <2>2, <2>3, <2>4, MineBecomes
  <2>6. row'[c.hop][t] = [status |-> 1, applied |-> 0, port |-> c.port]
    BY <1>1, <2>2 DEF SetRow, TypeOK
  <2>7. Held(c.hop, t)' /\ row'[c.hop][t].port = c.port
    BY <2>1, <2>2, <2>6 DEF Held, Out
  <2>8. ReserveOK(d, t)'
    BY <2>4, <2>7 DEF ReserveOK
  <2> QED
    BY <2>4, <2>5, <2>8
<1> QED
  BY <1>a, <1>b

\* A port that is held, and served by nobody yet, can be bound: no other
\* tunnel's service has it.
LEMMA HeldIsFree ==
  ASSUME TypeOK, Ported, PortsDistinct, Smooth, Lucky, NEW h \in Hops, NEW t \in Tunnels,
         row[h][t].status = 1, svc[h][t] = 0
  PROVE  Free(h, row[h][t].port)
<1> SUFFICES ASSUME NEW u \in Tunnels, svc[h][u] = row[h][t].port PROVE FALSE
  BY DEF Free
<1>1. row[h][t].port > 0
  BY DEF Ported
<1>2. row[h][t].port \in Nat
  BY Assumed DEF TypeOK, Rows, PortsOrNone, Assumptions
<1>3. svc[h][u] # 0
  BY <1>1, <1>2
<1>4. row[h][u].status = 1 /\ row[h][u].port = row[h][t].port
  BY <1>3 DEF Ported
<1>5. Spared({"met", "raced", "lost"})
  BY DEF Smooth, Lucky, Spared
<1>6. u = t
  BY <1>4, <1>5 DEF PortsDistinct
<1> QED
  BY <1>3, <1>6

\* A step of an application.
LEMMA ApplyWorks ==
  ASSUME TypeOK, NEW c \in calls, NEW t \in Tunnels, c.tunnel = t, c.by # None,
         Mine(c.by) = {c}, ApplyOK(c, t), Ported, PortsDistinct, Smooth, Smooth', CallNext(c)
  PROVE  \E d : Mine(c.by)' = {d} /\ d.hop = c.hop /\ d.target = c.target /\ ApplyOK(d, t)'
<1>1. c \in Call /\ c.hop \in Hops /\ c.kind = "apply" /\ (c.hop \in Exits => c.target = NoTarget)
  BY DEF TypeOK, Call, ApplyOK
<1>2. ~Fails
  BY DEF Fails, Smooth, Spared
<1>3. Lucky' => Lucky
  BY CallTouches DEF Lucky, Spared
<1>a. CASE ApplyRead(c)
  <2>1. /\ c.pc = "new" /\ UNCHANGED <<row, svc, chain>>
    BY <1>a DEF ApplyRead, nodeVars, CallAt
  <2>2. Held(c.hop, t)
    BY <2>1 DEF ApplyOK
  <2>3. PICK s : s = IF c.hop \in Exits THEN "service" ELSE "chain"
    OBVIOUS
  <2>4. PICK d : d = [c EXCEPT !.pc = s, !.port = row[c.hop][t].port]
    OBVIOUS
  <2>5. /\ d.by = c.by /\ d.hop = c.hop /\ d.kind = "apply" /\ d.target = c.target
        /\ d.pc = s /\ d.port = row[c.hop][t].port
    BY <1>1, <2>4 DEF Call
  <2>6. Becomes(c, d)
    <3>1. RowOf(c).status = 1 /\ RowOf(c).applied = 0 /\ RowOf(c).port = row[c.hop][t].port
      BY <2>2 DEF Held, RowOf
    <3> QED
      BY <1>a, <2>3, <2>4, <3>1 DEF ApplyRead
  <2>7. /\ Held(c.hop, t)' /\ Unapplied(d, t)' /\ svc'[c.hop][t] = 0
        /\ chain'[c.hop][t] = NoTarget /\ row'[c.hop][t].port = row[c.hop][t].port
    BY <2>1, <2>2, <2>5 DEF Held, Unapplied
  <2>8. ApplyOK(d, t)'
    <3>1. CASE c.hop \in Exits
      BY <1>1, <2>3, <2>5, <2>7, <3>1 DEF ApplyOK
    <3>2. CASE c.hop \notin Exits
      BY <1>1, <2>3, <2>5, <2>7, <3>2 DEF ApplyOK
    <3> QED
      BY <3>1, <3>2
  <2> QED
    BY <2>5, <2>6, <2>8, MineBecomes
<1>b. CASE AddChain(c)
  <2>1. /\ c.pc = "chain" /\ row' = row /\ svc' = svc /\ Becomes(c, [c EXCEPT !.pc = "service"])
        /\ chain' = [chain EXCEPT ![c.hop][t] = IF @ = NoTarget THEN c.target ELSE @]
    BY <1>2, <1>b DEF AddChain, CallAt
  <2>2. c.hop \notin Exits /\ Held(c.hop, t) /\ c.port = row[c.hop][t].port
    BY <2>1 DEF ApplyOK
  <2>3. PICK d : d = [c EXCEPT !.pc = "service"]
    OBVIOUS
  <2>4. /\ d.by = c.by /\ d.hop = c.hop /\ d.kind = "apply" /\ d.target = c.target
        /\ d.pc = "service" /\ d.port = c.port
    BY <1>1, <2>3 DEF Call
  <2>5. chain'[c.hop][t] = c.target
    <3>1. chain[c.hop][t] = NoTarget
      BY <2>2 DEF Held
    <3> QED
      BY <1>1, <2>1, <3>1 DEF TypeOK
  <2>6. Unapplied(d, t)' /\ svc'[c.hop][t] = 0
    BY <2>1, <2>2, <2>4 DEF Held, Unapplied
  <2>7. ApplyOK(d, t)'
    BY <2>1, <2>2, <2>4, <2>5, <2>6 DEF ApplyOK
  <2> QED
    BY <2>1, <2>3, <2>4, <2>7, MineBecomes
<1>c. CASE AddService(c)
  <2>1. c.pc = "service" /\ row' = row /\ chain' = chain
    BY <1>c DEF AddService, CallAt
  <2>2. /\ Unapplied(c, t) /\ svc[c.hop][t] = 0 /\ chain[c.hop][t] = c.target
        /\ c.port = row[c.hop][t].port
    BY <2>1 DEF ApplyOK
  <2>3. CASE /\ svc' = [svc EXCEPT ![c.hop][t] = IF @ = 0 THEN c.port ELSE @]
             /\ Becomes(c, [c EXCEPT !.pc = "write"])
    <3>1. PICK d : d = [c EXCEPT !.pc = "write"]
      OBVIOUS
    <3>2. /\ d.by = c.by /\ d.hop = c.hop /\ d.kind = "apply" /\ d.target = c.target
          /\ d.pc = "write" /\ d.port = c.port
      BY <1>1, <3>1 DEF Call
    <3>3. svc'[c.hop][t] = c.port
      BY <1>1, <2>2, <2>3 DEF TypeOK
    <3>4. Unapplied(d, t)'
      BY <2>1, <2>2, <3>2 DEF Unapplied
    <3>5. ApplyOK(d, t)'
      BY <1>1, <2>1, <2>2, <3>2, <3>3, <3>4 DEF ApplyOK
    <3> QED
      BY <2>3, <3>1, <3>2, <3>5, MineBecomes
  <2>4. CASE /\ ~Free(c.hop, c.port) /\ svc' = svc
             /\ Becomes(c, [c EXCEPT !.pc = IF c.hop \in Exits THEN "error" ELSE "unchain"])
    <3>1. PICK s : s = IF c.hop \in Exits THEN "error" ELSE "unchain"
      OBVIOUS
    <3>2. PICK d : d = [c EXCEPT !.pc = s]
      OBVIOUS
    <3>3. /\ d.by = c.by /\ d.hop = c.hop /\ d.kind = "apply" /\ d.target = c.target
          /\ d.pc = s
      BY <1>1, <3>2 DEF Call
    <3>4. ~Lucky'
      <4>1. row[c.hop][t].status = 1
        BY <2>2 DEF Unapplied
      <4> QED
        BY <1>1, <1>3, <2>2, <2>4, <4>1, HeldIsFree
    <3>5. Unapplied(d, t)' /\ svc'[c.hop][t] = 0 /\ chain'[c.hop][t] = c.target
      BY <2>1, <2>2, <2>4, <3>3 DEF Unapplied
    <3>6. ApplyOK(d, t)'
      <4>1. CASE c.hop \in Exits
        <5>1. Held(c.hop, t)'
          BY <1>1, <3>3, <3>5, <4>1 DEF Held, Unapplied
        <5> QED
          BY <1>1, <3>1, <3>3, <3>4, <4>1, <5>1 DEF ApplyOK
      <4>2. CASE c.hop \notin Exits
        BY <3>1, <3>3, <3>4, <3>5, <4>2 DEF ApplyOK
      <4> QED
        BY <4>1, <4>2
    <3>7. Mine(c.by)' = {d}
      BY <2>4, <3>1, <3>2, <3>3, MineBecomes
    <3> QED
      BY <3>3, <3>6, <3>7
  <2> QED
    BY <1>2, <1>c, <2>2, <2>3, <2>4 DEF AddService
<1>d. CASE ApplyWrite(c)
  <2>1. /\ c.pc = "write" /\ svc' = svc /\ chain' = chain
        /\ Becomes(c, [c EXCEPT !.pc = "ok"])
        /\ row' = [row EXCEPT ![c.hop][t] = [status |-> 1, applied |-> 1, port |-> c.port]]
    BY <1>d DEF ApplyWrite, CallAt, SetRow, nodeVars
  <2>2. /\ svc[c.hop][t] = row[c.hop][t].port /\ c.port = row[c.hop][t].port
        /\ chain[c.hop][t] = c.target
    BY <2>1 DEF ApplyOK
  <2>3. PICK d : d = [c EXCEPT !.pc = "ok"]
    OBVIOUS
  <2>4. /\ d.by = c.by /\ d.hop = c.hop /\ d.kind = "apply" /\ d.target = c.target
        /\ d.pc = "ok" /\ d.port = c.port
    BY <1>1, <2>3 DEF Call
  <2>5. row'[c.hop][t] = [status |-> 1, applied |-> 1, port |-> c.port]
    BY <1>1, <2>1 DEF TypeOK
  <2>6. Served(t, c.hop)' /\ chain'[c.hop][t] = c.target /\ row'[c.hop][t].port = c.port
    BY <2>1, <2>2, <2>5 DEF Served
  <2>7. ApplyOK(d, t)'
    BY <1>1, <2>4, <2>6 DEF ApplyOK
  <2> QED
    BY <2>1, <2>3, <2>4, <2>7, MineBecomes
<1>e. CASE DeleteChain(c)
  <2>1. /\ c.pc = "unchain" /\ row' = row /\ svc' = svc
        /\ chain' = [chain EXCEPT ![c.hop][t] = NoTarget] /\ Becomes(c, [c EXCEPT !.pc = "error"])
    BY <1>1, <1>2, <1>e DEF DeleteChain, ApplyOK
  <2>2. c.hop \notin Exits /\ Unapplied(c, t) /\ svc[c.hop][t] = 0 /\ ~Lucky
    BY <2>1 DEF ApplyOK
  <2>3. PICK d : d = [c EXCEPT !.pc = "error"]
    OBVIOUS
  <2>4. /\ d.by = c.by /\ d.hop = c.hop /\ d.kind = "apply" /\ d.target = c.target
        /\ d.pc = "error"
    BY <1>1, <2>3 DEF Call
  <2>5. chain'[c.hop][t] = NoTarget
    BY <1>1, <2>1 DEF TypeOK
  <2>6. Held(c.hop, t)'
    BY <2>1, <2>2, <2>5 DEF Held, Unapplied
  <2>7. ApplyOK(d, t)'
    BY <1>3, <2>2, <2>4, <2>6 DEF ApplyOK
  <2> QED
    BY <2>1, <2>3, <2>4, <2>7, MineBecomes
<1> QED
  BY <1>1, <1>a, <1>b, <1>c, <1>d, <1>e
     DEF CallNext, ReserveRead, ReserveWrite, ReleaseRead, DeleteService, Mark, CallAt

\* A step of a release.
LEMMA ReleaseWorks ==
  ASSUME TypeOK, NEW c \in calls, NEW t \in Tunnels, c.tunnel = t, c.by # None,
         Mine(c.by) = {c}, ReleaseOK(c, t), Smooth, Smooth', CallNext(c)
  PROVE  \E d : Mine(c.by)' = {d} /\ d.hop = c.hop /\ ReleaseOK(d, t)'
<1>1. /\ c \in Call /\ c.hop \in Hops /\ c.kind = "release"
      /\ c.hop \in Exits => chain[c.hop][t] = NoTarget
  BY DEF TypeOK, Call, ReleaseOK
<1>2. ~Fails
  BY DEF Fails, Smooth, Spared
<1>a. CASE ReleaseRead(c)
  <2>1. /\ c.pc = "new" /\ row' = row /\ svc' = svc /\ chain' = chain
    BY <1>a DEF ReleaseRead, CallAt, nodeVars
  <2>2. Served(t, c.hop)
    BY <2>1 DEF ReleaseOK
  <2>3. Becomes(c, [c EXCEPT !.pc = "delete"])
    BY <1>a, <2>2 DEF ReleaseRead, RowOf, Served
  <2>4. PICK d : d = [c EXCEPT !.pc = "delete"]
    OBVIOUS
  <2>5. d.by = c.by /\ d.hop = c.hop /\ d.kind = "release" /\ d.pc = "delete"
    BY <1>1, <2>4 DEF Call
  <2>6. ReleaseOK(d, t)'
    BY <1>1, <2>1, <2>2, <2>5 DEF ReleaseOK, Served
  <2> QED
    BY <2>3, <2>4, <2>5, <2>6, MineBecomes
<1>b. CASE DeleteService(c)
  <2>1. PICK s : s = IF c.hop \in Exits THEN "mark" ELSE "delchain"
    OBVIOUS
  <2>2. /\ c.pc = "delete" /\ row' = row /\ chain' = chain
        /\ svc' = [svc EXCEPT ![c.hop][t] = 0]
        /\ Becomes(c, [c EXCEPT !.pc = s])
    BY <1>2, <1>b, <2>1 DEF DeleteService, CallAt
  <2>3. PICK d : d = [c EXCEPT !.pc = s]
    OBVIOUS
  <2>4. d.by = c.by /\ d.hop = c.hop /\ d.kind = "release" /\ d.pc = s
    BY <1>1, <2>3 DEF Call
  <2>5. svc'[c.hop][t] = 0
    BY <1>1, <2>2 DEF TypeOK
  <2>6. ReleaseOK(d, t)'
    BY <1>1, <2>1, <2>2, <2>4, <2>5 DEF ReleaseOK
  <2> QED
    BY <2>2, <2>3, <2>4, <2>6, MineBecomes
<1>c. CASE DeleteChain(c)
  <2>1. /\ c.pc = "delchain" /\ row' = row /\ svc' = svc
        /\ chain' = [chain EXCEPT ![c.hop][t] = NoTarget] /\ Becomes(c, [c EXCEPT !.pc = "mark"])
    BY <1>1, <1>2, <1>c DEF DeleteChain, ReleaseOK
  <2>2. PICK d : d = [c EXCEPT !.pc = "mark"]
    OBVIOUS
  <2>3. d.by = c.by /\ d.hop = c.hop /\ d.kind = "release" /\ d.pc = "mark"
    BY <1>1, <2>2 DEF Call
  <2>4. svc'[c.hop][t] = 0
    BY <2>1 DEF ReleaseOK
  <2>5. chain'[c.hop][t] = NoTarget
    BY <1>1, <2>1 DEF TypeOK
  <2>6. ReleaseOK(d, t)'
    BY <2>3, <2>4, <2>5 DEF ReleaseOK
  <2> QED
    BY <2>1, <2>2, <2>3, <2>6, MineBecomes
<1>d. CASE Mark(c)
  <2>1. /\ c.pc = "mark" /\ svc' = svc /\ chain' = chain /\ Becomes(c, [c EXCEPT !.pc = "ok"])
        /\ row' = [row EXCEPT ![c.hop][t] = [row[c.hop][t] EXCEPT !.status = 0]]
    BY <1>d DEF Mark, CallAt, SetRow, RowOf, nodeVars
  <2>2. svc[c.hop][t] = 0 /\ chain[c.hop][t] = NoTarget
    BY <2>1 DEF ReleaseOK
  <2>3. PICK d : d = [c EXCEPT !.pc = "ok"]
    OBVIOUS
  <2>4. d.by = c.by /\ d.hop = c.hop /\ d.kind = "release" /\ d.pc = "ok"
    BY <1>1, <2>3 DEF Call
  <2>5. row'[c.hop][t] = [row[c.hop][t] EXCEPT !.status = 0] /\ row[c.hop][t] \in Rows
    BY <1>1, <2>1 DEF TypeOK
  <2>6. row'[c.hop][t].status = 0
    BY <2>5 DEF Rows
  <2>7. Out(c.hop, t)'
    BY <2>1, <2>2, <2>6 DEF Out
  <2>8. ReleaseOK(d, t)'
    BY <2>1, <2>2, <2>4, <2>7 DEF ReleaseOK
  <2> QED
    BY <2>1, <2>3, <2>4, <2>8, MineBecomes
<1> QED
  BY <1>1, <1>a, <1>b, <1>c, <1>d
     DEF CallNext, ReserveRead, ReserveWrite, ApplyRead, AddChain, AddService, ApplyWrite, CallAt

\* Where nothing of a tunnel is written, what holds of it holds on.
Untouched(t) ==
  /\ Unwrought(t)
  /\ tunnel'[t] = tunnel[t] /\ route'[t] = route[t] /\ bound'[t] = bound[t] /\ entry'[t] = entry[t]

LEMMA StandingKept ==
  ASSUME NEW t \in Tunnels, Untouched(t), NEW p \in Paths \cup {NoPath}, Standing(t, p)
  PROVE  Standing(t, p)'
<1>1. Len(p) \in Nat /\ Len(p) <= Len(p)
  BY PathFacts, NoPathFacts
<1>2. bound[t] = p /\ UpTo(t, p, Len(p)) /\ Unwrought(t) /\ bound'[t] = bound[t]
  BY DEF Standing, Untouched
<1>3. UpTo(t, p, Len(p))'
  BY <1>1, <1>2, PathsKept
<1> QED
  BY <1>2, <1>3 DEF Standing

LEMMA SoundKept ==
  ASSUME NEW t \in Tunnels, Untouched(t), Sound(t)
  PROVE  Sound(t)'
<1>1. PICK p \in Paths \cup {NoPath} :
        /\ Standing(t, p)
        /\ IF p = NoPath THEN entry[t] = NoTarget
           ELSE tunnel[t] = "there" /\ route[t] = p /\ entry[t] = Address(t, First(p))
  BY DEF Sound
<1>2. Standing(t, p)'
  BY <1>1, StandingKept
<1>3. p # NoPath => Address(t, First(p))' = Address(t, First(p))
  <2> SUFFICES ASSUME p # NoPath PROVE Address(t, First(p))' = Address(t, First(p))
    OBVIOUS
  <2>1. PICK h \in Hops : h = First(p)
    BY PathFacts
  <2>2. Kept(h, t)
    BY DEF Untouched, Unwrought
  <2> QED
    BY <2>1, <2>2 DEF Address, Kept
<1>4. IF p = NoPath THEN entry'[t] = NoTarget
      ELSE tunnel'[t] = "there" /\ route'[t] = p /\ entry'[t] = Address(t, First(p))'
  BY <1>1, <1>3 DEF Untouched
<1> QED
  BY <1>2, <1>4 DEF Sound

\* What a request knows of its tunnel holds on where neither the tunnel nor the
\* request is touched, though its calls may go.
LEMMA WorkingKept ==
  ASSUME NEW t \in Tunnels, Untouched(t), NEW x \in Task, NEW C \in SUBSET Call,
         NEW D \in SUBSET C, Working(x, C, t)
  PROVE  Working(x, D, t)'
<1>1. Unwrought(t) /\ trouble \subseteq trouble'
  BY DEF Untouched, Unwrought
<1>2. PICK p \in Paths, n \in Nat : p = x.path /\ n = x.done /\ n <= Len(p)
  BY TaskFacts
<1>3. RowsOK(x, t)'
  BY DEF Working, RowsOK, Untouched
<1>4. UpTo(t, NoPath, 0) => UpTo(t, NoPath, 0)'
  BY <1>1, PathsKept, NoPathFacts
<1>5. UpTo(t, x.path, x.done) => UpTo(t, x.path, x.done)'
  BY <1>1, <1>2, PathsKept
<1>6. Known(x, t) => Known(x, t)'
  <2>1. \A i \in 1..n : p[i] \in Hops
    BY <1>2, PathFacts
  <2>2. \A i \in 1..n : row'[p[i]][t] = row[p[i]][t]
    BY <1>1, <2>1 DEF Unwrought, Kept
  <2> QED
    BY <1>2, <2>2 DEF Known
<1>7. ASSUME NEW c \in C
      PROVE  /\ ReserveOK(c, t) => ReserveOK(c, t)'
             /\ ApplyOK(c, t) => ApplyOK(c, t)'
             /\ ReleaseOK(c, t) => ReleaseOK(c, t)'
  <2>1. c.hop \in Hops
    BY DEF Call
  <2>2. /\ Out(c.hop, t)' <=> Out(c.hop, t)
        /\ Held(c.hop, t)' <=> Held(c.hop, t)
        /\ Served(t, c.hop)' <=> Served(t, c.hop)
        /\ Freed(c.hop, t) => Freed(c.hop, t)'
        /\ Lucky' => Lucky
        /\ row'[c.hop][t] = row[c.hop][t] /\ svc'[c.hop][t] = svc[c.hop][t]
        /\ chain'[c.hop][t] = chain[c.hop][t]
    BY <1>1, <2>1, HopKept DEF Unwrought, Kept
  <2>3. ReserveOK(c, t) => ReserveOK(c, t)'
    BY <2>2 DEF ReserveOK
  <2>4. Unapplied(c, t)' <=> Unapplied(c, t)
    BY <2>2 DEF Unapplied
  <2>5. ApplyOK(c, t) => ApplyOK(c, t)'
    BY <2>2, <2>4 DEF ApplyOK
  <2>6. ReleaseOK(c, t) => ReleaseOK(c, t)'
    BY <2>2 DEF ReleaseOK
  <2> QED
    BY <2>3, <2>5, <2>6
<1>8. CASE x.pc \in {"unchain", "end", "list"}
  <2>1. Sound(t) => Sound(t)'
    BY SoundKept
  <2>2. (\E q \in Paths \cup {NoPath} : Standing(t, q))
           => \E q \in Paths \cup {NoPath} : Standing(t, q)'
    BY StandingKept
  <2> QED
    BY <1>3, <1>8, <2>1, <2>2 DEF Working
<1>9. CASE x.pc \in {"drop", "begin", "cascade", "undo"}
  BY <1>3, <1>4, <1>5, <1>9 DEF Working
<1>10. CASE x.pc \in {"store", "entry"}
  BY <1>3, <1>5, <1>6, <1>10 DEF Working, SetUp
<1>11. CASE x.pc = "releasing"
  <2>1. PICK q \in Paths, m \in Nat : q = x.todo /\ m = x.left - 1 /\ m < Len(q)
    BY <1>11, TaskFacts, PathFacts
  <2>2. Releasing(x, C, t)
    BY <1>11 DEF Working
  <2>3. Around(t, q, m)'
    BY <1>1, <2>1, <2>2, PathsKept DEF Releasing
  <2>4. Releasing(x, D, t)'
    BY <1>7, <2>1, <2>2, <2>3 DEF Releasing
  <2> QED
    BY <1>3, <1>11, <2>4 DEF Working
<1>12. CASE x.pc \in {"reserving", "applying"}
  <2>1. n < Len(p)
    BY <1>2, <1>12 DEF Task
  <2>2. SettingUp(x, C, t)
    BY <1>12 DEF Working
  <2>3. Around(t, p, n)' /\ ToDial(t, p, n + 1)' = ToDial(t, p, n + 1)
    BY <1>1, <1>2, <2>1, <2>2, PathsKept DEF SettingUp
  <2>4. SettingUp(x, D, t)'
    <3>1. /\ x.then = "end" /\ Around(t, x.path, x.done)' /\ Known(x, t)'
          /\ \A c \in D : c.hop = x.path[x.done + 1]
      BY <1>2, <1>6, <2>2, <2>3 DEF SettingUp
    <3>2. x.pc = "reserving" => \A c \in D : ReserveOK(c, t)'
      BY <1>7, <2>2 DEF SettingUp
    <3>3. x.pc = "applying" =>
            \A c \in D : ApplyOK(c, t)' /\ c.target = ToDial(t, x.path, x.done + 1)'
      BY <1>2, <1>7, <2>2, <2>3 DEF SettingUp
    <3> QED
      BY <3>1, <3>2, <3>3 DEF SettingUp
  <2> QED
    BY <1>3, <1>12, <2>4 DEF Working
<1> QED
  <2>1. x.pc \in Steps
    BY TaskFacts
  <2> QED
    BY <1>8, <1>9, <1>10, <1>11, <1>12, <2>1 DEF Steps

\* A request whose call goes on keeps to its invariant.
LEMMA CallWorks ==
  ASSUME TypeOK, NEW c \in calls, NEW t \in Tunnels, NEW k \in Tasks, c.by = k, c.tunnel = t,
         NEW x, AtWork(k, t, x, {c}), Working(x, {c}, t),
         Ported, PortsDistinct, Smooth, Smooth', CallNext(c)
  PROVE  Goes(k, t)
<1>1. /\ c \in Call /\ c.hop \in Hops /\ k # None
      /\ task[k] = x /\ x \in Task /\ x.tunnel = t /\ Mine(k) = {c}
  BY Assumed DEF TypeOK, Call, Assumptions, AtWork
<1>2. /\ UNCHANGED <<tunnel, route, bound, entry, task>> /\ trouble \subseteq trouble'
      /\ \A h \in Hops : h # c.hop => Kept(h, t)
  BY CallTouches DEF consumerVars
<1>3. RowsOK(x, t)'
  BY <1>2 DEF Working, RowsOK
<1>4. x.pc \in {"releasing", "reserving", "applying"}
  BY DEF Working
<1>5. ASSUME NEW d, Mine(k)' = {d} PROVE AtWork(k, t, x, {d})'
  BY <1>1, <1>2, <1>5 DEF AtWork
<1>a. CASE x.pc \in {"reserving", "applying"}
  <2>1. SettingUp(x, {c}, t)
    BY <1>a DEF Working
  <2>2. PICK p \in Paths, n \in Nat : p = x.path /\ n = x.done /\ n < Len(p)
    BY <1>1, <1>a, TaskFacts DEF Task
  <2>3. x.then = "end" /\ Around(t, p, n) /\ Known(x, t) /\ c.hop = p[n + 1]
    BY <2>1, <2>2 DEF SettingUp
  <2>4. Around(t, p, n)' /\ ToDial(t, p, n + 1)' = ToDial(t, p, n + 1)
    BY <1>2, <2>2, <2>3, AroundKept
  <2>5. Known(x, t)'
    <3>1. \A i \in 1..n : p[i] \in Hops /\ p[i] # c.hop
      BY <2>2, <2>3, NextHop
    <3>2. \A i \in 1..n : row'[p[i]][t] = row[p[i]][t]
      BY <1>2, <3>1 DEF Kept
    <3> QED
      BY <2>2, <2>3, <3>2 DEF Known
  <2>6. CASE x.pc = "reserving"
    <3>1. ReserveOK(c, t)
      BY <2>1, <2>6 DEF SettingUp
    <3>2. ReserveRead(c) \/ ReserveWrite(c)
      BY <3>1 DEF ReserveOK, CallNext, ApplyRead, AddChain, AddService, ApplyWrite, ReleaseRead,
                  DeleteService, Mark, DeleteChain, CallAt
    <3>3. PICK d : Mine(k)' = {d} /\ d.hop = c.hop /\ ReserveOK(d, t)'
      BY <1>1, <3>1, <3>2, ReserveWorks
    <3>4. SettingUp(x, {d}, t)'
      BY <2>2, <2>3, <2>4, <2>5, <2>6, <3>3 DEF SettingUp
    <3>5. Working(x, {d}, t)'
      BY <1>3, <2>6, <3>4 DEF Working
    <3> QED
      BY <1>5, <3>3, <3>5 DEF Goes
  <2>7. CASE x.pc = "applying"
    <3>1. ApplyOK(c, t) /\ c.target = ToDial(t, p, n + 1)
      BY <2>1, <2>2, <2>7 DEF SettingUp
    <3>2. PICK d : Mine(k)' = {d} /\ d.hop = c.hop /\ d.target = c.target /\ ApplyOK(d, t)'
      BY <1>1, <3>1, ApplyWorks
    <3>3. SettingUp(x, {d}, t)'
      BY <2>2, <2>3, <2>4, <2>5, <2>7, <3>1, <3>2 DEF SettingUp
    <3>4. Working(x, {d}, t)'
      BY <1>3, <2>7, <3>3 DEF Working
    <3> QED
      BY <1>5, <3>2, <3>4 DEF Goes
  <2> QED
    BY <1>a, <2>6, <2>7
<1>b. CASE x.pc = "releasing"
  <2>1. Releasing(x, {c}, t)
    BY <1>b DEF Working
  <2>2. PICK p \in Paths, n \in Nat : p = x.todo /\ n = x.left - 1 /\ n < Len(p) /\ n + 1 = x.left
    BY <1>1, <1>b, TaskFacts, PathFacts
  <2>3. x.left > 0 /\ Around(t, p, n) /\ ReleaseOK(c, t) /\ c.hop = p[n + 1]
    BY <2>1, <2>2 DEF Releasing
  <2>4. Around(t, p, n)'
    BY <1>2, <2>2, <2>3, AroundKept
  <2>5. PICK d : Mine(k)' = {d} /\ d.hop = c.hop /\ ReleaseOK(d, t)'
    BY <1>1, <2>3, ReleaseWorks
  <2>6. Releasing(x, {d}, t)'
    BY <2>2, <2>3, <2>4, <2>5 DEF Releasing
  <2>7. Working(x, {d}, t)'
    BY <1>3, <1>b, <2>6 DEF Working
  <2> QED
    BY <1>5, <2>5, <2>7 DEF Goes
<1> QED
  BY <1>4, <1>a, <1>b

\* Rows keep their ports, and services theirs.
LEMMA PortedKept ==
  ASSUME TypeOK, NEW c \in calls, NEW t \in Tunnels, c.tunnel = t, NEW x, Working(x, {c}, t),
         Ported, Smooth, Smooth', CallNext(c)
  PROVE  Ported'
<1>1. c \in Call /\ c.hop \in Hops
  BY DEF TypeOK, Call
<1>2. \A h \in Hops, u \in Tunnels : h # c.hop \/ u # t =>
        row'[h][u] = row[h][u] /\ svc'[h][u] = svc[h][u]
  BY CallTouches DEF Kept
<1>3. SUFFICES ASSUME ~(row' = row /\ svc' = svc)
               PROVE  /\ row'[c.hop][t].status = 1 => row'[c.hop][t].port > 0
                      /\ svc'[c.hop][t] # 0 => /\ row'[c.hop][t].status = 1
                                               /\ svc'[c.hop][t] = row'[c.hop][t].port
  BY <1>1, <1>2 DEF Ported
<1>4. ~Fails
  BY DEF Fails, Smooth, Spared
<1>5. ReserveOK(c, t) \/ ApplyOK(c, t) \/ ReleaseOK(c, t)
  BY DEF Working, SettingUp, Releasing
<1>6. /\ row[c.hop][t].status = 1 => row[c.hop][t].port > 0
      /\ svc[c.hop][t] # 0 => row[c.hop][t].status = 1 /\ svc[c.hop][t] = row[c.hop][t].port
  BY <1>1 DEF Ported
<1>a. CASE ReserveWrite(c)
  <2>1. ReserveOK(c, t) /\ c.pc = "write"
    BY <1>5, <1>a DEF ReserveWrite, CallAt, ApplyOK, ReleaseOK
  <2>2. svc[c.hop][t] = 0 /\ c.port > 0 /\ svc' = svc
    BY <1>a, <2>1 DEF ReserveOK, Out, ReserveWrite, nodeVars
  <2>3. SetRow(c, [status |-> 1, applied |-> 0, port |-> c.port])
    BY <1>3, <1>a, <2>2 DEF ReserveWrite
  <2>4. row'[c.hop][t].port = c.port
    BY <1>1, <2>3 DEF SetRow, TypeOK
  <2> QED
    BY <2>2, <2>4
<1>b. CASE AddService(c)
  <2>1. ApplyOK(c, t) /\ c.pc = "service"
    BY <1>5, <1>b DEF AddService, CallAt, ReserveOK, ReleaseOK
  <2>2. /\ row[c.hop][t].status = 1 /\ svc[c.hop][t] = 0 /\ c.port = row[c.hop][t].port
        /\ row' = row
    BY <1>b, <2>1 DEF ApplyOK, Unapplied, AddService
  <2>3. svc' = [svc EXCEPT ![c.hop][t] = IF @ = 0 THEN c.port ELSE @]
    BY <1>3, <1>4, <1>b, <2>2 DEF AddService
  <2>4. svc'[c.hop][t] = c.port
    BY <1>1, <2>2, <2>3 DEF TypeOK
  <2> QED
    BY <1>6, <2>2, <2>4
<1>c. CASE ApplyWrite(c)
  <2>1. ApplyOK(c, t) /\ c.pc = "write"
    BY <1>5, <1>c DEF ApplyWrite, CallAt, ReserveOK, ReleaseOK
  <2>2. /\ row[c.hop][t].status = 1 /\ svc[c.hop][t] = c.port /\ c.port = row[c.hop][t].port
        /\ svc' = svc
    BY <1>c, <2>1 DEF ApplyOK, Unapplied, ApplyWrite, nodeVars
  <2>3. row'[c.hop][t] = [status |-> 1, applied |-> 1, port |-> c.port]
    BY <1>1, <1>c DEF ApplyWrite, SetRow, TypeOK
  <2> QED
    BY <1>6, <2>2, <2>3
<1>d. CASE DeleteService(c)
  <2>1. row' = row /\ svc' = [svc EXCEPT ![c.hop][t] = 0]
    BY <1>3, <1>4, <1>d DEF DeleteService
  <2>2. svc'[c.hop][t] = 0
    BY <1>1, <2>1 DEF TypeOK
  <2> QED
    BY <1>6, <2>1, <2>2
<1>e. CASE Mark(c)
  <2>1. ReleaseOK(c, t) /\ c.pc = "mark"
    BY <1>5, <1>e DEF Mark, CallAt, ReserveOK, ApplyOK
  <2>2. svc[c.hop][t] = 0 /\ svc' = svc
    BY <1>e, <2>1 DEF ReleaseOK, Mark, nodeVars
  <2>3. row' = [row EXCEPT ![c.hop][t] = [row[c.hop][t] EXCEPT !.status = 0]]
    BY <1>e DEF Mark, SetRow, RowOf
  <2>4. row'[c.hop][t] = [row[c.hop][t] EXCEPT !.status = 0] /\ row[c.hop][t] \in Rows
    BY <1>1, <2>3 DEF TypeOK
  <2>5. row'[c.hop][t].status = 0
    BY <2>4 DEF Rows
  <2> QED
    BY <2>2, <2>5
<1> QED
  BY <1>3, <1>a, <1>b, <1>c, <1>d, <1>e
     DEF CallNext, ReserveRead, ApplyRead, AddChain, ReleaseRead, DeleteChain, nodeVars

\* A request's step writes to its own tunnel only.
LEMMA TaskTouches ==
  ASSUME TypeOK, NEW k \in Tasks, TaskNext(k), NEW t \in Tunnels, t # task[k].tunnel
  PROVE  Untouched(t)
<1>1. Unwrought(t)
  BY TaskUnserving DEF Unwrought, Kept
<1> SUFFICES /\ tunnel'[t] = tunnel[t] /\ route'[t] = route[t]
             /\ bound'[t] = bound[t] /\ entry'[t] = entry[t]
  BY <1>1 DEF Untouched
<1> USE DEF consumerVars
<1>2. CASE Unchain(k)
  BY <1>2 DEF Unchain, TypeOK
<1>3. CASE Drop(k)
  BY <1>3 DEF Drop, TypeOK
<1>4. CASE Cascade(k)
  BY <1>4 DEF Cascade, TypeOK
<1>5. CASE Store(k)
  BY <1>5 DEF Store, TypeOK
<1>6. CASE Entry(k)
  BY <1>6 DEF Entry, TypeOK
<1>7. CASE End(k)
  BY <1>7 DEF End, TypeOK
<1>8. CASE List(k) \/ Released(k) \/ Begin(k) \/ BeginRefused(k) \/ Undo(k) \/ Conflict(k)
  BY <1>8 DEF List, Released, Begin, BeginRefused, Undo, Conflict
<1>9. CASE Reserved(k) \/ DialFails(k) \/ ReserveAgain(k) \/ ReserveFails(k) \/ Applied(k) \/ ApplyFails(k)
  BY <1>9 DEF Reserved, DialFails, ReserveAgain, ReserveFails, Applied, ApplyFails
<1> QED
  BY <1>2, <1>3, <1>4, <1>5, <1>6, <1>7, <1>8, <1>9 DEF TaskNext

\* What Lone says of one request.
LEMMA Alone ==
  ASSUME IInv, Smooth, NEW k \in Tasks, task[k] # Idle
  PROVE  /\ task[k] \in Task /\ task[k].tunnel \in Tunnels
         /\ \A c \in Mine(k) : Mine(k) = {c}
         /\ \A j \in Tasks : j # k /\ task[j] # Idle => task[j].tunnel # task[k].tunnel
<1>1. task[k] \in Task
  BY DEF IInv, TypeOK
<1>2. Spared({"met", "lost"})
  BY DEF Smooth, Spared
<1>3. /\ \A c, d \in calls : c.by = d.by => c = d
      /\ \A i, j \in Tasks :
           task[i] # Idle /\ task[j] # Idle /\ task[i].tunnel = task[j].tunnel => i = j
  BY <1>2 DEF IInv, Lone
<1>4. \A c \in Mine(k) : Mine(k) = {c}
  BY <1>3 DEF Mine
<1> QED
  BY <1>1, <1>3, <1>4 DEF Task

\* What a request knows, where its tunnel is not touched by another's step.
LEMMA OthersKept ==
  ASSUME IInv, Tunnelled, NEW j \in Tasks, NEW u \in Tunnels, Untouched(u),
         task'[j] = task[j], Mine(j)' \subseteq Mine(j), NEW x, NEW D, AtWork(j, u, x, D)'
  PROVE  Working(x, D, u)'
<1>1. task[j] = x /\ x \in Task /\ x.tunnel = u /\ Mine(j)' = D
  BY DEF AtWork
<1>2. PICK C : C = Mine(j)
  OBVIOUS
<1>3. Working(x, C, u)
  BY <1>1, <1>2 DEF AtWork, Tunnelled
<1>4. C \in SUBSET Call /\ D \in SUBSET C
  BY <1>1, <1>2 DEF Mine, IInv, TypeOK
<1> QED
  BY <1>1, <1>3, <1>4, WorkingKept

\* A request at work is at one place.
LEMMA GoesThere ==
  ASSUME NEW k, NEW t, Goes(k, t), NEW y, NEW D, AtWork(k, t, y, D)'
  PROVE  Working(y, D, t)'
<1>1. PICK z, E : AtWork(k, t, z, E)' /\ Working(z, E, t)'
  BY DEF Goes
<1>2. y = z /\ D = E
  BY <1>1 DEF AtWork
<1> QED
  BY <1>1, <1>2

\* Tunnels that nobody touches are as sound as they were.
LEMMA QuietKept ==
  ASSUME Tunnelled, NEW u \in Tunnels, Untouched(u), Unworked(u)
  PROVE  Sound(u)' /\ tunnel'[u] # "coming"
<1>1. Sound(u) /\ tunnel[u] # "coming"
  BY DEF Tunnelled
<1> QED
  BY <1>1, SoundKept DEF Untouched

\* A request's step.
LEMMA TaskTunnelled ==
  ASSUME IInv, Tunnelled, Smooth, Smooth', NEW k \in Tasks, TaskNext(k)
  PROVE  Tunnelled'
<1>1. row' = row /\ svc' = svc /\ chain' = chain /\ trouble \subseteq trouble'
  BY TaskUnserving
<1>2. Ported'
  BY <1>1 DEF Tunnelled, Ported
<1>3. task[k] # Idle
  <2>1. CASE End(k)
    BY <2>1 DEF End, At, Idle
  <2> QED
    BY <2>1, TaskMoves DEF IInv
<1>4. PICK t \in Tunnels : t = task[k].tunnel
  BY <1>3, Alone
<1>5. PICK x, C : AtWork(k, t, x, C) /\ Working(x, C, t)
  <2>1. PICK x, C : x = task[k] /\ C = Mine(k)
    OBVIOUS
  <2>2. AtWork(k, t, x, C)
    BY <1>3, <1>4, <2>1, Alone DEF AtWork
  <2> QED
    BY <2>2 DEF Tunnelled
<1>6. \A u \in Tunnels : u # t => Untouched(u)
  BY <1>4, TaskTouches DEF IInv
<1>7. /\ \A j \in Tasks : j # k => task'[j] = task[j] /\ Mine(j)' \subseteq Mine(j)
      /\ task'[k] # Idle => task'[k].tunnel = t
  <2>1. CASE End(k)
    <3>1. task' = [task EXCEPT ![k] = Idle] /\ calls' = calls \ Mine(k)
      BY <2>1 DEF End
    <3>2. \A j \in Tasks : j # k => task'[j] = task[j]
      BY <3>1 DEF IInv, TypeOK
    <3>3. task'[k] = Idle
      BY <3>1 DEF IInv, TypeOK
    <3> QED
      BY <3>1, <3>2, <3>3 DEF Mine
  <2>2. CASE ~End(k)
    <3>1. Moves(k)
      BY <2>2, TaskMoves DEF IInv
    <3>2. /\ \A j \in Tasks : j # k => task'[j] = task[j]
          /\ task'[k].tunnel = t
      BY <1>4, <3>1 DEF Moves, IInv, TypeOK
    <3>3. \A j \in Tasks : j # k => Mine(j)' \subseteq Mine(j)
      BY <3>1 DEF Moves, NewFor, Mine
    <3> QED
      BY <3>2, <3>3
  <2> QED
    BY <2>1, <2>2
<1>8. ASSUME NEW j \in Tasks, NEW u \in Tunnels, NEW y, NEW D, AtWork(j, u, y, D)', j # k
      PROVE  Working(y, D, u)'
  <2>1. task'[j] = task[j] /\ Mine(j)' \subseteq Mine(j) /\ task[j] # Idle /\ task[j].tunnel = u
    <3>1. task'[j] = task[j] /\ Mine(j)' \subseteq Mine(j)
      BY <1>7, <1>8
    <3>2. task'[j] # Idle /\ task'[j].tunnel = u
      BY <1>8 DEF AtWork, Task, Idle, Steps
    <3> QED
      BY <3>1, <3>2
  <2>2. u # t
    BY <1>3, <1>4, <1>8, <2>1, Alone
  <2> QED
    BY <1>6, <1>8, <2>1, <2>2, OthersKept
<1>9. ASSUME NEW u \in Tunnels, Unworked(u)', u # t
      PROVE  Sound(u)' /\ tunnel'[u] # "coming"
  <2>1. Unworked(u)
    <3> SUFFICES ASSUME NEW j \in Tasks, task[j] # Idle, task[j].tunnel = u PROVE FALSE
      BY DEF Unworked
    <3>1. j # k
      BY <1>4, <1>9
    <3> QED
      BY <1>7, <1>9, <3>1 DEF Unworked
  <2> QED
    BY <1>6, <1>9, <2>1, QuietKept
<1>a. CASE End(k)
  <2>1. /\ x = task[k] /\ x.pc = "end" /\ UNCHANGED <<route, bound, entry>>
        /\ tunnel' = (IF tunnel[t] = "coming" /\ x.op = "create"
                      THEN [tunnel EXCEPT ![t] = "new"] ELSE tunnel)
    BY <1>4, <1>5, <1>a DEF End, At, AtWork
  <2>2. Sound(t) /\ RowsOK(x, t)
    BY <1>5, <2>1 DEF Working
  <2>3. tunnel'[t] # "coming" /\ (tunnel[t] = "there" => tunnel'[t] = "there")
    BY <2>1, <2>2 DEF RowsOK, IInv, TypeOK
  <2>4. Unwrought(t)
    BY <1>1 DEF Unwrought, Kept
  <2>5. Sound(t)'
    <3>1. PICK p \in Paths \cup {NoPath} :
            /\ bound[t] = p /\ UpTo(t, p, Len(p))
            /\ IF p = NoPath THEN entry[t] = NoTarget
               ELSE tunnel[t] = "there" /\ route[t] = p /\ entry[t] = Address(t, First(p))
      BY <2>2 DEF Sound, Standing
    <3>2. UpTo(t, p, Len(p))'
      <4>1. Len(p) \in Nat /\ Len(p) <= Len(p)
        BY PathFacts, NoPathFacts
      <4> QED
        BY <2>4, <3>1, <4>1, PathsKept
    <3>3. Standing(t, p)'
      BY <2>1, <3>1, <3>2 DEF Standing
    <3>4. Address(t, First(p))' = Address(t, First(p))
      BY <1>1 DEF Address
    <3>5. IF p = NoPath THEN entry'[t] = NoTarget
          ELSE tunnel'[t] = "there" /\ route'[t] = p /\ entry'[t] = Address(t, First(p))'
      BY <2>1, <2>3, <3>1, <3>4
    <3> QED
      BY <3>3, <3>5 DEF Sound
  <2>6. \A u, y, D : ~AtWork(k, u, y, D)'
    <3>1. task'[k] = Idle
      BY <1>a DEF End, IInv, TypeOK
    <3> QED
      BY <3>1 DEF AtWork, Task, Idle, Steps
  <2> QED
    BY <1>2, <1>8, <1>9, <2>3, <2>5, <2>6 DEF Tunnelled
<1>b. CASE ~End(k)
  <2>1. Goes(k, t)
    BY <1>5, <1>b, TaskWorks DEF IInv
  <2>2. task'[k] # Idle /\ task'[k].tunnel = t
    BY <2>1 DEF Goes, AtWork, Task, Idle, Steps
  <2>3. ~Unworked(t)'
    BY <2>2 DEF Unworked
  <2>4. ASSUME NEW u \in Tunnels, NEW y, NEW D, AtWork(k, u, y, D)'
        PROVE  Working(y, D, u)'
    <3>1. u = t
      BY <2>2, <2>4 DEF AtWork
    <3> QED
      BY <2>1, <2>4, <3>1, GoesThere
  <2> QED
    BY <1>2, <1>8, <1>9, <2>3, <2>4 DEF Tunnelled
<1> QED
  BY <1>a, <1>b

\* A call's step.
LEMMA CallTunnelled ==
  ASSUME IInv, Tunnelled, Smooth, Smooth', NEW c \in calls, CallNext(c)
  PROVE  Tunnelled'
<1>1. Spared({"met", "lost"})
  BY DEF Smooth, Spared
<1>2. PICK k \in Tasks, t \in Tunnels :
        c.by = k /\ c.tunnel = t /\ task[k] # Idle /\ task[k].tunnel = t
  BY <1>1 DEF IInv, Lone, TypeOK, Call
<1>3. Mine(k) = {c} /\ task[k] \in Task
  BY <1>2, Alone DEF Mine
<1>4. PICK x : AtWork(k, t, x, {c}) /\ Working(x, {c}, t)
  <2>1. PICK x : x = task[k]
    OBVIOUS
  <2>2. AtWork(k, t, x, {c})
    BY <1>2, <1>3, <2>1 DEF AtWork
  <2> QED
    BY <2>2 DEF Tunnelled
<1>5. /\ UNCHANGED <<tunnel, route, bound, entry, task>>
      /\ \A u \in Tunnels : u # t => Untouched(u)
  <2>1. TypeOK
    BY DEF IInv
  <2>2. /\ UNCHANGED <<tunnel, route, bound, entry, task>> /\ trouble \subseteq trouble'
        /\ \A h \in Hops, u \in Tunnels : u # t => Kept(h, u)
    BY <1>2, <2>1, CallTouches DEF consumerVars
  <2> QED
    BY <2>2 DEF Untouched, Unwrought
<1>6. Ported' /\ Goes(k, t)
  <2>1. TypeOK /\ PortsDistinct /\ Ported
    BY DEF IInv, Tunnelled
  <2>2. Ported'
    BY <1>2, <1>4, <2>1, PortedKept
  <2>3. Goes(k, t)
    BY <1>2, <1>4, <2>1, CallWorks
  <2> QED
    BY <2>2, <2>3
<1>7. \A j \in Tasks : j # k => Mine(j)' \subseteq Mine(j)
  <2>1. Proceeds(c)
    BY CallMoves DEF IInv
  <2> QED
    BY <1>2, <2>1 DEF Proceeds, Mine
<1>8. ASSUME NEW j \in Tasks, NEW u \in Tunnels, NEW y, NEW D, AtWork(j, u, y, D)'
      PROVE  Working(y, D, u)'
  <2>1. task[j] # Idle /\ task[j].tunnel = u /\ task'[j] = task[j]
    BY <1>5, <1>8 DEF AtWork, Task, Idle, Steps
  <2>2. CASE j = k
    BY <1>2, <1>6, <1>8, <2>1, <2>2, GoesThere
  <2>3. CASE j # k
    <3>1. u # t
      BY <1>2, <2>1, <2>3, Alone
    <3> QED
      BY <1>5, <1>7, <1>8, <2>1, <2>3, <3>1, OthersKept
  <2> QED
    BY <2>2, <2>3
<1>9. ASSUME NEW u \in Tunnels, Unworked(u)'
      PROVE  Sound(u)' /\ tunnel'[u] # "coming"
  <2>1. Unworked(u) /\ u # t
    BY <1>2, <1>5, <1>9 DEF Unworked
  <2> QED
    BY <1>5, <2>1, QuietKept
<1> QED
  BY <1>6, <1>8, <1>9 DEF Tunnelled

\* The beginning of a request.
LEMMA RequestTunnelled ==
  ASSUME IInv, Tunnelled, Smooth, Smooth', NEW k \in Tasks, NEW t \in Tunnels, Request(k, t)
  PROVE  Tunnelled'
<1>1. PICK op \in Ops, step \in {"begin", "unchain"}, path \in Paths,
           ports \in [Hops -> PortsOrNone] :
        /\ Begins(k, op, t, step, path, ports)
        /\ IF op = "create"
           THEN /\ step = "begin" /\ tunnel[t] = "new"
                /\ tunnel' = [tunnel EXCEPT ![t] = "coming"]
           ELSE step = "unchain" /\ tunnel[t] = "there" /\ tunnel' = tunnel
  BY RequestBegins DEF IInv
<1>2. /\ task[k] = Idle /\ UNCHANGED <<route, bound, entry, calls, row, svc, chain>>
      /\ trouble' = trouble \cup
           (IF \E j \in Tasks : task[j] # Idle /\ task[j].tunnel = t THEN {"met"} ELSE {})
  BY <1>1 DEF Begins, nodeVars
<1>3. Unworked(t) /\ trouble \subseteq trouble'
  BY <1>2 DEF Unworked, Smooth, Spared
<1>4. PICK x : x = [pc |-> step, op |-> op, tunnel |-> t, path |-> path, done |-> 0,
                    port |-> ports, todo |-> NoPath, left |-> 0, then |-> "end"]
  OBVIOUS
<1>5. x.pc = step /\ x.op = op /\ x.tunnel = t /\ x.done = 0 /\ x \in Task
  <2>1. Len(path) \in Nat /\ Len(path) > 0 /\ Len(NoPath) = 0
    BY PathFacts, NoPathFacts
  <2> QED
    BY <1>4, <2>1 DEF Task, Steps
<1>6. task'[k] = x /\ \A j \in Tasks : j # k => task'[j] = task[j]
  <2>1. task' = [task EXCEPT ![k] = x]
    BY <1>1, <1>4 DEF Begins
  <2> QED
    BY <2>1 DEF IInv, TypeOK
<1>7. (\A u \in Tunnels : u # t => Untouched(u)) /\ Unwrought(t)
  BY <1>1, <1>2, <1>3 DEF Untouched, Unwrought, Kept, IInv, TypeOK
<1>8. Mine(k)' = {}
  <2>1. Spared({"met", "lost"})
    BY DEF Smooth, Spared
  <2>2. Mine(k) = {}
    BY <1>2, <2>1 DEF IInv, Lone, Mine
  <2> QED
    BY <1>2, <2>2, MineNext
<1>9. Sound(t)
  BY <1>3 DEF Tunnelled
<1>a. Working(x, {}, t)'
  <2>1. CASE op = "create"
    <3>1. step = "begin" /\ tunnel[t] = "new" /\ tunnel' = [tunnel EXCEPT ![t] = "coming"]
      BY <1>1, <2>1
    <3>2. bound[t] = NoPath /\ UpTo(t, NoPath, 0) /\ entry[t] = NoTarget
      BY <1>9, <3>1, NoPathFacts DEF Sound, Standing
    <3>3. UpTo(t, NoPath, 0)' /\ bound'[t] = NoPath /\ entry'[t] = NoTarget
      BY <1>2, <1>7, <3>2, PathsKept, NoPathFacts
    <3>4. RowsOK(x, t)'
      BY <1>5, <2>1, <3>1, <3>3 DEF RowsOK
    <3> QED
      BY <1>5, <3>1, <3>3, <3>4 DEF Working
  <2>2. CASE op # "create"
    <3>1. step = "unchain" /\ tunnel[t] = "there" /\ tunnel' = tunnel
      BY <1>1, <2>2
    <3>2. Untouched(t)
      BY <1>2, <1>7, <3>1 DEF Untouched
    <3>3. Sound(t)'
      BY <1>9, <3>2, SoundKept
    <3>4. RowsOK(x, t)'
      BY <1>5, <3>1 DEF RowsOK
    <3> QED
      BY <1>5, <3>1, <3>3, <3>4 DEF Working
  <2> QED
    BY <2>1, <2>2
<1>b. ASSUME NEW j \in Tasks, NEW u \in Tunnels, NEW y, NEW D, AtWork(j, u, y, D)'
      PROVE  Working(y, D, u)'
  <2>1. CASE j = k
    <3>1. y = x /\ D = {} /\ u = t
      BY <1>5, <1>6, <1>8, <1>b, <2>1 DEF AtWork
    <3> QED
      BY <1>a, <3>1
  <2>2. CASE j # k
    <3>1. task'[j] = task[j] /\ task[j] # Idle /\ task[j].tunnel = u
      BY <1>6, <1>b, <2>2 DEF AtWork, Task, Idle, Steps
    <3>2. u # t
      BY <1>3, <3>1 DEF Unworked
    <3>3. Mine(j)' \subseteq Mine(j)
      BY <1>2 DEF Mine
    <3> QED
      BY <1>7, <1>b, <3>1, <3>2, <3>3, OthersKept
  <2> QED
    BY <2>1, <2>2
<1>c. ASSUME NEW u \in Tunnels, Unworked(u)'
      PROVE  Sound(u)' /\ tunnel'[u] # "coming"
  <2>1. task'[k] # Idle /\ task'[k].tunnel = t
    BY <1>5, <1>6 DEF Task, Idle, Steps
  <2>2. u # t
    BY <1>c, <2>1 DEF Unworked
  <2>3. Unworked(u)
    BY <1>2, <1>6, <1>c DEF Unworked
  <2> QED
    BY <1>7, <2>2, <2>3, QuietKept
<1>d. Ported'
  BY <1>2 DEF Tunnelled, Ported
<1> QED
  BY <1>b, <1>c, <1>d DEF Tunnelled

LEMMA InitTunnelInv == Init => TunnelInv
<1> SUFFICES ASSUME Init PROVE Tunnelled
  BY DEF TunnelInv
<1>1. \A k \in Tasks : task[k] = Idle
  BY DEF Init
<1>2. Ported
  BY DEF Init, Ported, NoRow
<1>3. ASSUME NEW t \in Tunnels PROVE Sound(t) /\ tunnel[t] # "coming"
  <2>1. \A h \in Hops : Freed(h, t)
    BY DEF Init, Freed, Out, NoRow
  <2>2. bound[t] = NoPath /\ entry[t] = NoTarget /\ tunnel[t] = "new"
    BY DEF Init
  <2>3. UpTo(t, NoPath, 0)
    <3>1. \A i \in 1..0 : FALSE
      OBVIOUS
    <3> QED
      BY <2>1, <3>1 DEF UpTo
  <2> QED
    BY <2>2, <2>3, NoPathFacts DEF Sound, Standing
<1>4. \A k \in Tasks : \A t, x, C : ~AtWork(k, t, x, C)
  BY <1>1 DEF AtWork, Task, Idle, Steps
<1> QED
  BY <1>2, <1>3, <1>4 DEF Tunnelled

LEMMA NextTunnelInv == IInv /\ TunnelInv /\ [Next]_vars => TunnelInv'
<1> SUFFICES ASSUME IInv, TunnelInv, [Next]_vars, Smooth' PROVE Tunnelled'
  BY DEF TunnelInv
<1>1. trouble \subseteq trouble'
  <2>1. ASSUME NEW k \in Tasks, NEW t \in Tunnels, Request(k, t) PROVE trouble \subseteq trouble'
    BY <2>1, RequestStarts DEF IInv
  <2>2. ASSUME NEW k \in Tasks, TaskNext(k) PROVE trouble \subseteq trouble'
    BY <2>2, TaskUnserving
  <2>3. ASSUME NEW c \in calls, CallNext(c) PROVE trouble \subseteq trouble'
    BY <2>3, CallKeeps
  <2>4. ASSUME NEW c \in calls, Loses(c) PROVE trouble \subseteq trouble'
    BY <2>4 DEF Loses
  <2>5. CASE UNCHANGED vars
    BY <2>5 DEF vars, countVars
  <2> QED
    BY <2>1, <2>2, <2>3, <2>4, <2>5 DEF Next, Request
<1>2. Smooth
  BY <1>1 DEF Smooth, Spared
<1>3. Tunnelled
  BY <1>2 DEF TunnelInv
<1>4. ASSUME NEW k \in Tasks, NEW t \in Tunnels, Request(k, t) PROVE Tunnelled'
  BY <1>2, <1>3, <1>4, RequestTunnelled
<1>5. ASSUME NEW k \in Tasks, TaskNext(k) PROVE Tunnelled'
  BY <1>2, <1>3, <1>5, TaskTunnelled
<1>6. ASSUME NEW c \in calls, CallNext(c) PROVE Tunnelled'
  BY <1>2, <1>3, <1>6, CallTunnelled
<1>7. ASSUME NEW c \in calls, Loses(c) PROVE Tunnelled'
  <2>1. "lost" \in trouble'
    BY <1>7 DEF Loses
  <2> QED
    BY <2>1 DEF Smooth, Spared
<1>8. CASE UNCHANGED vars
  <2>1. UNCHANGED <<tunnel, route, bound, entry, task, calls, row, svc, chain, trouble>>
    BY <1>8 DEF vars, consumerVars, nodeVars, countVars
  <2>2. \A t \in Tunnels : Untouched(t)
    BY <2>1 DEF Untouched, Unwrought, Kept
  <2>3. ASSUME NEW t \in Tunnels, Unworked(t)' PROVE Sound(t)' /\ tunnel'[t] # "coming"
    <3>1. Unworked(t)
      BY <2>1, <2>3 DEF Unworked
    <3> QED
      BY <1>3, <2>2, <3>1, QuietKept
  <2>4. ASSUME NEW k \in Tasks, NEW t \in Tunnels, NEW x, NEW C, AtWork(k, t, x, C)'
        PROVE  Working(x, C, t)'
    <3>1. task'[k] = task[k] /\ Mine(k)' \subseteq Mine(k)
      BY <2>1 DEF Mine
    <3> QED
      BY <1>3, <2>2, <2>4, <3>1, OthersKept
  <2>5. Ported'
    BY <1>3, <2>1 DEF Tunnelled, Ported
  <2> QED
    BY <2>3, <2>4, <2>5 DEF Tunnelled
<1> QED
  BY <1>4, <1>5, <1>6, <1>7, <1>8 DEF Next, Request

LEMMA SpecTunnelInv == Spec => []TunnelInv
<1>1. Init => IInv /\ TunnelInv
  BY InitIInv, InitTunnelInv
<1>2. IInv /\ TunnelInv /\ [Next]_vars => (IInv /\ TunnelInv)'
  BY NextIInv, NextTunnelInv
<1> QED
  BY <1>1, <1>2, PTL DEF Spec

\* A tunnel with bindings can carry traffic once the panel rests: the bindings
\* name the hops of its chain rows, every hop serves on the port its row names,
\* and each dials the one next to it there, the entry node the last
\* (mutations.go:2911), after any number of creates, updates to other hops,
\* redeploys and deletes; unless two requests met on a tunnel, a call was lost,
\* a node refused a command, or an update was refused for a port conflict after
\* its roles were applied.
THEOREM SpecPathIsWhole == Spec => []PathIsWhole
<1>1. TunnelInv => PathIsWhole
  <2> SUFFICES ASSUME TunnelInv, Quiet, Smooth, NEW t \in Tunnels, bound[t] # NoPath
               PROVE  tunnel[t] = "there" /\ bound[t] = route[t] /\ Whole(t, bound[t])
    BY DEF PathIsWhole, Smooth
  <2>1. Unworked(t)
    BY DEF Unworked, Quiet
  <2>2. Sound(t)
    BY <2>1 DEF TunnelInv, Tunnelled
  <2>3. PICK p \in Paths :
          /\ bound[t] = p /\ UpTo(t, p, Len(p))
          /\ tunnel[t] = "there" /\ route[t] = p /\ entry[t] = Address(t, First(p))
    BY <2>2 DEF Sound, Standing
  <2>4. ASSUME NEW i \in 1..Len(p)
        PROVE  Served(t, p[i]) /\ (i > 1 => chain[p[i]][t] = Address(t, p[i - 1]))
    <3>1. Served(t, p[i]) /\ chain[p[i]][t] = ToDial(t, p, i)
      BY <2>3 DEF UpTo, Stands
    <3>2. i > 1 => i # 1
      BY PathFacts
    <3> QED
      BY <3>1, <3>2 DEF ToDial
  <2> QED
    BY <2>3, <2>4 DEF Whole
<1> QED
  BY <1>1, SpecTunnelInv, PTL

\* A hop that no binding names, of a tunnel that never was made, was undone, is
\* deleted or was given other hops, has no active row, no service and no chain
\* at the providing panel (mutations.go:3051), with the same exceptions, a
\* middle hop that could not dial the next after its port was reserved, and a
\* port picked by two reservations at once.
THEOREM SpecGoneIsReleased == Spec => []GoneIsReleased
<1>1. TunnelInv => GoneIsReleased
  <2> SUFFICES ASSUME TunnelInv, Quiet,
                      Spared({"met", "lost", "command", "conflict", "raced", "dial"}),
                      NEW t \in Tunnels, NEW h \in Hops \ InUse(t)
               PROVE  row[h][t].status = 0 /\ svc[h][t] = 0 /\ chain[h][t] = NoTarget
    BY DEF GoneIsReleased
  <2>1. Smooth /\ Lucky
    BY DEF Smooth, Lucky, Spared
  <2>2. Unworked(t)
    BY DEF Unworked, Quiet
  <2>3. Sound(t)
    BY <2>1, <2>2 DEF TunnelInv, Tunnelled
  <2>4. PICK p \in Paths \cup {NoPath} :
          /\ bound[t] = p /\ UpTo(t, p, Len(p))
          /\ p # NoPath => tunnel[t] = "there"
    BY <2>3 DEF Sound, Standing
  <2>5. \A i \in 1..Len(p) : h # p[i]
    <3>1. CASE p = NoPath
      BY <3>1, NoPathFacts
    <3>2. CASE p # NoPath
      BY <2>4, <3>2 DEF InUse, HopsOf
    <3> QED
      BY <3>1, <3>2
  <2>6. Out(h, t)
    BY <2>1, <2>4, <2>5 DEF UpTo, Freed
  <2> QED
    BY <2>6 DEF Out
<1> QED
  BY <1>1, SpecTunnelInv, PTL
=============================================================================
