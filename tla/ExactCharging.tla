--------------------------- MODULE ExactCharging ----------------------------
(***************************************************************************)
(* The two halves of the EVRPTW case that must agree: the label search     *)
(* that inserts charging stations into a fixed order of customers, and the *)
(* independent validator that drives a finished route once more.           *)
(*                                                                         *)
(* An instance is [node : name -> [kind, demand, ready, due, service],     *)
(* stations (in the order of the nodes), depot, dist, battery, load, rate, *)
(* refuel, velocity].  Numbers are integers and every leg a multiple of    *)
(* the velocity, so that the code's tolerance of 1e-9 is not needed.       *)
(***************************************************************************)
EXTENDS CaseKernel, FiniteSets

Customers(inst) == {n \in DOMAIN inst.node : inst.node[n].kind = "customer"}
Kind(inst, n) == inst.node[n].kind
Distance(inst, a, b) == inst.dist[a][b]
Energy(inst, a, b) == inst.dist[a][b] * inst.rate
Travel(inst, a, b) == inst.dist[a][b] \div inst.velocity
Later(s, t) == IF s < t THEN t ELSE s
Sooner(s, t) == IF s < t THEN s ELSE t
DemandOf(inst, names) ==
  FoldLeft(LAMBDA total, n : total + inst.node[n].demand, 0, names)

-----------------------------------------------------------------------------
(* One leg of _validate_route: what is wrong is noted and the drive goes   *)
(* on; a station recharges in full.                                        *)
Drive(inst, car, destination) ==
  LET battery == car.battery - Energy(inst, car.at, destination)
      node    == inst.node[destination]
      arrival == Later(car.time + Travel(inst, car.at, destination), node.ready)
      lacking == Later(inst.battery - battery, 0)
      charge  == IF node.kind = "station" THEN lacking * inst.refuel ELSE 0
  IN  [at       |-> destination,
       battery  |-> IF node.kind = "station" THEN inst.battery ELSE battery,
       time     |-> arrival + charge
                      + (IF node.kind = "customer" THEN node.service ELSE 0),
       distance |-> car.distance + Distance(inst, car.at, destination),
       charging |-> car.charging + charge,
       ok       |-> car.ok /\ battery >= 0 /\ arrival <= node.due]

AtDepot(inst) ==
  [at |-> inst.depot, battery |-> inst.battery,
   time |-> Later(0, inst.node[inst.depot].ready),
   distance |-> 0, charging |-> 0, ok |-> TRUE]

CustomersOf(inst, route) == SelectSeq(route, LAMBDA n : Kind(inst, n) = "customer")

(* _validate_route: the report of one route, whoever made it. *)
Driven(inst, route) ==
  FoldLeft(LAMBDA car, d : Drive(inst, car, d), AtDepot(inst), Tail(route))

Report(inst, route, car) ==
  [distance |-> car.distance, charging |-> car.charging,
   feasible |-> /\ Len(route) >= 2
                /\ route[1] = inst.depot /\ route[Len(route)] = inst.depot
                /\ \A i \in 2..Len(route) - 1 : route[i] # inst.depot
                /\ DemandOf(inst, CustomersOf(inst, route)) <= inst.load
                /\ car.ok]

RouteReport(inst, route) ==
  IF ToSet(route) \subseteq DOMAIN inst.node
  THEN Report(inst, route, Driven(inst, route))
  ELSE [distance |-> 0, charging |-> 0, feasible |-> FALSE]

(* validate_routes: every report, and every customer visited exactly once. *)
Served(inst, routes) ==
  FlattenSeq([i \in DOMAIN routes |->
    SelectSeq(routes[i], LAMBDA n : n \in Customers(inst))])

Combined(inst, reports, served) ==
  [vehicles |-> Len(reports),
   distance |-> MapThenSumSet(LAMBDA i : reports[i].distance, DOMAIN reports),
   charging |-> MapThenSumSet(LAMBDA i : reports[i].charging, DOMAIN reports),
   feasible |-> /\ \A i \in DOMAIN reports : reports[i].feasible
                /\ ToSet(served) = Customers(inst) /\ IsInjective(served)]

PlanReport(inst, routes) ==
  Combined(inst, [i \in DOMAIN routes |-> RouteReport(inst, routes[i])],
           Served(inst, routes))

-----------------------------------------------------------------------------
(* A label: how many customers are served, where the vehicle stands and    *)
(* when, with what battery, after what distance and along which path.      *)
InitialLabel(inst) ==
  [progress |-> 0, at |-> inst.depot, time |-> Later(0, inst.node[inst.depot].ready),
   battery |-> inst.battery, distance |-> 0, path |-> <<inst.depot>>]

NoLabel == [label |-> "none"]

(* _extend_with_transition: a leg the battery or a due date forbids yields *)
(* no label.                                                               *)
Extend(inst, label, destination, progress) ==
  LET node    == inst.node[destination]
      energy  == Energy(inst, label.at, destination)
      battery == label.battery - energy
      arrival == Later(label.time + Travel(inst, label.at, destination), node.ready)
      leave   == CASE node.kind = "customer" -> arrival + node.service
                   [] node.kind = "station"  -> arrival + (inst.battery - battery) * inst.refuel
                   [] node.kind = "depot"    -> arrival
  IN  IF \/ energy > label.battery \/ arrival > node.due
         \/ node.kind = "station" /\ leave > node.due
      THEN NoLabel
      ELSE [progress |-> progress, at |-> destination, time |-> leave,
            battery  |-> IF node.kind = "station" THEN inst.battery ELSE battery,
            distance |-> label.distance + Distance(inst, label.at, destination),
            path     |-> Append(label.path, destination)]

(* The next customer, or the depot after the last one; then any station    *)
(* but the one the vehicle stands at.                                      *)
NextStops(inst, order, label) ==
  LET served == label.progress = Len(order)
      detours == SelectSeq(inst.stations, LAMBDA s : s # label.at)
  IN  <<IF served THEN [at |-> inst.depot, progress |-> label.progress]
        ELSE [at |-> order[label.progress + 1], progress |-> label.progress + 1]>>
      \o [i \in DOMAIN detours |-> [at |-> detours[i], progress |-> label.progress]]

(* Mutant: a label that is earlier and shorter wins whatever its battery. *)
DominatesWithoutBattery(l, r) ==
  /\ l.time <= r.time /\ l.distance <= r.distance
  /\ l.time < r.time \/ l.distance < r.distance

Dominates(l, r) ==
  /\ l.time <= r.time /\ l.battery >= r.battery /\ l.distance <= r.distance
  /\ l.time < r.time \/ l.battery > r.battery \/ l.distance < r.distance

BetterTerminal(l, r) == LexLess(<<l.distance, l.time>>, <<r.distance, r.time>>)

SameKey(l, r) == l.progress = r.progress /\ l.at = r.at

(* One candidate extension: a finished route competes with the best one; a *)
(* dominated label is dropped, and drops those it dominates, which stay in *)
(* the queue until they are popped.                                        *)
Competes(inst, order, search, new) ==
  CASE new = NoLabel -> search
    [] new.progress = Len(order) /\ Kind(inst, new.at) = "depot" ->
         IF search.best = NoLabel \/ BetterTerminal(new, search.best)
         THEN [search EXCEPT !.best = new] ELSE search
    [] OTHER ->
         IF \E l \in search.labels : SameKey(l, new) /\ Dominates(l, new)
         THEN search
         ELSE [search EXCEPT
                 !.labels = {l \in @ : ~(SameKey(l, new) /\ Dominates(new, l))}
                              \cup {new},
                 !.queue = Append(@, new)]

Expand(inst, order, search, label) ==
  FoldLeft(LAMBDA s, stop :
             Competes(inst, order, s, Extend(inst, label, stop.at, stop.progress)),
           search, NextStops(inst, order, label))

(* The queue is a heap ordered by distance, time and progress, then age. *)
Priority(label) == <<label.distance, label.time, -label.progress>>
First(queue) ==
  CHOOSE i \in DOMAIN queue : \A j \in DOMAIN queue \ {i} :
    \/ LexLess(Priority(queue[i]), Priority(queue[j]))
    \/ Priority(queue[i]) = Priority(queue[j]) /\ i < j

(* A label no longer kept, or no shorter than the best route, is skipped.  *)
Skipped(search, label) ==
  \/ label \notin search.labels
  \/ search.best # NoLabel /\ label.distance >= search.best.distance

Step(inst, order, search, i) ==
  IF Skipped(search, search.queue[i]) THEN [search EXCEPT !.queue = RemoveAt(@, i)]
  ELSE Expand(inst, order, [search EXCEPT !.queue = RemoveAt(@, i)], search.queue[i])

RECURSIVE Searched(_, _, _)
Searched(inst, order, search) ==
  IF search.queue = <<>> THEN search.best
  ELSE Searched(inst, order, Step(inst, order, search, First(search.queue)))

OrderAllowed(inst, order) ==
  /\ IsInjective(order) /\ ToSet(order) \subseteq Customers(inst)
  /\ DemandOf(inst, order) <= inst.load

NoRoute == [feasible |-> FALSE, route |-> <<>>]
Invalid == [feasible |-> FALSE, route |-> <<>>, invalid |-> TRUE]

(* solve_exact_charging: the route, no route, or an error when the route   *)
(* it found is not one the validator accepts for this order.               *)
Certified(inst, order, best) ==
  CASE best = NoLabel -> NoRoute
    [] ~RouteReport(inst, best.path).feasible
         \/ CustomersOf(inst, best.path) # order -> Invalid
    [] OTHER -> [feasible |-> TRUE, route |-> best.path]

Start(inst) == [labels |-> {InitialLabel(inst)}, queue |-> <<InitialLabel(inst)>>,
                best |-> NoLabel]

Exact(inst, order) ==
  IF OrderAllowed(inst, order)
  THEN Certified(inst, order, Searched(inst, order, Start(inst)))
  ELSE NoRoute
=============================================================================
