----------------------------- MODULE EvrptwCase -----------------------------
(***************************************************************************)
(* The EVRPTW case above exact charging: the optimistic screening of a     *)
(* route, plans (the customers of each route, in order) and the solutions  *)
(* they evaluate to, the objective, the neighbourhoods, the decision and   *)
(* the construction of the first plan.                                     *)
(***************************************************************************)
EXTENDS ExactCharging

Raised == [raised |-> TRUE]
Visits(plan) == FlattenSeq(plan)

-----------------------------------------------------------------------------
(* _screen_route_safely: what no insertion of stations could repair.       *)
Chain(inst, route) == <<inst.depot>> \o route \o <<inst.depot>>
Legs(inst, route) == 1..Len(route) + 1

(* The earliest arrival at every stop if no detour is ever needed. *)
EarliestAt(inst, route) ==
  LET chain == Chain(inst, route)
      at[i \in DOMAIN chain] ==
        IF i = 1 THEN Later(0, inst.node[inst.depot].ready)
        ELSE Later(at[i - 1] + (IF i = 2 THEN 0 ELSE inst.node[chain[i - 1]].service)
                     + Travel(inst, chain[i - 1], chain[i]),
                   inst.node[chain[i]].ready)
  IN  at

(* The latest arrival that still lets every later stop be met. *)
LatestAt(inst, route) ==
  LET chain == Chain(inst, route)
      n == Len(chain)
      at[i \in 2..n] ==
        IF i = n THEN inst.node[inst.depot].due
        ELSE Sooner(inst.node[chain[i]].due,
                    at[i + 1] - Travel(inst, chain[i], chain[i + 1])
                      - inst.node[chain[i]].service)
  IN  at

InTime(inst, route) ==
  LET chain == Chain(inst, route)
      earliest == EarliestAt(inst, route)
      latest == LatestAt(inst, route)
  IN  /\ \A i \in 2..Len(chain) : earliest[i] <= inst.node[chain[i]].due
      /\ \A i \in 2..Len(chain) - 1 : earliest[i] <= latest[i]

(* Whether a vehicle that leaves the origin full may get to the            *)
(* destination, recharging at any of the stops on the way.                 *)
RECURSIVE Reaches(_, _, _, _, _)
Reaches(inst, stops, frontier, seen, destination) ==
  \/ \E a \in frontier : Energy(inst, a, destination) <= inst.battery
  \/ LET next == {s \in stops \ seen :
                    \E a \in frontier : Energy(inst, a, s) <= inst.battery}
     IN  next # {} /\ Reaches(inst, stops, next, seen \cup next, destination)

EnergyReachable(inst, a, b) ==
  a = b \/ Reaches(inst, ToSet(inst.stations), {a}, {a}, b)

(* The native context's matrix also counts the depot as a recharge stop. *)
NativeReachable(inst, a, b) ==
  Reaches(inst, ToSet(inst.stations) \cup {inst.depot}, {a}, {}, b)

(* Around each customer the battery carries the vehicle from a recharge    *)
(* stop to the customer and on to another.                                 *)
StructuralEnergy(inst, route) ==
  LET stops == {inst.depot} \cup ToSet(inst.stations)
      nearest(c) == Min({Energy(inst, s, c) : s \in stops})
                      + Min({Energy(inst, c, s) : s \in stops})
  IN  Max({nearest(c) : c \in ToSet(route)})

ScreenRoute(inst, route) ==
  LET chain == Chain(inst, route)
  IN  /\ DemandOf(inst, route) <= inst.load
      /\ InTime(inst, route)
      /\ \A i \in Legs(inst, route) : EnergyReachable(inst, chain[i], chain[i + 1])
      /\ StructuralEnergy(inst, route) <= inst.battery

(* _screen_one: every customer exactly once, and every route screens. *)
Screen(inst, plan) ==
  /\ IsInjective(Visits(plan)) /\ ToSet(Visits(plan)) = Customers(inst)
  /\ \A i \in DOMAIN plan : ScreenRoute(inst, plan[i])

-----------------------------------------------------------------------------
(* Vehicles first, then distance, charging time and charging visits. *)
Objective(inst, routes, report) ==
  <<report.vehicles, report.distance, report.charging,
    Len(SelectSeq(FlattenSeq(routes), LAMBDA n : Kind(inst, n) = "station"))>>
ObjectiveOf(inst, routes) == Objective(inst, routes, PlanReport(inst, routes))

Infeasible(plan) == [plan |-> plan, routes |-> <<>>, feasible |-> FALSE, objective |-> <<>>]

(* EVRPTWOracle.validate: whether it returns or raises. *)
Validates(inst, sol) ==
  /\ Screen(inst, sol.plan)
  /\ IF ~sol.feasible THEN sol.routes = <<>>
     ELSE /\ PlanReport(inst, sol.routes).feasible
          /\ sol.objective = ObjectiveOf(inst, sol.routes)
          /\ [i \in DOMAIN sol.routes |-> CustomersOf(inst, sol.routes[i])] = sol.plan

(* The charging subproblem of every route, solved apart. *)
ExactRoutes(inst, plan) == [i \in DOMAIN plan |-> Exact(inst, plan[i])]

Checked(inst, sol) ==
  IF PlanReport(inst, sol.routes).feasible /\ Validates(inst, sol) THEN sol ELSE Raised

SolutionFromRoutes(inst, plan, routes) ==
  Checked(inst, [plan |-> plan, routes |-> routes, feasible |-> TRUE,
                 objective |-> ObjectiveOf(inst, routes)])

SolutionFromExact(inst, plan, exact) ==
  CASE Invalid \in ToSet(exact) -> Raised
    [] \E i \in DOMAIN exact : ~exact[i].feasible -> Infeasible(plan)
    [] OTHER -> SolutionFromRoutes(inst, plan, [i \in DOMAIN exact |-> exact[i].route])

(* _evaluate_one *)
Evaluate(inst, plan) ==
  IF Screen(inst, plan) THEN SolutionFromExact(inst, plan, ExactRoutes(inst, plan))
  ELSE Raised

-----------------------------------------------------------------------------
(* The neighbourhoods: two routes joined, one customer moved, two customers *)
(* exchanged, in the order the code yields them.                            *)
Nonempty(plan) == SelectSeq(plan, LAMBDA route : route # <<>>)

Merges(plan) ==
  LET n == Len(plan)
      Joined(l, r, route) ==
        InsertAt(RemoveAt(RemoveAt(plan, r), l), l, route)
  IN  FlattenSeq([l \in 1..n |-> FlattenSeq([k \in 1..n - l |->
        <<Joined(l, l + k, plan[l] \o plan[l + k]),
          Joined(l, l + k, plan[l + k] \o plan[l])>>])])

(* The customer at p of route r, put before position q of route t. *)
Relocated(plan, r, p, t, q) ==
  LET c == plan[r][p]
      shortened == RemoveAt(plan[r], p)
  IN  IF r = t
      THEN [plan EXCEPT ![r] = InsertAt(shortened, IF q > p THEN q - 1 ELSE q, c)]
      ELSE Nonempty([plan EXCEPT ![r] = shortened, ![t] = InsertAt(@, q, c)])

Relocations(plan) ==
  LET Targets(r, p, t) ==
        SelectSeq([q \in 1..Len(plan[t]) + 1 |-> q],
                  LAMBDA q : ~(r = t /\ q \in {p, p + 1}))
  IN  FlattenSeq([r \in DOMAIN plan |-> FlattenSeq([p \in DOMAIN plan[r] |->
        FlattenSeq([t \in DOMAIN plan |->
          [k \in DOMAIN Targets(r, p, t) |->
             Relocated(plan, r, p, t, Targets(r, p, t)[k])]])])])

Swaps(plan) ==
  LET places == FlattenSeq([r \in DOMAIN plan |->
                  [p \in DOMAIN plan[r] |-> <<r, p>>]])
      At(x) == plan[x[1]][x[2]]
      Swapped(x, y) == [plan EXCEPT ![x[1]][x[2]] = At(y), ![y[1]][y[2]] = At(x)]
  IN  FlattenSeq([i \in DOMAIN places |->
        [k \in 1..Len(places) - i |-> Swapped(places[i], places[i + k])]])

Neighbours(plan) == Unique(Merges(plan) \o Relocations(plan) \o Swaps(plan))

(* Mutant: every result is compared with the snapshot, so the last wins. *)
DecideLast(snapshot, evaluated) ==
  FoldLeft(LAMBDA incumbent, sol :
             IF sol.feasible /\ LexLess(sol.objective, snapshot.objective)
             THEN sol ELSE incumbent,
           snapshot, evaluated)

(* The first of the best feasible results, if it beats the snapshot. *)
Decide(snapshot, evaluated) ==
  FoldLeft(LAMBDA incumbent, sol :
             IF sol.feasible /\ LexLess(sol.objective, incumbent.objective)
             THEN sol ELSE incumbent,
           snapshot, evaluated)

-----------------------------------------------------------------------------
(* The routing solver asked for a first plan without batteries: customers  *)
(* in sequences that respect load and time windows, in some order.         *)
TimelyWithoutCharging(inst, seq) ==
  /\ DemandOf(inst, seq) <= inst.load
  /\ \A i \in 2..Len(seq) + 2 :
       EarliestAt(inst, seq)[i] <= inst.node[Chain(inst, seq)[i]].due

Sequences(inst) ==
  LET orders == SetToSeqs(Customers(inst))
      n == Cardinality(Customers(inst))
      Cut(order, ends) ==
        LET sorted == SetToSortSeq(ends \cup {n}, <)
        IN  [k \in DOMAIN sorted |->
              SubSeq(order, (IF k = 1 THEN 0 ELSE sorted[k - 1]) + 1, sorted[k])]
  IN  {plan \in {Cut(order, ends) : order \in orders, ends \in SUBSET (1..n - 1)} :
         \A i \in DOMAIN plan : TimelyWithoutCharging(inst, plan[i])}

(* A sequence is halved until exact charging accepts every part; a single  *)
(* customer it refuses is an error, marked by a part without customers (as *)
(* an Invalid answer would be, if there were one; see ExactIsExact).       *)
RECURSIVE Split(_, _)
Split(inst, seq) ==
  LET middle == Len(seq) \div 2 IN
  CASE Exact(inst, seq).feasible -> <<seq>>
    [] Len(seq) > 1 -> Split(inst, SubSeq(seq, 1, middle))
                         \o Split(inst, SubSeq(seq, middle + 1, Len(seq)))
    [] OTHER -> <<<<>>>>

(* construct_initial_plan, then solve_initial: the first solution. *)
FirstSolution(inst, plan) ==
  IF <<>> \in ToSet(plan) THEN Raised ELSE Evaluate(inst, plan)

Construct(inst, sequences) ==
  FirstSolution(inst, FlattenSeq([i \in DOMAIN sequences |-> Split(inst, sequences[i])]))
=============================================================================
