---------------------------- MODULE MCCaseSearch ----------------------------
(* Small cases: two RCPSP instances written out as PSPLIB files and the    *)
(* ways such a file may be damaged, two EVRPTW instances on a line and on  *)
(* a 3-4-5 rectangle, and streams of three keys.                           *)
EXTENDS CaseSearch, TLC

CONSTANTS w1, w2

Symmetric == Permutations(Evaluators)

-----------------------------------------------------------------------------
Task(pred, modes) == [pred |-> pred, modes |-> modes]
Does(duration, demands) == [duration |-> duration, demands |-> demands]

(* Two branches between a source and a sink, one with a second mode that   *)
(* is faster and needs the whole resource.                                 *)
Branches ==
  [activity |-> <<Task({}, <<Does(0, <<0>>)>>),
                  Task({1}, <<Does(2, <<1>>), Does(1, <<2>>)>>),
                  Task({1}, <<Does(2, <<2>>)>>),
                  Task({2, 3}, <<Does(0, <<0>>)>>)>>,
   capacities |-> <<2>>]

(* Two resources, no source or sink, and a milestone that needs a share.   *)
Milestone ==
  [activity |-> <<Task({3}, <<Does(1, <<1, 0>>), Does(2, <<0, 1>>)>>),
                  Task({}, <<Does(0, <<1, 0>>)>>),
                  Task({}, <<Does(2, <<1, 1>>)>>)>>,
   capacities |-> <<1, 1>>]

Cyclic ==
  [activity |-> <<Task({2}, <<Does(1, <<1>>)>>), Task({1}, <<Does(1, <<1>>)>>)>>,
   capacities |-> <<1>>]

TooHeavy ==
  [activity |-> <<Task({}, <<Does(1, <<2>>)>>)>>, capacities |-> <<1>>]

(* The file of an instance: one row per activity, one per mode, the later  *)
(* modes of an activity as continuation rows.                              *)
File(i) ==
  LET succ(a) == SetToSortSeq({b \in DOMAIN i.activity : a \in i.activity[b].pred}, <)
      modes(a) == i.activity[a].modes
      request(a, k) == (IF k = 1 THEN <<a>> ELSE <<>>)
                         \o <<k, modes(a)[k].duration>> \o modes(a)[k].demands
  IN  [headings |-> <<"precedence", "requests", "capacities">>,
       precedence |-> [a \in DOMAIN i.activity |->
         <<a, Len(modes(a)), Len(succ(a))>> \o succ(a)],
       requests |-> FlattenSeq([a \in DOMAIN i.activity |->
         [k \in DOMAIN modes(a) |-> request(a, k)]]),
       capacities |-> <<i.capacities>>]

Scheduled(file, declared) ==
  [domain |-> "rcpsp", file |-> file, declares |-> declared, limit |-> 2, rounds |-> 2]
Declared(i) == Scheduled(File(i), i)
Damaged(file) == Scheduled(file, [refused |-> TRUE])

Damages ==
  LET f == File(Branches) IN
  {[f EXCEPT !.headings = <<"requests", "precedence", "capacities">>],
   [f EXCEPT !.headings = Append(@, "requests")],
   [f EXCEPT !.capacities = <<>>],
   [f EXCEPT !.capacities = <<<<2>>, <<2>>>>],
   [f EXCEPT !.capacities = <<<<2, 2>>>>],
   [f EXCEPT !.precedence = <<>>],
   [f EXCEPT !.precedence[4] = <<4, 1>>],
   [f EXCEPT !.precedence[4] = <<3, 1, 0>>],
   [f EXCEPT !.precedence[1][3] = 3],
   [f EXCEPT !.precedence[2][2] = 3],
   [f EXCEPT !.precedence[3][2] = 0],
   [f EXCEPT !.precedence[3][4] = 5],
   [f EXCEPT !.precedence[3][4] = 3],
   [f EXCEPT !.precedence[1][5] = 2],
   [f EXCEPT !.requests = Tail(@)],
   [f EXCEPT !.requests = RemoveAt(@, 3)],
   [f EXCEPT !.requests = <<<<1, 0, 0>>>> \o @],
   [f EXCEPT !.requests = Append(@, <<5, 1, 0, 0>>)],
   [f EXCEPT !.requests = Append(@, <<4, 1, 2, 2>>)],
   [f EXCEPT !.requests = Append(@, <<4, 1>>)]}

-----------------------------------------------------------------------------
Depot(due) == [kind |-> "depot", demand |-> 0, ready |-> 0, due |-> due, service |-> 0]
Station(due) == [kind |-> "station", demand |-> 0, ready |-> 0, due |-> due, service |-> 0]
Customer(demand, ready, due, service) ==
  [kind |-> "customer", demand |-> demand, ready |-> ready, due |-> due, service |-> service]

Between(x, y) == IF x < y THEN y - x ELSE x - y

(* Depot and customers on a line, one station at the far end and one near  *)
(* the middle that closes early.                                           *)
Line ==
  LET at == [D |-> 0, F |-> 4, G |-> 2, a |-> 3, b |-> 5] IN
  [node |-> [D |-> Depot(30), F |-> Station(30), G |-> Station(5),
             a |-> Customer(1, 0, 12, 1), b |-> Customer(1, 6, 20, 1)],
   stations |-> <<"F", "G">>, depot |-> "D",
   dist |-> [x \in DOMAIN at |-> [y \in DOMAIN at |-> Between(at[x], at[y])]],
   battery |-> 7, load |-> 2, rate |-> 1, refuel |-> 1, velocity |-> 1]

(* Depot, station and two customers at the corners of a rectangle, a third *)
(* beside the depot; the load of two of them is all a vehicle carries.     *)
Rectangle ==
  LET d == [D |-> [D |-> 0, F |-> 4, a |-> 3, b |-> 5, c |-> 1],
            F |-> [D |-> 4, F |-> 0, a |-> 5, b |-> 3, c |-> 5],
            a |-> [D |-> 3, F |-> 5, a |-> 0, b |-> 4, c |-> 4],
            b |-> [D |-> 5, F |-> 3, a |-> 4, b |-> 0, c |-> 5],
            c |-> [D |-> 1, F |-> 5, a |-> 4, b |-> 5, c |-> 0]] IN
  [node |-> [D |-> Depot(24), F |-> Station(24),
             a |-> Customer(1, 0, 4, 0), b |-> Customer(1, 0, 15, 1),
             c |-> Customer(1, 2, 20, 0)],
   stations |-> <<"F">>, depot |-> "D", dist |-> d,
   battery |-> 11, load |-> 2, rate |-> 1, refuel |-> 1, velocity |-> 1]

(* Two stations that cost energy, time and waiting to charge at, neither   *)
(* always the better one; the depot opens late.                            *)
Chargers ==
  LET at == [D |-> 0, F |-> 4, G |-> 6, a |-> 2, b |-> 8] IN
  [node |-> [D |-> [Depot(40) EXCEPT !.ready = 1], F |-> [Station(30) EXCEPT !.ready = 8],
             G |-> Station(24), a |-> Customer(1, 4, 20, 2), b |-> Customer(1, 0, 25, 0)],
   stations |-> <<"F", "G">>, depot |-> "D",
   dist |-> [x \in DOMAIN at |-> [y \in DOMAIN at |-> Between(at[x], at[y])]],
   battery |-> 16, load |-> 2, rate |-> 2, refuel |-> 1, velocity |-> 2]

(* A customer no battery reaches. *)
Unreachable == [Line EXCEPT !.battery = 2]

Drives(i, most, rounds) ==
  [domain |-> "evrptw", inst |-> i, limit |-> most, rounds |-> rounds]

-----------------------------------------------------------------------------
Streams ==
  [domain : {"stream"}, candidates : UNION {[1..n -> 1..3] : n \in 1..5},
   screened : {{}, {1}, {2, 3}, {1, 2, 3}}, limit : 0..3, rounds : {1}]

MCCases ==
  {Declared(Branches), Declared(Milestone), Declared(Cyclic), Declared(TooHeavy)}
    \cup {Damaged(f) : f \in Damages}
    \cup {Drives(Line, 2, 2), Drives(Rectangle, 2, 1), Drives(Chargers, 2, 2), Drives(Unreachable, 2, 1)}
    \cup Streams
=============================================================================
