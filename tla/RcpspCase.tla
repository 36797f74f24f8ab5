----------------------------- MODULE RcpspCase ------------------------------
(***************************************************************************)
(* The RCPSP case: instances and how they are parsed, precedence feasible  *)
(* orders, the schedule an exact solver may return for an order and a mode *)
(* vector, the independent validator of schedules, and the search kernel.  *)
(*                                                                         *)
(* An instance is [activity : ids -> [pred, modes], capacities]; a mode is *)
(* [duration, demands].  Mode indices count from 1.  A state is an order   *)
(* of the activities with the mode of each position; a schedule is a state *)
(* with an item [mode, start, end] per activity and a makespan.            *)
(***************************************************************************)
EXTENDS CaseKernel, FiniteSets

Refused == [refused |-> TRUE]

Ids(inst) == DOMAIN inst.activity
Resources(inst) == DOMAIN inst.capacities

(* The rules of the constructors of Activity and RCPSPInstance. *)
Constructible(inst) ==
  /\ Ids(inst) # {} /\ inst.capacities # <<>>
  /\ \A a \in Ids(inst) :
       /\ inst.activity[a].pred \subseteq Ids(inst) \ {a}
       /\ inst.activity[a].modes # <<>>
       /\ \A k \in DOMAIN inst.activity[a].modes :
            Len(inst.activity[a].modes[k].demands) = Len(inst.capacities)

-----------------------------------------------------------------------------
(* A PSPLIB file: its headings in order, and the numeric rows below each.  *)
Headings == <<"precedence", "requests", "capacities">>

Sectioned(file) == file.headings = Headings

(* A precedence row: activity, number of modes, number of successors,      *)
(* successors.                                                             *)
Successors(row) == SubSeq(row, 4, Len(row))

PrecedenceRead(rows) ==
  /\ rows # <<>>
  /\ \A i \in DOMAIN rows :
       /\ Len(rows[i]) >= 3 /\ rows[i][2] > 0
       /\ rows[i][3] = Len(Successors(rows[i]))
       /\ \A j \in 1..i - 1 : rows[j][1] # rows[i][1]

(* Mutant: a continuation row belongs to the first activity named. *)
OwnerFirstNamed(rows, i, width) ==
  LET named == {j \in 1..i : Len(rows[j]) = width + 3 /\ (j = i \/ Len(rows[i]) = width + 2)}
  IN  rows[CHOOSE j \in named : \A k \in named : j <= k][1]

(* A request row names its activity, or continues the last that did. *)
Owner(rows, i, width) ==
  LET named == {j \in 1..i : Len(rows[j]) = width + 3}
  IN  rows[CHOOSE j \in named : \A k \in named : k <= j][1]
Request(row, width) == SubSeq(row, Len(row) - width - 1, Len(row))

RequestsRead(rows, width, ids) ==
  \A i \in DOMAIN rows :
    /\ \/ Len(rows[i]) = width + 3
       \/ Len(rows[i]) = width + 2 /\ \E j \in 1..i : Len(rows[j]) = width + 3
    /\ Owner(rows, i, width) \in ids
    /\ \A j \in 1..i - 1 :
         <<Owner(rows, i, width), Request(rows[i], width)[1]>>
           # <<Owner(rows, j, width), Request(rows[j], width)[1]>>

(* The instance of rows that were read: successors inverted, every mode an *)
(* activity declares looked up by its number, other request rows unused.   *)
Assembled(file) ==
  LET width == Len(file.capacities[1])
      row(a) == CHOOSE r \in ToSet(file.precedence) : r[1] = a
      ids == {r[1] : r \in ToSet(file.precedence)}
      asked(a, k) == {i \in DOMAIN file.requests :
                        /\ Owner(file.requests, i, width) = a
                        /\ Request(file.requests[i], width)[1] = k}
      mode(a, k) == LET r == Request(file.requests[CHOOSE i \in asked(a, k) : TRUE], width)
                    IN  [duration |-> r[2], demands |-> SubSeq(r, 3, Len(r))]
  IN  IF \/ \E a \in ids : ~(ToSet(Successors(row(a))) \subseteq ids)
         \/ \E a \in ids : ~IsInjective(Successors(row(a)))
         \/ \E a \in ids : \E k \in 1..row(a)[2] : asked(a, k) = {}
      THEN Refused
      ELSE [activity |-> [a \in ids |->
              [pred |-> {b \in ids : a \in ToSet(Successors(row(b)))},
               modes |-> [k \in 1..row(a)[2] |-> mode(a, k)]]],
            capacities |-> file.capacities[1]]

Parse(file) ==
  IF /\ Sectioned(file)
     /\ Len(file.capacities) = 1 /\ file.capacities[1] # <<>>
     /\ PrecedenceRead(file.precedence)
     /\ RequestsRead(file.requests, Len(file.capacities[1]),
                     {r[1] : r \in ToSet(file.precedence)})
  THEN LET inst == Assembled(file)
       IN  IF inst = Refused \/ ~Constructible(inst) THEN Refused ELSE inst
  ELSE Refused

(* The least topological order with the first mode of every activity; a    *)
(* cycle is refused.                                                       *)
RECURSIVE Ordered(_, _)
Ordered(inst, order) ==
  LET left  == Ids(inst) \ ToSet(order)
      ready == {a \in left : inst.activity[a].pred \subseteq ToSet(order)}
  IN  CASE left = {}  -> [order |-> order, modes |-> [p \in DOMAIN order |-> 1]]
        [] ready # {} -> Ordered(inst, Append(order, Min(ready)))
        [] OTHER      -> Refused

InitialState(inst) == Ordered(inst, <<>>)

-----------------------------------------------------------------------------
Position(st, a) == CHOOSE p \in DOMAIN st.order : st.order[p] = a
ModeOf(st, a) == st.modes[Position(st, a)]
Mode(inst, st, a) == inst.activity[a].modes[ModeOf(st, a)]

(* Mutant: a mode that no capacity can hold is admitted. *)
ScreenWithoutDemand(inst, st) ==
  /\ ToSet(st.order) = Ids(inst)
  /\ \A a \in Ids(inst) :
       /\ ModeOf(st, a) \in DOMAIN inst.activity[a].modes
       /\ \A b \in inst.activity[a].pred : Position(st, b) < Position(st, a)

Screen(inst, st) ==
  /\ ToSet(st.order) = Ids(inst)
  /\ \A a \in Ids(inst) :
       /\ ModeOf(st, a) \in DOMAIN inst.activity[a].modes
       /\ \A b \in inst.activity[a].pred : Position(st, b) < Position(st, a)
       /\ \A r \in Resources(inst) :
            Mode(inst, st, a).demands[r] <= inst.capacities[r]

(* The longest chain of predecessors, for a state that screens. *)
LowerBound(inst, st) ==
  LET ends[p \in DOMAIN st.order] ==
        LET before == {q \in 1..p - 1 :
                         st.order[q] \in inst.activity[st.order[p]].pred}
        IN  Max({0} \cup {ends[q] : q \in before})
              + Mode(inst, st, st.order[p]).duration
  IN  Max({0} \cup {ends[p] : p \in DOMAIN st.order})

(* The demand for a resource at an instant, as the state's modes give it. *)
Demand(inst, sch, r, t) ==
  MapThenSumSet(LAMBDA a : Mode(inst, sch.state, a).demands[r],
                {a \in DOMAIN sch.item :
                   sch.item[a].start <= t /\ t < sch.item[a].end})

FitsAt(inst, sch, t) ==
  \A r \in Resources(inst) : Demand(inst, sch, r, t) <= inst.capacities[r]

-----------------------------------------------------------------------------
(* validate_schedule: shares nothing with the solver. *)
ModesKept(inst, sch) ==
  \A a \in Ids(inst) :
    /\ ModeOf(sch.state, a) \in DOMAIN inst.activity[a].modes
    /\ sch.item[a].mode = ModeOf(sch.state, a)
    /\ sch.item[a].start >= 0
    /\ sch.item[a].end = sch.item[a].start + Mode(inst, sch.state, a).duration

PrecedenceKept(inst, sch) ==
  \A a \in Ids(inst) : \A b \in inst.activity[a].pred :
    /\ Position(sch.state, b) < Position(sch.state, a)
    /\ sch.item[b].end <= sch.item[a].start

StartsInOrder(sch) ==
  \A p \in 1..Len(sch.state.order) - 1 :
    sch.item[sch.state.order[p]].start <= sch.item[sch.state.order[p + 1]].start

(* Mutant: capacity is looked at where activities end. *)
EndsAlone(sch) == {sch.item[a].end : a \in DOMAIN sch.item}

(* Capacity is looked at where an activity starts or ends, nowhere else. *)
Boundaries(sch) == UNION {{sch.item[a].start, sch.item[a].end} : a \in DOMAIN sch.item}
CapacityKept(inst, sch) == \A t \in Boundaries(sch) : FitsAt(inst, sch, t)

Makespan(item) == Max({0} \cup {item[a].end : a \in DOMAIN item})

Valid(inst, sch) ==
  /\ ToSet(sch.state.order) = Ids(inst) /\ DOMAIN sch.item = Ids(inst)
  /\ ModesKept(inst, sch) /\ PrecedenceKept(inst, sch) /\ StartsInOrder(sch)
  /\ CapacityKept(inst, sch)
  /\ sch.makespan = Makespan(sch.item)

-----------------------------------------------------------------------------
(* The constraint model given to the solver for one state: starts between  *)
(* zero and the sum of the durations, precedence, starts in the order, and *)
(* every resource's cumulative constraint, which holds at every instant.   *)
Horizon(inst, st) == MapThenSumSet(LAMBDA a : Mode(inst, st, a).duration, Ids(inst))

ScheduleAt(inst, st, start) ==
  LET item == [a \in Ids(inst) |->
                [mode |-> ModeOf(st, a), start |-> start[a],
                 end |-> start[a] + Mode(inst, st, a).duration]]
  IN  [state |-> st, item |-> item, makespan |-> Makespan(item)]

Solutions(inst, st) ==
  LET horizon == Horizon(inst, st)
      IsSolution(sch) ==
        /\ sch.makespan <= horizon
        /\ \A a \in Ids(inst) : \A b \in inst.activity[a].pred :
             sch.item[b].end <= sch.item[a].start
        /\ StartsInOrder(sch)
        /\ \A t \in 0..horizon : FitsAt(inst, sch, t)
  IN  {sch \in {ScheduleAt(inst, st, start) : start \in [Ids(inst) -> 0..horizon]} :
         IsSolution(sch)}

(* What the solver, asked for the least makespan, may return. *)
Optimal(inst, st) ==
  LET all == Solutions(inst, st)
  IN  {sch \in all : \A other \in all : sch.makespan <= other.makespan}

-----------------------------------------------------------------------------
(* The search kernel: every block of at most MaxBlock activities put back  *)
(* elsewhere with the modes its activities had, then every change of one   *)
(* mode.                                                                   *)
Moved(st, size, start, insertion) ==
  LET block == SubSeq(st.order, start, start + size - 1)
      rest  == SubSeq(st.order, 1, start - 1)
                 \o SubSeq(st.order, start + size, Len(st.order))
      order == SubSeq(rest, 1, insertion) \o block
                 \o SubSeq(rest, insertion + 1, Len(rest))
  IN  [order |-> order, modes |-> [p \in DOMAIN order |-> ModeOf(st, order[p])]]

BlockMoves(st, maxBlock) ==
  LET n == Len(st.order)
      Moves(size) ==
        FlattenSeq([start \in 1..n - size + 1 |->
          [k \in 1..n - size + 1 |-> Moved(st, size, start, k - 1)]])
      sizes == IF maxBlock < n THEN maxBlock ELSE n
  IN  SelectSeq(FlattenSeq([size \in 1..sizes |-> Moves(size)]),
                LAMBDA moved : moved.order # st.order)

ModeChanges(inst, st) ==
  LET Others(p) ==
        SelectSeq([k \in DOMAIN inst.activity[st.order[p]].modes |-> k],
                  LAMBDA k : k # st.modes[p])
  IN  FlattenSeq([p \in DOMAIN st.order |->
        [k \in DOMAIN Others(p) |-> [st EXCEPT !.modes[p] = Others(p)[k]]]])

Neighbours(inst, sch, maxBlock) ==
  Unique(BlockMoves(sch.state, maxBlock) \o ModeChanges(inst, sch.state))

Key(sch) == <<sch.makespan>> \o sch.state.order \o sch.state.modes

(* The least makespan, then order, then modes, if it beats the snapshot. *)
Decide(snapshot, evaluated) ==
  LET best == CHOOSE sch \in ToSet(evaluated) :
                \A other \in ToSet(evaluated) : ~LexLess(Key(other), Key(sch))
  IN  IF evaluated # <<>> /\ best.makespan < snapshot.makespan
      THEN best ELSE snapshot
=============================================================================
