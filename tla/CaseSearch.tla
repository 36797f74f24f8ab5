----------------------------- MODULE CaseSearch -----------------------------
(***************************************************************************)
(* A search over a case, as case_codec executes it: the case is read and a *)
(* first state built, then the runtime runs rounds in which the case's     *)
(* kernel proposes, candidates are admitted in screened batches, the       *)
(* oracle evaluates them and the kernel decides; the incumbent of the end  *)
(* is reviewed by independent reconstruction.  The transaction around a    *)
(* round (budget, cache, phases) is TxnRuntime's; here it is the contents. *)
(*                                                                         *)
(* A third kind of case, a stream, stands for any other kernel and oracle: *)
(* its candidates are keys in any order, repeated or not, of which it      *)
(* screens some; only the admission of its round is of interest.           *)
(***************************************************************************)
EXTENDS Admission, RouteCache

CONSTANTS
  Cases,      \* the cases that may be executed, each with its max_candidates
              \* (limit, where 0 is none) and max_generations (rounds)
  MaxBlock    \* the RCPSP kernel's max_block_size

VARIABLES
  case,       \* the case executed
  inst,       \* its instance, once read
  pc,
  incumbent,  \* the state visible at the start of the round
  round,
  results     \* results[i]: what candidate i of the admitted evaluated to

vars == <<case, inst, pc, incumbent, round, results, admissionVars, cache, worker>>

R == INSTANCE RcpspCase
E == INSTANCE EvrptwCase
K == INSTANCE CaseKernel

None == [none |-> TRUE]
Pending == [pending |-> TRUE]

Domain == case.domain

Init ==
  /\ case \in Cases
  /\ inst = None /\ pc = "load" /\ incumbent = None /\ round = 0
  /\ results = <<>> /\ AdmissionInit /\ CacheInit

-----------------------------------------------------------------------------
(* The routes a screening looks up: it stops at the first it rejects. *)
ScreenLookups(plan) ==
  LET bad == {i \in DOMAIN plan : ~E!ScreenRoute(case.inst, plan[i])}
      n == IF bad = {} THEN Len(plan) ELSE CHOOSE i \in bad : \A j \in bad : i <= j
  IN  [i \in 1..n |-> [cache |-> "screen", key |-> plan[i]]]

(* A feasible solution is reported when it is built, then validated: its   *)
(* plan is screened and its routes are reported again.                     *)
ReportLookups(routes) == [i \in DOMAIN routes |-> [cache |-> "report", key |-> routes[i]]]
ValidationLookups(sol) == ScreenLookups(sol.plan) \o ReportLookups(sol.routes)
EvaluationLookups(sol) ==
  IF sol.feasible THEN ReportLookups(sol.routes) \o ValidationLookups(sol) ELSE <<>>
Validations(sols) == FlattenSeq([i \in DOMAIN sols |-> ValidationLookups(sols[i])])

-----------------------------------------------------------------------------
(* The first state.  An RCPSP case is parsed, its least order is solved;   *)
(* an EVRPTW plan is constructed from what the routing solver found.       *)
LoadRcpsp ==
  /\ Domain = "rcpsp" /\ UNCHANGED <<cache, worker>>
  /\ LET read  == R!Parse(case.file)
         first == R!InitialState(read)
     IN  /\ inst' = read
         /\ IF read = R!Refused \/ first = R!Refused \/ ~R!Screen(read, first)
            THEN pc' = "refused" /\ UNCHANGED incumbent
            ELSE IF R!Optimal(read, first) = {}
            THEN pc' = "raised" /\ UNCHANGED incumbent
            ELSE pc' = "propose" /\ incumbent' \in R!Optimal(read, first)

StartEvrptw(first) ==
  IF first = E!Raised THEN pc' = "refused" /\ UNCHANGED incumbent
  ELSE IF first.feasible THEN pc' = "propose" /\ incumbent' = first
  ELSE pc' = "raised" /\ UNCHANGED incumbent

(* solve_initial, then the runtime's validate and objective. *)
StartLookups(first) ==
  ScreenLookups(first.plan) \o ScreenLookups(first.plan) \o EvaluationLookups(first)
    \o Validations(<<first, first, first>>)

LoadEvrptw ==
  /\ Domain = "evrptw"
  /\ inst' = case.inst
  /\ \E sequences \in E!Sequences(case.inst) :
       \E first \in {E!Construct(case.inst, sequences)} :
         /\ StartEvrptw(first)
         /\ IF first = E!Raised THEN UNCHANGED <<cache, worker>>
            ELSE LookAlone(StartLookups(first))

LoadStream ==
  Domain = "stream" /\ pc' = "propose" /\ UNCHANGED <<inst, incumbent, cache, worker>>

Load ==
  /\ pc = "load"
  /\ LoadRcpsp \/ LoadEvrptw \/ LoadStream
  /\ UNCHANGED <<case, round, results, admissionVars>>

-----------------------------------------------------------------------------
Neighbours == IF Domain = "rcpsp" THEN R!Neighbours(inst, incumbent, MaxBlock)
              ELSE E!Neighbours(incumbent.plan)

(* propose cuts more than can be admitted, for screening to choose from. *)
Oversupply == IF Domain = "rcpsp" THEN 4 ELSE 64

Screens(c) ==
  CASE Domain = "rcpsp"  -> R!Screen(inst, c)
    [] Domain = "evrptw" -> E!Screen(inst, c)
    [] Domain = "stream" -> c \in case.screened

Proposals ==
  IF Domain = "stream" THEN {case.candidates}
  ELSE LET near == Neighbours
       IN  {K!Rotated(near, word, case.limit * Oversupply) : word \in 0..Len(near) - 1}

Propose ==
  /\ pc = "propose" /\ round < case.rounds
  /\ IF Proposals = {} THEN pc' = "review" /\ UNCHANGED admissionVars
     ELSE \E stream \in Proposals :
            /\ Begin(stream, {c \in ToSet(stream) : Screens(c)}, case.limit)
            /\ pc' = "admit"
  /\ UNCHANGED <<case, inst, incumbent, round, results, cache, worker>>

RoundsOver ==
  /\ pc = "propose" /\ round = case.rounds
  /\ pc' = "review"
  /\ UNCHANGED <<case, inst, incumbent, round, results, admissionVars, cache, worker>>

(* One batch of _admit_candidates; screening an EVRPTW batch looks up its  *)
(* routes.                                                                 *)
Admit ==
  /\ pc = "admit" /\ AdmitBatch
  /\ IF Domain = "evrptw"
     THEN LET batch == Picked(NextBatch)
          IN  LookAlone(FlattenSeq([i \in DOMAIN batch |-> ScreenLookups(batch[i])]))
     ELSE UNCHANGED <<cache, worker>>
  /\ UNCHANGED <<case, inst, pc, incumbent, round, results>>

(* Nothing admissible ends the run; otherwise the batch is evaluated. *)
EndAdmission ==
  /\ pc = "admit" /\ AdmissionOver
  /\ IF Domain = "stream" \/ adm.admitted = <<>>
     THEN pc' = "review" /\ UNCHANGED results
     ELSE pc' = "evaluate" /\ results' = [i \in DOMAIN adm.admitted |-> Pending]
  /\ UNCHANGED <<case, inst, incumbent, round, admissionVars, cache, worker>>

-----------------------------------------------------------------------------
(* RCPSP: the solver, on each admitted state in turn. *)
SolveRcpsp ==
  /\ pc = "evaluate" /\ Domain = "rcpsp"
  /\ \E i \in DOMAIN results :
       /\ results[i] = Pending /\ \A j \in 1..i - 1 : results[j] # Pending
       /\ LET solved == R!Optimal(inst, adm.admitted[i])
          IN  IF solved = {} \/ \E sch \in solved : ~R!Valid(inst, sch)
              THEN pc' = "raised" /\ UNCHANGED results
              ELSE UNCHANGED pc /\ \E sch \in solved : results' = [results EXCEPT ![i] = sch]
  /\ UNCHANGED <<case, inst, incumbent, round, admissionVars, cache, worker>>

(* EVRPTW: a thread takes the next candidate, and looks up its routes; a   *)
(* feasible result is reported and validated, through the caches again.    *)
Submit(w) ==
  /\ pc = "evaluate" /\ Domain = "evrptw" /\ worker[w] = IdleWorker
  /\ \E i \in DOMAIN results :
       /\ results[i] = Pending
       /\ \A j \in 1..i - 1 : results[j] # Pending \/ \E v \in Evaluators : worker[v].task = j
       /\ \A v \in Evaluators : worker[v].task # i
       /\ Assign(w, i, ScreenLookups(adm.admitted[i]))
  /\ UNCHANGED <<case, inst, pc, incumbent, round, results, admissionVars, cache>>

Evaluated(w, sol) ==
  IF sol = E!Raised
  THEN pc' = "raised" /\ UNCHANGED <<results, worker>>
  ELSE /\ results' = [results EXCEPT ![worker[w].task] = sol]
       /\ Assign(w, worker[w].task, EvaluationLookups(sol))
       /\ UNCHANGED pc

SolveEvrptw(w) ==
  /\ pc = "evaluate" /\ worker[w].step = "ask" /\ worker[w].todo = <<>>
  /\ LET i == worker[w].task
     IN  IF results[i] = Pending
         THEN \E sol \in {E!Evaluate(inst, adm.admitted[i])} : Evaluated(w, sol)
         ELSE Leave(w) /\ UNCHANGED <<pc, results>>
  /\ UNCHANGED <<case, inst, incumbent, round, admissionVars, cache>>

RouteLookup(w) ==
  /\ pc = "evaluate" /\ CacheStep(w)
  /\ UNCHANGED <<case, inst, pc, incumbent, round, results, admissionVars>>

(* A deadline: nothing of the round is kept (see TxnRuntime). *)
Interrupt ==
  /\ pc = "evaluate" /\ CacheAtRest
  /\ \E i \in DOMAIN results : results[i] = Pending
  /\ pc' = "review"
  /\ UNCHANGED <<case, inst, incumbent, round, results, admissionVars, cache, worker>>

-----------------------------------------------------------------------------
(* The kernel decides among the results in candidate order; every result   *)
(* and the state decided on have been validated by the oracle.             *)
Decided == IF Domain = "rcpsp" THEN R!Decide(incumbent, results)
           ELSE E!Decide(incumbent, results)

ResultValid(r) ==
  IF Domain = "rcpsp" THEN R!Valid(inst, r) ELSE E!Validates(inst, r)

Decide ==
  /\ pc = "evaluate" /\ CacheAtRest
  /\ \A i \in DOMAIN results : results[i] # Pending
  /\ IF \A i \in DOMAIN results : ResultValid(results[i])
     THEN incumbent' = Decided /\ round' = round + 1 /\ pc' = "propose"
     ELSE pc' = "invalid" /\ UNCHANGED <<incumbent, round>>
  /\ IF Domain = "rcpsp" THEN UNCHANGED <<cache, worker>>
     ELSE LookAlone(Validations(results \o <<Decided, Decided>>))
  /\ results' = <<>> /\ Begin(<<>>, {}, 0)
  /\ UNCHANGED <<case, inst>>

(* review_case: validator, objective and digest, from the case and the     *)
(* result alone.                                                           *)
Reviewed(sol) ==
  IF Domain = "rcpsp" THEN R!Valid(inst, sol)
  ELSE sol.feasible /\ E!Validates(inst, sol)

Review ==
  /\ pc = "review"
  /\ pc' = IF Domain = "stream" \/ Reviewed(incumbent) THEN "accepted" ELSE "rejected"
  /\ UNCHANGED <<case, inst, incumbent, round, results, admissionVars, cache, worker>>

Ended == pc \in {"accepted", "rejected", "refused", "raised", "invalid"} /\ UNCHANGED vars

Evaluation ==
  \/ SolveRcpsp \/ Interrupt
  \/ \E w \in Evaluators : Submit(w) \/ SolveEvrptw(w) \/ RouteLookup(w)

Next ==
  \/ Load \/ Propose \/ RoundsOver \/ Admit \/ EndAdmission
  \/ Evaluation \/ Decide \/ Review \/ Ended

Spec == Init /\ [][Next]_vars

-----------------------------------------------------------------------------
(* No case reaches an error of its oracle or a validation failure: what    *)
(* screens can be solved, a solver's schedule passes the validator, exact  *)
(* charging and the validator agree, and a plan split until charging       *)
(* accepts it is one the screening accepts.  The reviewer accepts what the *)
(* search returns.                                                         *)
NeverRaises ==
  /\ pc \notin {"raised", "invalid", "rejected"}
  /\ pc = "refused" /\ Domain = "evrptw" =>
       \E c \in E!Customers(inst) : ~E!Exact(inst, <<c>>).feasible

(* Insertions of stations the reference tries: before, between and after   *)
(* the customers, any few different stations.                              *)
Detours(i) == UNION {E!Injection(1..n, ToSet(i.stations)) : n \in 0..Len(i.stations)}
Insertions(i, order) ==
  {<<i.depot>> \o FlattenSeq([k \in DOMAIN order |-> detour[k] \o <<order[k]>>])
     \o detour[Len(order) + 1] \o <<i.depot>> :
   detour \in [1..Len(order) + 1 -> Detours(i)]}

(* A vehicle leaves every station before the station's due date: exact     *)
(* charging asks for it, the validator only looks at arrivals.             *)
ChargesInTime(i, route) ==
  \A n \in 2..Len(route) : E!Kind(i, route[n]) = "station" =>
    FoldLeft(LAMBDA car, d : E!Drive(i, car, d), E!AtDepot(i), SubSeq(route, 2, n)).time
      <= i.node[route[n]].due

(* The label search finds a shortest of all valid insertions, or none when *)
(* there is none, for every order of customers it may be asked about; and  *)
(* neither the screening nor the reachability matrix handed to the native  *)
(* kernels rejects an order the validator accepts some insertion for.      *)
ExactIsExact ==
  pc = "load" /\ Domain = "evrptw" =>
    LET i == case.inst IN
    \A order \in UNION {E!Injection(1..n, E!Customers(i)) :
                           n \in 1..Cardinality(E!Customers(i))} :
      LET valid == {r \in Insertions(i, order) : E!RouteReport(i, r).feasible}
          good  == {r \in valid : ChargesInTime(i, r)}
          exact == E!Exact(i, order)
          chain == E!Chain(i, order)
      IN  /\ exact # E!Invalid
          /\ exact.feasible <=> good # {}
          /\ exact.feasible =>
               /\ exact.route \in good
               /\ \A r \in good : E!RouteReport(i, exact.route).distance
                                    <= E!RouteReport(i, r).distance
          /\ valid # {} =>
               /\ E!ScreenRoute(i, order)
               /\ \A n \in E!Legs(i, order) : E!NativeReachable(i, chain[n], chain[n + 1])

(* The validator of schedules samples capacity only where an activity      *)
(* starts or ends, yet accepts exactly the schedules that keep every rule  *)
(* at every instant; and no optimum is below the declared lower bound.     *)
BoundariesSuffice ==
  pc = "propose" /\ round = 0 /\ Domain = "rcpsp" =>
    LET st == incumbent.state
        horizon == R!Horizon(inst, st)
        Keeps(sch) ==
          /\ \A a \in R!Ids(inst) : \A b \in inst.activity[a].pred :
               sch.item[b].end <= sch.item[a].start
          /\ R!StartsInOrder(sch)
          /\ \A t \in 0..2 * horizon : R!FitsAt(inst, sch, t)
    IN  /\ \A start \in [R!Ids(inst) -> 0..horizon] :
             LET sch == R!ScheduleAt(inst, st, start)
             IN  R!Valid(inst, sch) <=> Keeps(sch)
        /\ \A near \in {c \in ToSet(Neighbours) : R!Screen(inst, c)} :
             \A sch \in R!Optimal(inst, near) : R!LowerBound(inst, near) <= sch.makespan

(* What a file declares is what is read from it, or nothing is; and the    *)
(* search starts from the least order that respects precedence.            *)
ReadsTheFile ==
  Domain = "rcpsp" /\ pc # "load" =>
    /\ inst = case.declares
    /\ round = 0 /\ incumbent # None =>
         \A other \in {o \in SetToSeqs(R!Ids(inst)) :
              R!Screen(inst, [order |-> o, modes |-> [p \in DOMAIN o |-> 1]])} :
           ~K!LexLess(other, incumbent.state.order)

(* A round commits a result nothing it evaluated beats, one the reviewer   *)
(* accepts, and moves only to improve.                                     *)
Beats(a, b) ==
  IF Domain = "rcpsp" THEN a.makespan < b.makespan
  ELSE a.feasible /\ K!LexLess(a.objective, b.objective)

CommitsTheBest ==
  [][pc = "evaluate" /\ pc' = "propose" =>
       /\ incumbent' \in {incumbent} \cup ToSet(results)
       /\ incumbent' # incumbent => Beats(incumbent', incumbent)
       /\ \A r \in ToSet(results) : ~Beats(r, incumbent')
       /\ Reviewed(incumbent')]_vars
=============================================================================
