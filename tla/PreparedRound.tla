---------------------------- MODULE PreparedRound ----------------------------
(***************************************************************************)
(* One native context over successive rounds: EVRPTWContext.exact_round_v1 *)
(* with its PreparedRoundTransaction and run_exact_charging_parallel,      *)
(* called by NativeEVRPTWOracle.evaluate_batch, whose observations the     *)
(* runtime drains after every evaluation, or directly by a program that    *)
(* sets its own budget.                                                    *)
(*                                                                         *)
(* The pool is what NativeWorkPool shows it to be for a lone caller: each  *)
(* chunk runs once, in any order, and leaves one receipt; parallel_for     *)
(* returns after the last and raises if one raised.                        *)
(***************************************************************************)
EXTENDS Integers, Sequences, FiniteSets, FiniteSetsExt

CONSTANTS
  WorkerCount,   \* worker_count of the context
  RouteCounts,   \* how many routes a round may have
  MaxRounds      \* bound on the rounds of the model

ASSUME RoundAssumption ==
  /\ WorkerCount \in 1..1024
  /\ RouteCounts \subseteq Nat \ {0} /\ IsFiniteSet(RouteCounts)
  /\ MaxRounds \in Nat

VARIABLES
  rounds,         \* how many rounds have begun
  pc,
  source,         \* who called: "oracle" or "context"
  routes, budget, \* route_count and the effective work budget
  timed, expired, \* the call has a deadline; it has passed
  trace, reserved, prepared,  \* PreparedRoundTransaction
  left, raised,   \* chunks still to run; a chunk has raised
  completed,      \* routes whose search completed
  poolReceipts,   \* receipts in the pool
  roundCalls,     \* round_calls_
  observations,   \* of the oracle, not yet drained
  drained,        \* observations the runtime has taken
  result,         \* how the last call ended
  native          \* the oracle's calls the context answered, in order

txnVars     == <<trace, reserved, prepared>>
chunkVars   == <<left, raised, completed>>
requestVars == <<source, routes, budget, timed>>
traceVars   == <<observations, drained, native>>
vars == <<rounds, pc, requestVars, expired, txnVars, chunkVars, poolReceipts,
          roundCalls, traceVars, result>>

-----------------------------------------------------------------------------
(* Defect: one route per worker is taken for enough.                       *)
ThresholdPerWorker == WorkerCount
Threshold == Max({1, WorkerCount * 2})
UseParallel == WorkerCount > 1 /\ routes >= Threshold
ChunkCount == IF UseParallel THEN Min({routes, WorkerCount}) ELSE 1

ChunkFirst(k) == (k - 1) * (routes \div ChunkCount)
                 + Min({k - 1, routes % ChunkCount}) + 1
ChunkRoutes(k) == ChunkFirst(k)..(ChunkFirst(k + 1) - 1)

Policy == IF WorkerCount = 1 THEN "serial_configured"
          ELSE IF UseParallel THEN "parallel" ELSE "serial_small_batch"

Phase == trace[Len(trace)]

Init ==
  /\ rounds = 0 /\ pc = "idle"
  /\ source = "oracle" /\ routes = 1 /\ budget = 1
  /\ timed = FALSE /\ expired = FALSE
  /\ trace = <<"PREPARED">> /\ reserved = 0 /\ prepared = 0
  /\ left = {} /\ raised = FALSE /\ completed = {}
  /\ poolReceipts = 0 /\ roundCalls = 0
  /\ observations = <<>> /\ drained = <<>> /\ native = <<>>
  /\ result = "none"

(* The call is over; nothing it prepared is left behind.                   *)
Finish(how) ==
  /\ result' = how
  /\ pc' = "ended"

-----------------------------------------------------------------------------
(* evaluate_batch up to the native call; a direct call starts here too.    *)
Begin(who, r, b, d) ==
  /\ pc = "idle" /\ rounds < MaxRounds
  /\ rounds' = rounds + 1
  /\ source' = who /\ routes' = r /\ budget' = b /\ timed' = d
  /\ trace' = <<"PREPARED">> /\ reserved' = 0 /\ prepared' = 0
  /\ left' = {} /\ raised' = FALSE /\ completed' = {}
  /\ \E e \in IF d THEN BOOLEAN ELSE {FALSE} :
       /\ expired' = e
       /\ CASE who = "oracle" /\ b # r -> Finish("error")
            [] who = "oracle" /\ b = r /\ e -> Finish("timeout")
            [] OTHER -> pc' = "reserve" /\ UNCHANGED result
  /\ UNCHANGED <<poolReceipts, roundCalls, traceVars>>

Expire ==
  /\ timed /\ ~expired /\ pc \in {"screen", "run"}
  /\ expired' = TRUE
  /\ UNCHANGED <<rounds, pc, requestVars, txnVars, chunkVars, poolReceipts,
                 roundCalls, traceVars, result>>

(* PreparedRoundTransaction.reserve: the whole round or nothing.           *)
Reserve ==
  /\ pc = "reserve"
  /\ IF routes > budget
     THEN /\ trace' = Append(trace, "ABORTED")
          /\ UNCHANGED reserved
          /\ Finish("error")
     ELSE /\ trace' = Append(trace, "RESERVED")
          /\ reserved' = routes
          /\ pc' = "begin" /\ UNCHANGED result
  /\ UNCHANGED <<rounds, requestVars, expired, prepared, chunkVars,
                 poolReceipts, roundCalls, traceVars>>

(* Offsets or indices of a direct call are refused before evaluation.      *)
RefuseInput ==
  /\ pc = "begin" /\ source = "context"
  /\ Finish("error")
  /\ UNCHANGED <<rounds, requestVars, expired, txnVars, chunkVars,
                 poolReceipts, roundCalls, traceVars>>

BeginEvaluation ==
  /\ pc = "begin"
  /\ trace' = Append(trace, "EVALUATING")
  /\ pc' = "screen"
  /\ UNCHANGED <<rounds, requestVars, expired, reserved, prepared, chunkVars,
                 poolReceipts, roundCalls, traceVars, result>>

(* transaction.abort() and rethrow.                                        *)
Abort ==
  /\ trace' = Append(trace, "ABORTED")
  /\ prepared' = 0
  /\ Finish("error")
  /\ UNCHANGED reserved

(* Every route is screened again before any is searched.                   *)
Screen ==
  /\ pc = "screen"
  /\ left' = 1..ChunkCount
  /\ pc' = "run"
  /\ UNCHANGED <<rounds, requestVars, expired, txnVars, raised, completed,
                 poolReceipts, roundCalls, traceVars, result>>

ScreenFails ==
  /\ pc = "screen"
  /\ Abort
  /\ UNCHANGED <<rounds, requestVars, expired, chunkVars, poolReceipts,
                 roundCalls, traceVars>>

-----------------------------------------------------------------------------
(* run_exact on one chunk: before its deadline every route completes, once *)
(* it has passed any of them may be left interrupted.                      *)
RunChunk(k) ==
  /\ pc = "run" /\ k \in left
  /\ left' = left \ {k}
  /\ \E done \in IF expired THEN SUBSET ChunkRoutes(k) ELSE {ChunkRoutes(k)} :
       completed' = completed \cup done
  /\ poolReceipts' = IF UseParallel THEN poolReceipts + 1 ELSE poolReceipts
  /\ UNCHANGED <<rounds, pc, requestVars, expired, txnVars, raised,
                 roundCalls, traceVars, result>>

(* A chunk that raises leaves its receipt all the same.                    *)
ChunkRaises(k) ==
  /\ pc = "run" /\ k \in left
  /\ left' = left \ {k}
  /\ raised' = TRUE
  /\ poolReceipts' = IF UseParallel THEN poolReceipts + 1 ELSE poolReceipts
  /\ UNCHANGED <<rounds, pc, requestVars, expired, txnVars, completed,
                 roundCalls, traceVars, result>>

(* parallel_for rethrows before consume_task_receipts is reached.          *)
Rethrow ==
  /\ pc = "run" /\ left = {} /\ raised
  /\ Abort
  /\ UNCHANGED <<rounds, requestVars, expired, chunkVars, poolReceipts,
                 roundCalls, traceVars>>

(* The pool's receipts are consumed and must be one per chunk; the merged  *)
(* output is then validated, which its construction guarantees.            *)
JoinChunks ==
  /\ pc = "run" /\ left = {} /\ ~raised
  /\ poolReceipts' = IF UseParallel THEN 0 ELSE poolReceipts
  /\ IF UseParallel /\ poolReceipts # ChunkCount
     THEN Abort
     ELSE pc' = "resolve" /\ UNCHANGED <<txnVars, result>>
  /\ UNCHANGED <<rounds, requestVars, expired, chunkVars, roundCalls,
                 traceVars>>

-----------------------------------------------------------------------------
(* Defect: the completed part of an interrupted round is prepared.         *)
ResolvePartly ==
  /\ pc = "resolve"
  /\ trace' = Append(trace, IF Cardinality(completed) < routes
                            THEN "INTERRUPTED" ELSE "VALIDATED")
  /\ prepared' = Cardinality(completed)
  /\ roundCalls' = roundCalls + 1
  /\ native' = IF source = "oracle" THEN Append(native, roundCalls + 1)
               ELSE native
  /\ pc' = IF source = "oracle" THEN "project" ELSE "answer"
  /\ UNCHANGED <<rounds, requestVars, expired, reserved, chunkVars,
                 poolReceipts, observations, drained, result>>

(* The cache keys are prepared only when no work was interrupted; resolve  *)
(* settles the ledger, and the call is counted.                            *)
Resolve ==
  /\ pc = "resolve"
  /\ trace' = Append(trace, IF Cardinality(completed) < routes
                            THEN "INTERRUPTED" ELSE "VALIDATED")
  /\ prepared' = IF Cardinality(completed) < routes THEN 0 ELSE routes
  /\ roundCalls' = roundCalls + 1
  /\ native' = IF source = "oracle" THEN Append(native, roundCalls + 1)
               ELSE native
  /\ pc' = IF source = "oracle" THEN "project" ELSE "answer"
  /\ UNCHANGED <<rounds, requestVars, expired, reserved, chunkVars,
                 poolReceipts, observations, drained, result>>

(* A direct call ends with the receipt itself.                             *)
Answer ==
  /\ pc = "answer"
  /\ Finish("receipt")
  /\ UNCHANGED <<rounds, requestVars, expired, txnVars, chunkVars,
                 poolReceipts, roundCalls, traceVars>>

Receipt ==
  [call |-> roundCalls, phase |-> Phase, trace |-> trace,
   budget |-> budget, reserved |-> reserved, started |-> routes,
   completed |-> Cardinality(completed), prepared |-> prepared,
   policy |-> Policy, scheduled |-> ChunkCount,
   tasks |-> IF UseParallel
             THEN [k \in 1..ChunkCount |->
                     <<ChunkFirst(k) - 1, ChunkFirst(k + 1) - 1>>]
             ELSE <<>>]

ValidTraces == {<<"PREPARED", "RESERVED", "EVALUATING", "VALIDATED">>,
                <<"PREPARED", "RESERVED", "EVALUATING", "INTERRUPTED">>}

(* _validate_projection of the adapter.                                    *)
ProjectionAccepted(r) ==
  /\ r.budget = routes /\ r.reserved = routes
  /\ r.prepared = IF r.phase = "VALIDATED" THEN routes ELSE 0
  /\ r.trace \in ValidTraces
  /\ r.scheduled \in 1..WorkerCount
  /\ WorkerCount = 1 => r.policy = "serial_configured"
  /\ WorkerCount > 1 /\ routes < WorkerCount * 2 =>
       r.policy = "serial_small_batch"
  /\ WorkerCount > 1 /\ routes >= WorkerCount * 2 => r.policy = "parallel"

(* Defect: the observation of an interrupted round is skipped.             *)
RecordIfValidated ==
  /\ pc = "project" /\ ProjectionAccepted(Receipt)
  /\ observations' = IF Phase = "VALIDATED" THEN Append(observations, Receipt)
                     ELSE observations
  /\ Finish(IF Phase = "INTERRUPTED" THEN "timeout" ELSE "solutions")
  /\ UNCHANGED <<rounds, requestVars, expired, txnVars, chunkVars,
                 poolReceipts, roundCalls, drained, native>>

(* The observation is kept first, and only then the interruption raised.   *)
Record ==
  /\ pc = "project" /\ ProjectionAccepted(Receipt)
  /\ observations' = Append(observations, Receipt)
  /\ Finish(IF Phase = "INTERRUPTED" THEN "timeout" ELSE "solutions")
  /\ UNCHANGED <<rounds, requestVars, expired, txnVars, chunkVars,
                 poolReceipts, roundCalls, drained, native>>

(* The runtime drains after every evaluation, one that raised included.    *)
Drain ==
  /\ pc = "ended"
  /\ drained' = drained \o observations
  /\ observations' = <<>>
  /\ pc' = "idle"
  /\ UNCHANGED <<rounds, requestVars, expired, txnVars, chunkVars,
                 poolReceipts, roundCalls, native, result>>

NoMoreRounds == pc = "idle" /\ rounds = MaxRounds /\ UNCHANGED vars

Next ==
  \/ \E who \in {"oracle", "context"}, r \in RouteCounts, d \in BOOLEAN :
       \E b \in (r - 1)..(r + 1) : Begin(who, r, b, d)
  \/ Expire \/ Reserve \/ RefuseInput \/ BeginEvaluation
  \/ Screen \/ ScreenFails
  \/ \E k \in left : RunChunk(k) \/ ChunkRaises(k)
  \/ Rethrow \/ JoinChunks \/ Resolve \/ Answer \/ Record \/ Drain
  \/ NoMoreRounds

Spec == Init /\ [][Next]_vars

-----------------------------------------------------------------------------
(* _validate_native_round_observations of the independent reviewer *)

ReviewedPolicy(o) ==
  IF WorkerCount = 1 THEN "serial_configured"
  ELSE IF o.reserved >= WorkerCount * 2 THEN "parallel"
  ELSE "serial_small_batch"

ReviewedScheduled(o) ==
  IF ReviewedPolicy(o) = "parallel" THEN Min({o.reserved, WorkerCount}) ELSE 1

ObservationReviewed(o) ==
  LET interrupted == o.started - o.completed
  IN /\ interrupted >= 0 /\ o.started <= o.reserved
     /\ o.budget >= o.reserved
     /\ o.trace \in ValidTraces /\ o.phase = o.trace[Len(o.trace)]
     /\ IF o.phase = "VALIDATED"
        THEN interrupted = 0 /\ o.started = o.reserved
             /\ o.prepared = o.completed
        ELSE o.prepared = 0 /\ (interrupted # 0 \/ o.started # o.reserved)
     /\ o.policy = ReviewedPolicy(o) /\ o.scheduled = ReviewedScheduled(o)
     /\ Len(o.tasks) = IF o.policy = "parallel" THEN o.scheduled ELSE 0
     /\ \A k \in 1..Len(o.tasks) :
          /\ o.tasks[k][1] = IF k = 1 THEN 0 ELSE o.tasks[k - 1][2]
          /\ o.tasks[k][1] < o.tasks[k][2]
     /\ o.tasks # <<>> => o.tasks[Len(o.tasks)][2] = o.reserved

-----------------------------------------------------------------------------
(* Properties *)

(* Every phase, count and set of the round stays in its type.              *)
TypeOK ==
  /\ rounds \in 0..MaxRounds
  /\ pc \in {"idle", "reserve", "begin", "screen", "run", "resolve",
             "answer", "project", "ended"}
  /\ source \in {"oracle", "context"} /\ budget \in Nat
  /\ routes \in RouteCounts \cup {1}
  /\ timed \in BOOLEAN /\ expired \in BOOLEAN
  /\ trace \in Seq({"PREPARED", "RESERVED", "EVALUATING", "VALIDATED",
                    "ABORTED", "INTERRUPTED"})
  /\ reserved \in 0..budget /\ prepared \in 0..routes
  /\ left \subseteq 1..WorkerCount /\ raised \in BOOLEAN
  /\ completed \subseteq 1..routes
  /\ poolReceipts \in Nat /\ roundCalls \in 0..rounds
  /\ result \in {"none", "solutions", "receipt", "timeout", "error"}

(* Solutions are returned only by a round that prepared a cache delta for  *)
(* every route, and no route of it was interrupted or left out; whatever   *)
(* is not VALIDATED leaves no prepared delta.                              *)
PreparedOrNothing ==
  /\ pc \in {"ended", "idle"} /\ result = "solutions" =>
       completed = 1..routes /\ prepared = routes
  /\ Phase # "VALIDATED" => prepared = 0

(* Each native call the oracle got an answer from is observed exactly      *)
(* once and in order, an interrupted one included, and drained once.       *)
ObservedOnce ==
  LET seen == drained \o observations
  IN pc # "project" => [k \in 1..Len(seen) |-> seen[k].call] = native

(* What the native round says of itself passes the adapter and the         *)
(* independent reviewer: the three agree on the thresholds and ledgers.    *)
ReceiptsReviewed ==
  /\ pc = "project" => ProjectionAccepted(Receipt)
  /\ \A k \in 1..Len(drained) : ObservationReviewed(drained[k])
  /\ \A k \in 2..Len(drained) : drained[k - 1].call < drained[k].call

(* Physical task receipts are drained at each native round boundary.       *)
DrainedAtBoundary == pc \in {"idle", "ended"} => poolReceipts = 0
=============================================================================
