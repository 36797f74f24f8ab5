----------------------------- MODULE Evaluation -----------------------------
(***************************************************************************)
(* PythonTxnRuntime._evaluate_barrier and _evaluate_ordered: one round's   *)
(* misses evaluated on a thread pool.  The barrier mode submits a fixed    *)
(* partition at once; the ordered mode keeps a window of single candidates *)
(* in flight.  Both collect the results in candidate order, whatever the   *)
(* order the threads finish in.                                            *)
(*                                                                         *)
(* The submitting thread is one process, every pool thread another; status *)
(* is the state of the futures they share.                                 *)
(***************************************************************************)
EXTENDS Integers, Sequences, FiniteSets, FiniteSetsExt

CONSTANTS
  N,        \* how many candidates missed the cache
  Work,     \* total work units of a set of candidates
  Modes,    \* RunConfig.execution_mode: "barrier" or "ordered"
  Workers,  \* RunConfig.workers
  Window    \* RunConfig.speculation_window

Candidates == 1..N

ASSUME SizeAssumption ==
  /\ N \in Nat \ {0} /\ Workers \in Nat \ {0} /\ Window \in Nat \ {0}
  /\ Modes \subseteq {"barrier", "ordered"}

ASSUME WorkAssumption ==
  /\ Work \in [SUBSET Candidates -> Nat]
  /\ Work[{}] = 0
  /\ \A i \in Candidates : Work[{i}] > 0
  /\ \A S, T \in SUBSET Candidates :
       S \cap T = {} => Work[S \cup T] = Work[S] + Work[T]

VARIABLES
  mode,       \* of the run
  fails,      \* the candidates whose evaluation raises or is misshapen
  pc,         \* of the submitting thread
  status,     \* the future of each task
  submitted,  \* tasks 1..submitted have been submitted
  collected,  \* tasks 1..collected have been collected
  results,    \* candidates whose results were collected, in order
  error,      \* the candidate whose error surfaced; 0 for none
  scan,       \* the future the abort handler looks at next
  counted,    \* the tasks it found not done
  started, reserved  \* the round's share of BudgetLedger

vars == <<mode, fails, pc, status, submitted, collected, results, error, scan,
          counted, started, reserved>>
taskVars   == <<status>>
ledgerVars == <<started, reserved>>
abortVars  == <<error, scan, counted>>

-----------------------------------------------------------------------------
(* Tasks: contiguous chunks of even size, or single candidates *)

Minimum(a, b) == IF a < b THEN a ELSE b

ChunkCount == Minimum(Workers, N)
Width == Minimum(Minimum(Workers, Window), N)

TaskCount == IF mode = "barrier" THEN ChunkCount ELSE N
Tasks == 1..TaskCount
Threads == IF mode = "barrier" THEN ChunkCount ELSE Width

(* The candidates before chunk t: the first N % ChunkCount chunks hold one *)
(* more than the others.                                                   *)
Offset(t) == (t - 1) * (N \div ChunkCount) + Minimum(t - 1, N % ChunkCount)

Span(t) == IF mode = "barrier" THEN (Offset(t) + 1)..Offset(t + 1) ELSE {t}

Spans(S) == UNION {Span(t) : t \in S}
MaxRequest == Max({Work[{i}] : i \in Candidates})

-----------------------------------------------------------------------------
Init ==
  /\ mode \in Modes
  /\ fails \in SUBSET Candidates
  /\ pc = "run"
  /\ status = [t \in Tasks |-> "new"]
  /\ submitted = 0 /\ collected = 0 /\ results = <<>>
  /\ error = 0 /\ scan = 0 /\ counted = {}
  /\ started = 0 /\ reserved = Work[Candidates]

(* Defect: the window counts futures that are not done yet.                *)
CanSubmitUndone ==
  /\ submitted < TaskCount
  /\ mode = "ordered" =>
       Cardinality({t \in 1..submitted : status[t] # "done"}) < Width

(* The barrier submits everything; the ordered window has room while fewer *)
(* than width futures are pending, done or not.                            *)
CanSubmit ==
  /\ submitted < TaskCount
  /\ mode = "ordered" => submitted - collected < Width

Submit ==
  /\ pc = "run" /\ CanSubmit
  /\ submitted' = submitted + 1
  /\ status' = [status EXCEPT ![submitted + 1] = "queued"]
  /\ started' = started + Work[Span(submitted + 1)]
  /\ reserved' = reserved - Work[Span(submitted + 1)]
  /\ UNCHANGED <<mode, fails, pc, collected, results, abortVars>>

NextTask == collected + 1

(* future.result() of the next task in order.                              *)
Collect ==
  /\ pc = "run" /\ ~CanSubmit /\ collected < TaskCount
  /\ status[NextTask] = "done" /\ Span(NextTask) \cap fails = {}
  /\ results' = results \o [k \in 1..Cardinality(Span(NextTask)) |->
                              Min(Span(NextTask)) + k - 1]
  /\ collected' = NextTask
  /\ pc' = IF NextTask = TaskCount THEN "shutdown" ELSE "run"
  /\ UNCHANGED <<mode, fails, submitted, taskVars, abortVars, ledgerVars>>

(* Defect: the first failure to happen surfaces, not the first in order.   *)
CollectAnyFailure ==
  /\ pc = "run" /\ ~CanSubmit
  /\ \E t \in Tasks :
       /\ status[t] = "done" /\ Span(t) \cap fails # {}
       /\ error' = Min(Span(t) \cap fails)
  /\ pc' = "count" /\ scan' = 1
  /\ UNCHANGED <<mode, fails, submitted, collected, results, taskVars, counted,
                 ledgerVars>>

CollectFailure ==
  /\ pc = "run" /\ ~CanSubmit /\ collected < TaskCount
  /\ status[NextTask] = "done" /\ Span(NextTask) \cap fails # {}
  /\ error' = Min(Span(NextTask) \cap fails)
  /\ pc' = "count" /\ scan' = 1
  /\ UNCHANGED <<mode, fails, submitted, collected, results, taskVars, counted,
                 ledgerVars>>

-----------------------------------------------------------------------------
(* The exception handler: count the futures not done, then cancel each,    *)
(* looking at one at a time while the pool keeps running.                  *)

(* Defect: only futures already running are counted.                       *)
NotDoneIfRunning(t) == status[t] = "running"
NotDone(t) == status[t] \in {"queued", "running"}

CountPending ==
  /\ pc = "count" /\ scan <= submitted
  /\ counted' = IF NotDone(scan) THEN counted \cup {scan} ELSE counted
  /\ scan' = scan + 1
  /\ UNCHANGED <<mode, fails, pc, submitted, collected, results, error,
                 taskVars, ledgerVars>>

StartCancelling ==
  /\ pc = "count" /\ scan > submitted
  /\ pc' = "cancel" /\ scan' = 1
  /\ UNCHANGED <<mode, fails, submitted, collected, results, error, counted,
                 taskVars, ledgerVars>>

Cancel ==
  /\ pc = "cancel" /\ scan <= submitted
  /\ status' = IF status[scan] = "queued"
               THEN [status EXCEPT ![scan] = "cancelled"] ELSE status
  /\ scan' = scan + 1
  /\ UNCHANGED <<mode, fails, pc, submitted, collected, results, error,
                 counted, ledgerVars>>

(* release_reserved, and the abort raised to the round.                    *)
Release ==
  /\ pc = "cancel" /\ scan > submitted
  /\ reserved' = 0
  /\ pc' = "shutdown"
  /\ UNCHANGED <<mode, fails, submitted, collected, results, taskVars,
                 abortVars, started>>

(* executor.shutdown(wait=True): joins the pool.                           *)
Shutdown ==
  /\ pc = "shutdown"
  /\ \A t \in Tasks : ~NotDone(t)
  /\ pc' = "done"
  /\ UNCHANGED <<mode, fails, submitted, collected, results, taskVars,
                 abortVars, ledgerVars>>

-----------------------------------------------------------------------------
(* The pool: a first-in first-out queue and at most Threads at work *)

Start(t) ==
  /\ status[t] = "queued"
  /\ \A u \in Tasks : status[u] = "queued" => t <= u
  /\ Cardinality({u \in Tasks : status[u] = "running"}) < Threads
  /\ status' = [status EXCEPT ![t] = "running"]
  /\ UNCHANGED <<mode, fails, pc, submitted, collected, results, abortVars,
                 ledgerVars>>

Finish(t) ==
  /\ status[t] = "running"
  /\ status' = [status EXCEPT ![t] = "done"]
  /\ UNCHANGED <<mode, fails, pc, submitted, collected, results, abortVars,
                 ledgerVars>>

Returned == pc = "done" /\ UNCHANGED vars

Next ==
  \/ Submit \/ Collect \/ CollectFailure
  \/ CountPending \/ StartCancelling \/ Cancel \/ Release \/ Shutdown
  \/ \E t \in Tasks : Start(t) \/ Finish(t)
  \/ Returned

Spec == Init /\ [][Next]_vars

-----------------------------------------------------------------------------
(* Properties *)

(* Every future, counter and collected result stays in its type.           *)
TypeOK ==
  /\ mode \in Modes /\ fails \in SUBSET Candidates
  /\ pc \in {"run", "count", "cancel", "shutdown", "done"}
  /\ status \in [Tasks -> {"new", "queued", "running", "done", "cancelled"}]
  /\ submitted \in 0..TaskCount /\ collected \in 0..submitted
  /\ results \in Seq(Candidates)
  /\ error \in {0} \cup Candidates
  /\ scan \in 0..(TaskCount + 1) /\ counted \in SUBSET Tasks
  /\ started \in Nat /\ reserved \in Nat

(* Both modes refine a single ordered batch: the same results in the same  *)
(* order, or the error of the first candidate that fails, whatever the     *)
(* threads do and whichever failure happens first.                         *)
Batch == INSTANCE BatchEvaluation WITH
  outcome <- IF pc # "done" THEN [kind |-> "pending"]
             ELSE IF error = 0 THEN [kind |-> "results", values |-> results]
             ELSE [kind |-> "error", of |-> error]

ImplementsBatch == Batch!Spec

(* The tasks a run submits before it sees that candidate i has failed.     *)
SubmittedAt(i) ==
  IF mode = "barrier" THEN Tasks ELSE 1..Minimum(i - 1 + Width, N)

(* The work a round is charged depends on the failing candidate alone and  *)
(* never on timing, so a replay charges the same; nothing stays reserved.  *)
ChargeIsDeterministic ==
  pc = "done" =>
    /\ reserved = 0
    /\ started = IF error = 0 THEN Work[Candidates]
                 ELSE Work[Spans(SubmittedAt(error))]

(* When the call returns, no thread of the pool still uses the oracle: the *)
(* runtime may roll back and call it again.                                *)
NoStragglers ==
  pc = "done" => \A t \in Tasks : status[t] \in {"new", "done", "cancelled"}

(* T4: whatever still runs once the handler has counted was counted, and   *)
(* the count stays within the capacity the handler declares with it.       *)
RunningIsCounted ==
  pc \in {"cancel", "shutdown", "done"} /\ error # 0 =>
    /\ {t \in Tasks : status[t] = "running"} \subseteq counted
    /\ Work[Spans(counted)] <= IF mode = "barrier" THEN Work[Candidates]
                               ELSE Width * MaxRequest

(* The step TxnRuntime takes for a failed evaluation allows this outcome:  *)
(* a barrier has submitted everything, the failing task is never counted,  *)
(* and an ordered run leaves fewer than width candidates unfinished.       *)
WithinRuntimeStep ==
  pc = "done" /\ error # 0 =>
    /\ mode = "barrier" => submitted = TaskCount
    /\ NextTask \notin counted /\ counted \subseteq 1..submitted
    /\ mode = "ordered" => Cardinality(Spans(counted)) < Width

(* The boundary of a round: what the handler counts there is all that may  *)
(* still run and no more than the runtime's audit allows, and nothing runs *)
(* past the return of the call.                                            *)
BoundaryAccounted == RunningIsCounted /\ WithinRuntimeStep /\ NoStragglers
=============================================================================
