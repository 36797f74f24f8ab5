--------------------------- MODULE NativeWorkPool ---------------------------
(***************************************************************************)
(* NativeWorkPool of cpp/txnopt_core/concurrency.hpp: a bounded queue of   *)
(* chunks, worker threads that run them, and callers of parallel_for, of   *)
(* wait_until_idle and of consume_task_receipts.                           *)
(*                                                                         *)
(* A step is one critical section of mutex_, or what happens between two   *)
(* of them.  Steps that need mutex_ wait for Free: only wait_until_idle    *)
(* can be seen holding it, between its predicate and its wait.             *)
(***************************************************************************)
EXTENDS Integers, Sequences, FiniteSets, FiniteSetsExt, Functions

CONSTANTS
  Callers, Workers,
  Count,        \* Count[c]: the indices of each parallel_for of caller c
  Nested,       \* the <<c, i>> whose function may call parallel_for again
  Raising,      \* the <<c, i>> whose function may raise
  Calls,        \* how often each caller calls parallel_for
  Drains,       \* what may follow: the next call ("start"), "consume", or
                \* "idle" and then consume
  MaxPending,   \* maximum_pending_tasks_
  MaxReceipts,  \* maximum_task_receipts
  MayStop       \* whether the destructor runs

ASSUME PoolAssumption ==
  /\ IsFiniteSet(Callers) /\ IsFiniteSet(Workers) /\ Workers # {}
  /\ Count \in [Callers -> Nat \ {0}]
  /\ Calls \in Nat /\ MaxPending \in Nat \ {0} /\ MaxReceipts \in Nat
  /\ Drains \subseteq {"start", "consume", "idle"} /\ MayStop \in BOOLEAN

VARIABLES
  tasks, receipts, stopping,     \* guarded by mutex_
  active, completed, dropped,    \* atomic counters
  receiptError,                  \* task_receipt_error_ is set: it never clears
  pc, call, remaining, failed,   \* callers, with their Completion
  outcome,                       \* how their last call ended
  wpc, task, index, threw, lost, \* workers
  destructor,
  runs,      \* runs[c][i]: how often index i of the current call has run
  raised,    \* the callers one of whose indices has raised in this call
  consumed   \* receipts handed out so far

poolVars   == <<tasks, receipts, stopping, active, completed, dropped,
                receiptError>>
callerVars == <<pc, call, remaining, failed, outcome>>
workerVars == <<wpc, task, index, threw, lost>>
ghostVars  == <<runs, raised, consumed>>
vars == <<poolVars, callerVars, workerVars, destructor, ghostVars>>

-----------------------------------------------------------------------------
(* Chunks: a call is cut into one contiguous range per worker *)

ChunkCount(c) == Min({Count[c], Cardinality(Workers)})

(* Defect: the remainder of the division is dropped.                       *)
FirstRoundedDown(c, k) == (k - 1) * (Count[c] \div ChunkCount(c)) + 1

First(c, k) == (k - 1) * (Count[c] \div ChunkCount(c))
               + Min({k - 1, Count[c] % ChunkCount(c)}) + 1
Last(c, k)  == First(c, k + 1) - 1

Chunks(c) == [k \in 1..ChunkCount(c) |-> [owner |-> c, chunk |-> k]]
NoTask == [owner |-> "none", chunk |-> 0]
TaskSet == UNION {Range(Chunks(c)) : c \in Callers}

Free == \A c \in Callers : pc[c] # "blocking"

Fits(c) == Len(tasks) + ChunkCount(c) <= MaxPending
Idle == tasks = <<>> /\ active = 0

(* Any number of the callers is present; the others never call.            *)
Init ==
  /\ tasks = <<>> /\ receipts = 0 /\ stopping = FALSE
  /\ active = 0 /\ completed = 0 /\ dropped = 0 /\ receiptError = FALSE
  /\ \E present \in SUBSET Callers \ {{}} :
       /\ pc = [c \in Callers |-> IF c \in present THEN "start" ELSE "done"]
       /\ call = [c \in Callers |-> IF c \in present THEN 0 ELSE Calls]
  /\ remaining = [c \in Callers |-> 0]
  /\ failed = [c \in Callers |-> FALSE]
  /\ outcome = [c \in Callers |-> "none"]
  /\ wpc = [w \in Workers |-> "idle"]
  /\ task = [w \in Workers |-> NoTask]
  /\ index = [w \in Workers |-> 0]
  /\ threw = [w \in Workers |-> FALSE]
  /\ lost = [w \in Workers |-> FALSE]
  /\ destructor = "live"
  /\ runs = [c \in Callers |-> [i \in 1..Count[c] |-> 0]]
  /\ raised = {} /\ consumed = 0

-----------------------------------------------------------------------------
(* parallel_for on a thread that is not a worker *)

(* The call ends: the next one starts, or the caller is done.              *)
End(c, result, next) ==
  /\ outcome' = [outcome EXCEPT ![c] = result]
  /\ pc' = [pc EXCEPT ![c] =
       IF next # "start" THEN next
       ELSE IF call[c] < Calls THEN "start" ELSE "done"]

Call(c) ==
  /\ pc[c] = "start" /\ call[c] < Calls
  /\ call' = [call EXCEPT ![c] = @ + 1]
  /\ runs' = [runs EXCEPT ![c] = [i \in 1..Count[c] |-> 0]]
  /\ raised' = raised \ {c}
  /\ failed' = [failed EXCEPT ![c] = FALSE]
  /\ IF receiptError \/ ChunkCount(c) > MaxPending
     THEN /\ outcome' = [outcome EXCEPT ![c] = "refused"]
          /\ pc' = [pc EXCEPT ![c] = IF call[c] + 1 < Calls THEN "start"
                                     ELSE "done"]
          /\ UNCHANGED remaining
     ELSE /\ pc' = [pc EXCEPT ![c] = "enqueue"]
          /\ remaining' = [remaining EXCEPT ![c] = ChunkCount(c)]
          /\ outcome' = [outcome EXCEPT ![c] = "none"]
  /\ UNCHANGED <<poolVars, workerVars, destructor, consumed>>

AwaitSpace(c) ==
  /\ pc[c] = "enqueue" /\ Free /\ ~Fits(c) /\ ~stopping
  /\ pc' = [pc EXCEPT ![c] = "space"]
  /\ UNCHANGED <<poolVars, call, remaining, failed, outcome, workerVars,
                 destructor, ghostVars>>

Enqueue(c) ==
  /\ pc[c] = "enqueue" /\ Free /\ Fits(c) /\ ~stopping
  /\ tasks' = tasks \o Chunks(c)
  /\ pc' = [pc EXCEPT ![c] = "notify"]
  /\ UNCHANGED <<receipts, stopping, active, completed, dropped, receiptError,
                 call, remaining, failed, outcome, workerVars, destructor,
                 ghostVars>>

(* The pool is stopping: the whole batch is rejected.                      *)
Reject(c) ==
  /\ pc[c] = "enqueue" /\ Free /\ stopping
  /\ remaining' = [remaining EXCEPT ![c] = 0]
  /\ failed' = [failed EXCEPT ![c] = TRUE]
  /\ pc' = [pc EXCEPT ![c] = "notify"]
  /\ UNCHANGED <<poolVars, call, outcome, workerVars, destructor, ghostVars>>

NotifyReady(c) ==
  /\ pc[c] = "notify"
  /\ wpc' = [w \in Workers |-> IF wpc[w] = "asleep" THEN "idle" ELSE wpc[w]]
  /\ pc' = [pc EXCEPT ![c] = "wait"]
  /\ UNCHANGED <<poolVars, call, remaining, failed, outcome, task, index,
                 threw, lost, destructor, ghostVars>>

(* Defect: the first exception ends the call.                              *)
ReturnOnFailure(c) ==
  /\ pc[c] = "wait" /\ (remaining[c] = 0 \/ failed[c])
  /\ IF failed[c] \/ receiptError THEN End(c, "raised", "start")
                                  ELSE \E next \in Drains : End(c, "ok", next)
  /\ UNCHANGED <<poolVars, call, remaining, failed, workerVars, destructor,
                 ghostVars>>

Return(c) ==
  /\ pc[c] = "wait" /\ remaining[c] = 0
  /\ IF failed[c] \/ receiptError THEN End(c, "raised", "start")
                                  ELSE \E next \in Drains : End(c, "ok", next)
  /\ UNCHANGED <<poolVars, call, remaining, failed, workerVars, destructor,
                 ghostVars>>

-----------------------------------------------------------------------------
(* wait_until_idle and consume_task_receipts *)

(* The predicate holds: the lock is released and a receipt error rethrown. *)
FoundIdle(c) ==
  /\ pc[c] = "idle" /\ Free /\ Idle
  /\ IF receiptError THEN End(c, "raised", "start")
     ELSE pc' = [pc EXCEPT ![c] = "consume"] /\ UNCHANGED outcome
  /\ UNCHANGED <<poolVars, call, remaining, failed, workerVars, destructor,
                 ghostVars>>

FoundBusy(c) ==
  /\ pc[c] = "idle" /\ Free /\ ~Idle
  /\ pc' = [pc EXCEPT ![c] = "blocking"]
  /\ UNCHANGED <<poolVars, call, remaining, failed, outcome, workerVars,
                 destructor, ghostVars>>

Block(c) ==
  /\ pc[c] = "blocking"
  /\ pc' = [pc EXCEPT ![c] = "blocked"]
  /\ UNCHANGED <<poolVars, call, remaining, failed, outcome, workerVars,
                 destructor, ghostVars>>

Consume(c) ==
  /\ pc[c] = "consume" /\ Free /\ ~receiptError /\ Idle
  /\ consumed' = consumed + receipts
  /\ receipts' = 0
  /\ End(c, "consumed", "start")
  /\ UNCHANGED <<tasks, stopping, active, completed, dropped, receiptError,
                 call, remaining, failed, workerVars, destructor, runs, raised>>

ConsumeRefused(c) ==
  /\ pc[c] = "consume" /\ Free /\ (receiptError \/ ~Idle)
  /\ End(c, IF receiptError THEN "raised" ELSE "busy", "start")
  /\ UNCHANGED <<poolVars, call, remaining, failed, workerVars, destructor,
                 ghostVars>>

-----------------------------------------------------------------------------
(* worker_loop *)

(* Defect: a producer is only woken when the queue was full.               *)
NotifySpaceIfFull ==
  IF Len(tasks) = MaxPending /\ \E c \in Callers : pc[c] = "space"
  THEN \E c \in Callers : pc[c] = "space" /\ pc' = [pc EXCEPT ![c] = "enqueue"]
  ELSE UNCHANGED pc

(* space_.notify_one: any one waiting producer, if there is one.           *)
NotifySpace ==
  IF \E c \in Callers : pc[c] = "space"
  THEN \E c \in Callers : pc[c] = "space" /\ pc' = [pc EXCEPT ![c] = "enqueue"]
  ELSE UNCHANGED pc

Pop(w) ==
  /\ wpc[w] = "idle" /\ Free /\ tasks # <<>>
  /\ task' = [task EXCEPT ![w] = Head(tasks)]
  /\ tasks' = Tail(tasks)
  /\ NotifySpace
  /\ wpc' = [wpc EXCEPT ![w] = "popped"]
  /\ UNCHANGED <<receipts, stopping, active, completed, dropped, receiptError,
                 call, remaining, failed, outcome, index, threw, lost,
                 destructor, ghostVars>>

Sleep(w) ==
  /\ wpc[w] = "idle" /\ Free /\ tasks = <<>> /\ ~stopping
  /\ wpc' = [wpc EXCEPT ![w] = "asleep"]
  /\ UNCHANGED <<poolVars, callerVars, task, index, threw, lost, destructor,
                 ghostVars>>

(* Defect: a stopping worker leaves although tasks are queued.             *)
ExitAtOnce(w) ==
  /\ wpc[w] = "idle" /\ Free /\ stopping
  /\ wpc' = [wpc EXCEPT ![w] = "exited"]
  /\ UNCHANGED <<poolVars, callerVars, task, index, threw, lost, destructor,
                 ghostVars>>

Exit(w) ==
  /\ wpc[w] = "idle" /\ Free /\ tasks = <<>> /\ stopping
  /\ wpc' = [wpc EXCEPT ![w] = "exited"]
  /\ UNCHANGED <<poolVars, callerVars, task, index, threw, lost, destructor,
                 ghostVars>>

Activate(w) ==
  /\ wpc[w] = "popped"
  /\ active' = active + 1
  /\ index' = [index EXCEPT ![w] = First(task[w].owner, task[w].chunk)]
  /\ wpc' = [wpc EXCEPT ![w] = "run"]
  /\ UNCHANGED <<tasks, receipts, stopping, completed, dropped, receiptError,
                 callerVars, task, threw, lost, destructor, ghostVars>>

(* One index of the chunk runs, and may raise; the others still run.       *)
RunIndex(w) ==
  /\ wpc[w] = "run"
  /\ index[w] <= Last(task[w].owner, task[w].chunk)
  /\ LET c == task[w].owner
     IN /\ runs' = [runs EXCEPT ![c][index[w]] = @ + 1]
        /\ \/ /\ <<c, index[w]>> \in Nested
              /\ wpc' = [wpc EXCEPT ![w] = "nested"]
              /\ UNCHANGED <<threw, raised, index>>
           \/ /\ \/ UNCHANGED <<threw, raised>>
                 \/ /\ <<c, index[w]>> \in Raising
                    /\ threw' = [threw EXCEPT ![w] = TRUE]
                    /\ raised' = raised \cup {c}
              /\ index' = [index EXCEPT ![w] = @ + 1]
              /\ UNCHANGED wpc
  /\ UNCHANGED <<poolVars, callerVars, task, lost, destructor, consumed>>

(* parallel_for on a worker of the same pool: all of it inline.            *)
NestedInline(w) ==
  /\ wpc[w] = "nested" /\ ~receiptError
  /\ completed' = completed + 1
  /\ wpc' = [wpc EXCEPT ![w] = "inline"]
  /\ \/ UNCHANGED <<threw, raised>>
     \/ /\ <<task[w].owner, index[w]>> \in Raising
        /\ threw' = [threw EXCEPT ![w] = TRUE]
        /\ raised' = raised \cup {task[w].owner}
  /\ UNCHANGED <<tasks, receipts, stopping, active, dropped, receiptError,
                 callerVars, task, index, lost, destructor, runs, consumed>>

NestedRefused(w) ==
  /\ wpc[w] = "nested" /\ receiptError
  /\ threw' = [threw EXCEPT ![w] = TRUE]
  /\ index' = [index EXCEPT ![w] = @ + 1]
  /\ wpc' = [wpc EXCEPT ![w] = "run"]
  /\ UNCHANGED <<poolVars, callerVars, task, lost, destructor, ghostVars>>

RecordReceipt ==
  IF receipts = MaxReceipts
  THEN dropped' = dropped + 1 /\ receiptError' = TRUE /\ UNCHANGED receipts
  ELSE receipts' = receipts + 1 /\ UNCHANGED <<dropped, receiptError>>

InlineReceipt(w) ==
  /\ wpc[w] = "inline" /\ Free
  /\ RecordReceipt
  /\ threw' = [threw EXCEPT ![w] = @ \/ receipts = MaxReceipts]
  /\ index' = [index EXCEPT ![w] = @ + 1]
  /\ wpc' = [wpc EXCEPT ![w] = "run"]
  /\ UNCHANGED <<tasks, stopping, active, completed, callerVars, task, lost,
                 destructor, ghostVars>>

(* What a worker does once the chunk has run, in this order.               *)
(* Defect: the caller is told before the worker has settled.               *)
EpilogueToldEarly == <<"complete", "receipt", "down", "idle">>
Epilogue == <<"receipt", "down", "complete", "idle">>

NextOf(w) == Epilogue[1 + CHOOSE i \in 1..3 : Epilogue[i] = wpc[w]]

(* Defect: an exception stays in the worker.                               *)
FinishRunSilently(w) ==
  /\ wpc[w] = "run" /\ index[w] > Last(task[w].owner, task[w].chunk)
  /\ threw' = [threw EXCEPT ![w] = FALSE]
  /\ completed' = completed + 1
  /\ wpc' = [wpc EXCEPT ![w] = Epilogue[1]]
  /\ UNCHANGED <<tasks, receipts, stopping, active, dropped, receiptError,
                 callerVars, task, index, lost, destructor, ghostVars>>

FinishRun(w) ==
  /\ wpc[w] = "run" /\ index[w] > Last(task[w].owner, task[w].chunk)
  /\ failed' = [failed EXCEPT ![task[w].owner] = @ \/ threw[w]]
  /\ threw' = [threw EXCEPT ![w] = FALSE]
  /\ completed' = completed + 1
  /\ wpc' = [wpc EXCEPT ![w] = Epilogue[1]]
  /\ UNCHANGED <<tasks, receipts, stopping, active, dropped, receiptError,
                 pc, call, remaining, outcome, task, index, lost, destructor,
                 ghostVars>>

Receipt(w) ==
  /\ wpc[w] = "receipt" /\ Free
  /\ RecordReceipt
  /\ lost' = [lost EXCEPT ![w] = receipts = MaxReceipts]
  /\ wpc' = [wpc EXCEPT ![w] = NextOf(w)]
  /\ UNCHANGED <<tasks, stopping, active, completed, callerVars, task, index,
                 threw, destructor, ghostVars>>

(* active_tasks_ drops and idle_ is notified, without mutex_.              *)
StepDown(w) ==
  /\ wpc[w] = "down"
  /\ active' = active - 1
  /\ pc' = [c \in Callers |-> IF pc[c] = "blocked" THEN "idle" ELSE pc[c]]
  /\ wpc' = [wpc EXCEPT ![w] = NextOf(w)]
  /\ UNCHANGED <<tasks, receipts, stopping, completed, dropped, receiptError,
                 call, remaining, failed, outcome, task, index, threw, lost,
                 destructor, ghostVars>>

Complete(w) ==
  /\ wpc[w] = "complete"
  /\ failed' = [failed EXCEPT ![task[w].owner] = @ \/ lost[w]]
  /\ remaining' = [remaining EXCEPT ![task[w].owner] = @ - 1]
  /\ wpc' = [wpc EXCEPT ![w] = NextOf(w)]
  /\ UNCHANGED <<poolVars, pc, call, outcome, task, index, threw, lost,
                 destructor, ghostVars>>

-----------------------------------------------------------------------------
(* ~NativeWorkPool *)

Stop ==
  /\ MayStop /\ destructor = "live" /\ Free
  /\ stopping' = TRUE
  /\ destructor' = "stopping"
  /\ UNCHANGED <<tasks, receipts, active, completed, dropped, receiptError,
                 callerVars, workerVars, ghostVars>>

NotifyStop ==
  /\ destructor = "stopping"
  /\ wpc' = [w \in Workers |-> IF wpc[w] = "asleep" THEN "idle" ELSE wpc[w]]
  /\ pc' = [c \in Callers |-> IF pc[c] = "space" THEN "enqueue" ELSE pc[c]]
  /\ destructor' = "joining"
  /\ UNCHANGED <<poolVars, call, remaining, failed, outcome, task, index,
                 threw, lost, ghostVars>>

Join ==
  /\ destructor = "joining" /\ \A w \in Workers : wpc[w] = "exited"
  /\ destructor' = "joined"
  /\ UNCHANGED <<poolVars, callerVars, workerVars, ghostVars>>

-----------------------------------------------------------------------------
CallerStep(c) ==
  \/ Call(c) \/ AwaitSpace(c) \/ Enqueue(c) \/ Reject(c) \/ NotifyReady(c)
  \/ Return(c) \/ FoundIdle(c) \/ FoundBusy(c) \/ Block(c) \/ Consume(c)
  \/ ConsumeRefused(c)

WorkerStep(w) ==
  \/ Pop(w) \/ Sleep(w) \/ Exit(w) \/ Activate(w) \/ RunIndex(w)
  \/ NestedInline(w) \/ NestedRefused(w) \/ InlineReceipt(w) \/ FinishRun(w)
  \/ Receipt(w) \/ StepDown(w) \/ Complete(w)

(* Every caller is done and every worker sleeps or has left.               *)
AtRest ==
  /\ \A c \in Callers : pc[c] = "done"
  /\ \A w \in Workers : wpc[w] \in {"asleep", "exited"}
  /\ UNCHANGED vars

Next ==
  \/ \E c \in Callers : CallerStep(c)
  \/ \E w \in Workers : WorkerStep(w)
  \/ Stop \/ NotifyStop \/ Join \/ AtRest

Spec == Init /\ [][Next]_vars

(* Each thread is scheduled whenever it can go on, the functions it runs   *)
(* return, and a destructor that has started goes on.                      *)
FairSpec ==
  /\ Spec
  /\ \A c \in Callers : WF_vars(CallerStep(c))
  /\ \A w \in Workers : WF_vars(WorkerStep(w))
  /\ WF_vars(NotifyStop) /\ WF_vars(Join)

-----------------------------------------------------------------------------
(* Properties *)

(* Inside parallel_for.                                                    *)
InCall(c) == pc[c] \in {"enqueue", "space", "notify", "wait"}

(* Every queue, counter and thread stays in its type and within its bound. *)
TypeOK ==
  /\ tasks \in Seq(TaskSet) /\ Len(tasks) <= MaxPending
  /\ receipts \in 0..MaxReceipts /\ stopping \in BOOLEAN
  /\ active \in 0..Cardinality(Workers)
  /\ completed \in Nat /\ dropped \in Nat /\ receiptError \in BOOLEAN
  /\ pc \in [Callers -> {"start", "enqueue", "space", "notify", "wait",
                         "idle", "blocking", "blocked", "consume", "done"}]
  /\ call \in [Callers -> 0..Calls]
  /\ remaining \in [Callers -> Nat] /\ failed \in [Callers -> BOOLEAN]
  /\ outcome \in [Callers -> {"none", "ok", "raised", "refused", "busy",
                              "consumed"}]
  /\ wpc \in [Workers -> {"idle", "asleep", "popped", "run", "nested",
                          "inline", "receipt", "down", "complete", "exited"}]
  /\ task \in [Workers -> TaskSet \cup {NoTask}] /\ index \in [Workers -> Nat]
  /\ threw \in [Workers -> BOOLEAN] /\ lost \in [Workers -> BOOLEAN]
  /\ destructor \in {"live", "stopping", "joining", "joined"}
  /\ \A c \in Callers : runs[c] \in [1..Count[c] -> Nat]
  /\ raised \in SUBSET Callers /\ consumed \in Nat

(* A call whose chunks are all in has run each index exactly once, or has  *)
(* run none because the pool was stopping; no index ever runs twice.       *)
EachIndexOnce ==
  \A c \in Callers :
    /\ \A i \in 1..Count[c] : runs[c][i] <= 1
    /\ pc[c] = "wait" /\ remaining[c] = 0 =>
         \/ \A i \in 1..Count[c] : runs[c][i] = 1
         \/ stopping /\ \A i \in 1..Count[c] : runs[c][i] = 0

(* Once parallel_for has returned no worker holds or can still take a      *)
(* chunk of it: the function it runs refers to the caller's frame.         *)
NoneLeftBehind ==
  \A c \in Callers : ~InCall(c) =>
    /\ \A k \in 1..Len(tasks) : tasks[k].owner # c
    /\ \A w \in Workers : task[w].owner = c =>
         wpc[w] \in {"idle", "asleep", "exited"}

(* A call that returns normally had no index raise and no receipt lost; a  *)
(* call that raises had its own reason, whatever the other callers do.     *)
TruthfulReturn ==
  \A c \in Callers :
    /\ outcome[c] = "ok" => c \notin raised
    /\ outcome[c] = "raised" => c \in raised \/ stopping \/ dropped > 0

(* A caller that is alone finds the pool at rest when its call returns: it *)
(* never meets "receipts cannot be consumed while work is active", and it  *)
(* leaves with the receipt of every chunk and nested call that has run.    *)
LoneCallerDrains ==
  \A c \in Callers :
    (\A d \in Callers \ {c} : pc[d] = "done" /\ outcome[d] = "none") =>
      /\ outcome[c] # "busy"
      /\ outcome[c] = "consumed" => consumed + dropped = completed

(* Once the destructor has joined the workers, no accepted chunk is left   *)
(* unrun and no caller waits for one.                                      *)
StopDrains ==
  destructor = "joined" =>
    /\ tasks = <<>>
    /\ \A c \in Callers : pc[c] \in {"notify", "wait"} => remaining[c] = 0

(* Every parallel_for returns: no wakeup of a producer or of a worker is   *)
(* lost, and a nested call never waits for its own pool.                   *)
EveryCallReturns == \A c \in Callers : InCall(c) ~> ~InCall(c)
=============================================================================
