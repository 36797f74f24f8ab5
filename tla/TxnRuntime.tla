----------------------------- MODULE TxnRuntime -----------------------------
(***************************************************************************)
(* PythonTxnRuntime.run: the round loop that proposes, screens, reserves,  *)
(* evaluates, validates, decides and commits one candidate transaction per *)
(* round against a solve-local cache, a work budget and a deadline.        *)
(*                                                                         *)
(* The kernel, the oracle, the clock, the sinks and the cache backend are  *)
(* the caller's: whatever they may answer or raise is a choice of the      *)
(* action that calls them.  pc names the next call of the loop.            *)
(***************************************************************************)
EXTENDS Integers, Sequences, FiniteSets, FiniteSetsExt

CONSTANTS
  Keys,         \* stable keys of the candidates a kernel may propose
  States,       \* solution states, identified with their digests
  InitState,    \* the caller's initial state
  NoState,      \* None: the value of a key the cache does not hold
  Eval,         \* the deterministic oracle: the state each key evaluates to
  Valid,        \* the states oracle.validate accepts
  Work,         \* total work units of a set of keys
  Limit,        \* RunConfig.fixed_work; 0 stands for None, a run with a deadline
  Mode,         \* execution_mode: "serial", "barrier" or "ordered"
  Width,        \* min(workers, speculation_window) of an ordered run
  MaxRounds,    \* RunConfig.max_rounds
  MaxExternal,  \* bound on the commits of other owners of the same store
  Faults        \* the contract failures the cache backend is given to

(* What each backend fault makes of one cache.commit call.                 *)
AllFaults ==
  { "callback",   \* on_commit raises before publication
    "malformed",  \* published and closed, but a malformed receipt
    "forged",     \* a well-formed receipt, nothing published, left open
    "swallowed",  \* a well-formed receipt, nothing published, closed
    "raises",     \* an unrelated exception, nothing published
    "snapshot",   \* cache.snapshot raises while the receipt is verified
    "leaky" }     \* published, malformed receipt, left open

(* Configurations RunConfig accepts, and what the oracle's contract says   *)
(* of work_units: positive, and additive over a batch.                     *)
ASSUME ConfigAssumption ==
  /\ InitState \in States /\ NoState \notin States
  /\ InitState \in Valid /\ Valid \subseteq States
  /\ Eval \in [Keys -> States]
  /\ IsFiniteSet(Keys)
  /\ Limit \in Nat /\ Width \in Nat \ {0}
  /\ MaxRounds \in Nat \ {0} /\ MaxExternal \in Nat
  /\ Mode \in {"serial", "barrier", "ordered"}
  /\ Faults \subseteq AllFaults

ASSUME WorkAssumption ==
  /\ Work \in [SUBSET Keys -> Nat]
  /\ Work[{}] = 0
  /\ \A k \in Keys : Work[{k}] > 0
  /\ \A S, T \in SUBSET Keys :
       S \cap T = {} => Work[S \cup T] = Work[S] + Work[T]

VARIABLES
  pc, round, state, phase, admitted, hits, staged, next, \* locals of run
  expected, open, attempt,                               \* the CacheTxn
  values, generation, ext,                               \* the cache store
  started, reserved, mark, audit,                        \* BudgetLedger, T4
  expired,                                               \* the deadline
  trace, exit, sealed                                    \* the semantic trace

loopVars   == <<round, state, admitted, hits, staged, next>>
cacheTxn   == <<expected, open, attempt>>
storeVars  == <<values, generation, ext>>
budgetVars == <<started, reserved, mark>>
traceVars  == <<phase, trace>>
exitVars   == <<exit, sealed>>
vars == <<pc, loopVars, cacheTxn, storeVars, budgetVars, audit, expired,
          traceVars, exitVars>>

Terminal == {"COMMITTED", "ABORTED", "INTERRUPTED"}

(* termination_reason of a result; what an exception out of run amounts to. *)
Reasons ==
  {"none", "max_rounds", "deadline", "kernel_exhausted",
   "no_admissible_candidates", "stale_snapshot", "fixed_work_exhausted",
   "worker_failure", "validation_failure", "cache_write_failure",
   "error", "published", "cache_outcome_unknown"}

NoAttempt == [published |-> FALSE, valid |-> FALSE]
NoAudit   == [bound |-> FALSE]
NoExit    == [kind |-> "none", reason |-> "none", guarded |-> FALSE]
NoValues  == [k \in Keys |-> NoState]

-----------------------------------------------------------------------------
(* Semantic events *)

Screening(n) == [event |-> "candidate_screening", admitted_count |-> n]
RoundTerminated == [event |-> "round_terminated"]

PhaseEvent(p, keys) ==
  [event |-> "candidate_transaction", txn |-> round, phase |-> p,
   snapshot |-> state, keys |-> keys]

(* Defect: the event carries the snapshot the round started from.          *)
CommittedEventOfSnapshot ==
  [event |-> "candidate_transaction", txn |-> round, phase |-> "COMMITTED",
   snapshot |-> state, keys |-> admitted, state_digest |-> state,
   started_work |-> started, cache_generation |-> expected + 1]

CommittedEvent ==
  [event |-> "candidate_transaction", txn |-> round, phase |-> "COMMITTED",
   snapshot |-> state, keys |-> admitted, state_digest |-> next,
   started_work |-> started, cache_generation |-> expected + 1]

UnknownEvent ==
  [event |-> "candidate_transaction", txn |-> round, phase |-> "INTERRUPTED",
   snapshot |-> state, keys |-> admitted, cache_outcome |-> "unknown"]

Transition(p) ==
  /\ phase' = p
  /\ trace' = Append(trace, PhaseEvent(p, admitted))

-----------------------------------------------------------------------------
(* Budget, cache lookup and the T4 audit *)

Limited == Limit > 0
Remaining == Limit - started - reserved

(* Defect: a failure path that forgets to release.                         *)
KeepReserved == UNCHANGED reserved
ReleaseReserved == reserved' = 0

Missing == {k \in admitted : hits[k] = NoState}
Resolved == [k \in admitted |-> IF hits[k] = NoState THEN Eval[k] ELSE hits[k]]
AllowedNext == {state} \cup {Resolved[k] : k \in admitted}

Minimum(a, b) == IF a < b THEN a ELSE b
MaxRequest == Max({Work[{k}] : k \in Missing})

(* T4: what one uncommitted round may discard, and leave running.          *)
BoundedWaste(remaining, capacity) ==
  LET window == Cardinality(Missing) * MaxRequest IN
  [discarded |-> Minimum(remaining, window), post |-> Minimum(capacity, window)]

(* _record_waste_audit: the observed waste beside the bound of the round.  *)
Audit(discarded, postBoundary, capacity) ==
  audit' = IF ~Limited \/ Missing = {} THEN audit
           ELSE [bound |-> TRUE, discarded |-> discarded, post |-> postBoundary,
                 limit |-> BoundedWaste(mark.remaining, capacity)]

(* Defect: the capacity of the other workers, counted in keys.             *)
CapacityInKeys ==
  CASE Mode = "serial" -> 0
    [] Mode = "barrier" -> Cardinality(Missing)
    [] Mode = "ordered" -> Minimum(Width, Cardinality(Missing)) - 1

(* Submission capacity charged to work that outlives an evaluation abort.  *)
Capacity ==
  CASE Mode = "serial"  -> 0
    [] Mode = "barrier" -> Work[Missing]
    [] Mode = "ordered" -> Minimum(Width, Cardinality(Missing)) * MaxRequest

-----------------------------------------------------------------------------
(* Leaving the loop: seal the trace, then return a result or raise.        *)
(* guarded says that sealing runs inside the loop's outer try statement.   *)

Leave(kind, reason, guarded) ==
  /\ pc' = "seal"
  /\ exit' = [kind |-> kind, reason |-> reason, guarded |-> guarded]
  /\ UNCHANGED sealed

(* Defect: a rollback that raised leaves the transaction as it was.        *)
LeaveTxnOpen == UNCHANGED cacheTxn

(* The runtime closes its cache transaction whether or not rollback raised. *)
CloseTxn ==
  /\ open' = FALSE
  /\ UNCHANGED <<expected, attempt>>

(* The transaction ends without publishing, as a result of the run ...     *)
EndRound(p, reason, guarded) ==
  /\ Transition(p)
  /\ Leave("result", reason, guarded)

(* ... or as an exception.                                                 *)
AbortRound(guarded) ==
  /\ Transition("ABORTED")
  /\ Leave("raise", "error", guarded)

(* The outer handler: rollback, release, audit, abort, seal and re-raise.  *)
OuterHandler(startedNow) ==
  /\ CloseTxn
  /\ ReleaseReserved
  /\ Audit(startedNow - mark.started, 0, 0)
  /\ AbortRound(FALSE)

(* A failure the loop expects: roll back and return the committed prefix;  *)
(* the outer handler takes over when rollback itself raises.               *)
FailRound(p, reason) ==
  /\ \/ /\ CloseTxn
        /\ Audit(started - mark.started, 0, 0)
        /\ EndRound(p, reason, TRUE)
        /\ UNCHANGED reserved
     \/ OuterHandler(started)
  /\ UNCHANGED <<loopVars, storeVars, started, mark, expired>>

-----------------------------------------------------------------------------
Init ==
  /\ pc = "loop" /\ round = 0 /\ state = InitState /\ next = InitState
  /\ admitted = {} /\ hits = NoValues /\ staged = NoValues
  /\ expected = 0 /\ open = FALSE /\ attempt = NoAttempt
  /\ values = NoValues /\ generation = 0 /\ ext = 0
  /\ started = 0 /\ reserved = 0
  /\ mark = [remaining |-> 0, started |-> 0] /\ audit = NoAudit
  /\ expired = FALSE
  /\ phase = "NONE" /\ trace = <<>> /\ exit = NoExit /\ sealed = 0

(* The configured deadline passes.                                         *)
Expire ==
  /\ ~Limited /\ ~expired /\ pc # "done"
  /\ expired' = TRUE
  /\ UNCHANGED <<pc, loopVars, cacheTxn, storeVars, budgetVars, audit,
                 traceVars, exitVars>>

(* Another owner of the store commits between two steps of this run.       *)
ExternalCommit(k, s) ==
  /\ ext < MaxExternal /\ pc # "done"
  /\ values' = [values EXCEPT ![k] = s]
  /\ generation' = generation + 1
  /\ ext' = ext + 1
  /\ UNCHANGED <<pc, loopVars, cacheTxn, budgetVars, audit, expired,
                 traceVars, exitVars>>

-----------------------------------------------------------------------------
(* The head of the loop: deadline, proposal, screening and admission *)

LoopUnchanged == UNCHANGED <<loopVars, cacheTxn, storeVars, budgetVars, audit,
                             expired>>

StopMaxRounds ==
  /\ pc = "loop" /\ round = MaxRounds
  /\ Leave("result", "max_rounds", FALSE)
  /\ LoopUnchanged /\ UNCHANGED traceVars

StopDeadline ==
  /\ pc = "loop" /\ round < MaxRounds /\ expired
  /\ Leave("result", "deadline", FALSE)
  /\ LoopUnchanged /\ UNCHANGED traceVars

ProposeNothing ==
  /\ pc = "loop" /\ round < MaxRounds /\ ~expired
  /\ Leave("result", "kernel_exhausted", FALSE)
  /\ LoopUnchanged /\ UNCHANGED traceVars

(* propose, admission_limit, stable_key or screen raises: no handler is    *)
(* open yet, so the exception leaves run without sealing a trace.          *)
ProposeRaises ==
  /\ pc = "loop" /\ round < MaxRounds /\ ~expired
  /\ pc' = "done"
  /\ exit' = [kind |-> "raise", reason |-> "error", guarded |-> FALSE]
  /\ LoopUnchanged /\ UNCHANGED <<traceVars, sealed>>

NothingAdmissible ==
  /\ pc = "loop" /\ round < MaxRounds /\ ~expired
  /\ trace' = trace \o <<Screening(0), RoundTerminated>>
  /\ Leave("result", "no_admissible_candidates", FALSE)
  /\ LoopUnchanged /\ UNCHANGED phase

Admit(keys) ==
  /\ pc = "loop" /\ round < MaxRounds /\ ~expired
  /\ keys # {}
  /\ admitted' = keys
  /\ phase' = "PREPARED"
  /\ trace' = trace \o <<Screening(Cardinality(keys)),
                        PhaseEvent("PREPARED", keys)>>
  /\ pc' = "begin"
  /\ UNCHANGED <<round, state, hits, staged, next, cacheTxn, storeVars,
                 budgetVars, audit, expired, exitVars>>

-----------------------------------------------------------------------------
(* Opening the cache transaction and reserving work *)

BeginRaises ==
  /\ pc = "begin"
  /\ AbortRound(FALSE)
  /\ UNCHANGED <<loopVars, cacheTxn, storeVars, budgetVars, audit, expired>>

Begin ==
  /\ pc = "begin"
  /\ expected' = generation
  /\ open' = TRUE
  /\ attempt' = NoAttempt
  /\ pc' = "lookup"
  /\ UNCHANGED <<loopVars, storeVars, budgetVars, audit, expired, traceVars,
                 exitVars>>

LookupRaises ==
  /\ pc = "lookup"
  /\ CloseTxn
  /\ AbortRound(FALSE)
  /\ UNCHANGED <<loopVars, storeVars, budgetVars, audit, expired>>

(* The generation moved between begin and lookup.                          *)
LookupStale ==
  /\ pc = "lookup" /\ generation # expected
  /\ CloseTxn
  /\ \/ EndRound("INTERRUPTED", "stale_snapshot", FALSE)
     \/ AbortRound(FALSE)  \* rollback raised
  /\ UNCHANGED <<loopVars, storeVars, budgetVars, audit, expired>>

Lookup ==
  /\ pc = "lookup" /\ generation = expected
  /\ hits' = [k \in Keys |-> IF k \in admitted THEN values[k] ELSE NoState]
  /\ pc' = "reserve"
  /\ UNCHANGED <<round, state, admitted, staged, next, cacheTxn, storeVars,
                 budgetVars, audit, expired, traceVars, exitVars>>

WorkUnitsRaise ==
  /\ pc = "reserve" /\ Missing # {}
  /\ CloseTxn
  /\ ReleaseReserved
  /\ AbortRound(FALSE)
  /\ UNCHANGED <<loopVars, storeVars, started, mark, audit, expired>>

(* Defect: wait for budget by looking the keys up again.                   *)
ReserveRefusedRetries ==
  /\ pc = "reserve" /\ Limited /\ Work[Missing] > Remaining
  /\ pc' = "lookup"
  /\ UNCHANGED <<loopVars, cacheTxn, storeVars, budgetVars, audit, expired,
                 traceVars, exitVars>>

ReserveRefused ==
  /\ pc = "reserve" /\ Limited /\ Work[Missing] > Remaining
  /\ CloseTxn
  /\ \/ EndRound("INTERRUPTED", "fixed_work_exhausted", FALSE)
     \/ AbortRound(FALSE)  \* rollback raised
  /\ UNCHANGED <<loopVars, storeVars, budgetVars, audit, expired>>

Reserve ==
  /\ pc = "reserve" /\ (Limited => Work[Missing] <= Remaining)
  /\ reserved' = reserved + Work[Missing]
  /\ mark' = [remaining |-> Remaining, started |-> started]
  /\ Transition("RESERVED")
  /\ pc' = "start"
  /\ UNCHANGED <<loopVars, cacheTxn, storeVars, started, audit, expired,
                 exitVars>>

-----------------------------------------------------------------------------
(* Evaluating the misses.  Evaluation.tla refines these steps for the      *)
(* thread-pool modes.                                                      *)

(* Defect: a round answered by the cache alone skips the phase.            *)
StartEvaluationOfMisses ==
  /\ pc = "start"
  /\ IF Missing = {} THEN pc' = "check" /\ UNCHANGED traceVars
     ELSE pc' = "evaluate" /\ Transition("EVALUATING")
  /\ UNCHANGED <<loopVars, cacheTxn, storeVars, budgetVars, audit, expired,
                 exitVars>>

StartEvaluation ==
  /\ pc = "start"
  /\ Transition("EVALUATING")
  /\ pc' = IF Missing = {} THEN "check" ELSE "evaluate"
  /\ UNCHANGED <<loopVars, cacheTxn, storeVars, budgetVars, audit, expired,
                 exitVars>>

(* Defect: the reservation is consumed on submission and on completion.    *)
StartWorkTwice(keys) ==
  /\ started' = started + Work[keys]
  /\ reserved' = reserved - 2 * Work[keys]
  /\ UNCHANGED mark

(* BudgetLedger.start for the keys submitted so far.                       *)
StartWork(keys) ==
  /\ started' = started + Work[keys]
  /\ reserved' = reserved - Work[keys]
  /\ UNCHANGED mark

Evaluate ==
  /\ pc = "evaluate"
  /\ StartWork(Missing)
  /\ pc' = "check"
  /\ UNCHANGED <<loopVars, cacheTxn, storeVars, audit, expired, traceVars,
                 exitVars>>

(* Evaluation returned, but its shape or the physical observations are     *)
(* refused: the outer handler ends the round.                              *)
EvaluateMalformed ==
  /\ pc = "evaluate"
  /\ started' = started + Work[Missing]
  /\ OuterHandler(started + Work[Missing])
  /\ UNCHANGED <<loopVars, storeVars, mark, expired>>

(* An evaluation raised: submitted is what had been started by then, and   *)
(* unfinished what was not done when the error surfaced.                   *)
EvaluateAborts(submitted, unfinished, cause) ==
  /\ pc = "evaluate"
  /\ submitted # {} /\ (Mode # "ordered" => submitted = Missing)
  /\ unfinished # submitted /\ (Mode = "serial" => unfinished = {})
  /\ Mode = "ordered" => Cardinality(unfinished) < Width
  /\ started' = started + Work[submitted]
  /\ ReleaseReserved
  /\ CloseTxn
  /\ Audit(Work[submitted], Work[unfinished], Capacity)
  /\ \/ cause = "worker" /\ EndRound("ABORTED", "worker_failure", TRUE)
     \/ cause = "timeout" /\ ~Limited
        /\ EndRound("INTERRUPTED", "deadline", TRUE)
     \/ AbortRound(TRUE)  \* any other cause, or rollback raised
  /\ UNCHANGED <<loopVars, storeVars, mark, expired>>

-----------------------------------------------------------------------------
(* Resolving, validating and deciding *)

DeadlineAfterEvaluation ==
  /\ pc = "check" /\ expired
  /\ FailRound("INTERRUPTED", "deadline")

(* oracle.validate rejects a resolved state with a ValueError.             *)
ValidationFails ==
  /\ pc = "check" /\ ~expired
  /\ \E k \in admitted : Resolved[k] \notin Valid
  /\ FailRound("ABORTED", "validation_failure")

(* oracle.validate or state_digest raises anything else.                   *)
ValidateRaises ==
  /\ pc = "check" /\ ~expired
  /\ OuterHandler(started)
  /\ UNCHANGED <<loopVars, storeVars, started, mark, expired>>

Validate ==
  /\ pc = "check" /\ ~expired
  /\ \A k \in admitted : Resolved[k] \in Valid
  /\ Transition("VALIDATED")
  /\ pc' = "decide"
  /\ UNCHANGED <<loopVars, cacheTxn, storeVars, budgetVars, audit, expired,
                 exitVars>>

(* kernel.decide raises, or returns a state oracle.validate refuses or one *)
(* that is neither the snapshot nor an evaluated state.                    *)
DecideRaises ==
  /\ pc = "decide"
  /\ OuterHandler(started)
  /\ UNCHANGED <<loopVars, storeVars, started, mark, expired>>

(* Defect: the decision is committed unchecked.                            *)
DecideUnchecked(s) ==
  /\ pc = "decide"
  /\ next' = s
  /\ staged' = [k \in Keys |-> IF k \in Missing THEN Eval[k] ELSE NoState]
  /\ pc' = "commit"
  /\ UNCHANGED <<round, state, admitted, hits, cacheTxn, storeVars,
                 budgetVars, audit, expired, traceVars, exitVars>>

Decide(s) ==
  /\ pc = "decide"
  /\ s \in Valid \cap AllowedNext
  /\ next' = s
  /\ staged' = [k \in Keys |-> IF k \in Missing THEN Eval[k] ELSE NoState]
  /\ pc' = "commit"
  /\ UNCHANGED <<round, state, admitted, hits, cacheTxn, storeVars,
                 budgetVars, audit, expired, traceVars, exitVars>>

-----------------------------------------------------------------------------
(* cache.commit, and what the runtime makes of its answer *)

Overlay == [k \in Keys |-> IF staged[k] # NoState THEN staged[k] ELSE values[k]]

CommitStale ==
  /\ pc = "commit" /\ generation # expected
  /\ FailRound("INTERRUPTED", "stale_snapshot")

CommitCallbackFails ==
  /\ pc = "commit" /\ "callback" \in Faults /\ generation = expected
  /\ FailRound("ABORTED", "cache_write_failure")

CommitRaises ==
  /\ pc = "commit" /\ "raises" \in Faults
  /\ OuterHandler(started)
  /\ UNCHANGED <<loopVars, storeVars, started, mark, expired>>

(* The store publishes the staged entries and one generation; fault says   *)
(* what is wrong with the answer the runtime then gets.                    *)
CommitPublishes(fault) ==
  /\ pc = "commit" /\ generation = expected
  /\ values' = Overlay
  /\ generation' = generation + 1
  /\ open' = (fault = "leaky")
  /\ attempt' = [published |-> TRUE, valid |-> fault = "none"]
  /\ pc' = "verify"
  /\ UNCHANGED <<loopVars, expected, ext, budgetVars, audit, expired,
                 traceVars, exitVars>>

(* A backend acknowledges a commit it did not make.                        *)
CommitForged(fault) ==
  /\ pc = "commit"
  /\ open' = (fault = "forged")
  /\ attempt' = [published |-> FALSE, valid |-> TRUE]
  /\ pc' = "verify"
  /\ UNCHANGED <<loopVars, expected, storeVars, budgetVars, audit, expired,
                 traceVars, exitVars>>

(* _validated_cache_commit_receipt compares the store with what the round  *)
(* staged; nothing stops another owner from committing before it looks.    *)
SnapshotMatches ==
  /\ generation = expected + 1
  /\ \A k \in Keys : staged[k] # NoState => values[k] = staged[k]

SnapshotRefutes == "snapshot" \in Faults \/ ~SnapshotMatches

PublishState ==
  /\ state' = next
  /\ phase' = "COMMITTED"
  /\ trace' = Append(trace, CommittedEvent)

VerifyCommit ==
  /\ pc = "verify" /\ attempt.valid /\ ~open /\ SnapshotMatches
  /\ PublishState
  /\ round' = round + 1
  /\ attempt' = NoAttempt
  /\ pc' = "loop"
  /\ UNCHANGED <<admitted, hits, staged, next, expected, open, storeVars,
                 budgetVars, audit, expired, exitVars>>

(* Published, but the receipt broke the contract: commit the round, seal   *)
(* the trace with a reconstructed receipt and fail fast.                   *)
VerifyPublished ==
  /\ pc = "verify" /\ ~(attempt.valid /\ ~open) /\ SnapshotMatches
  /\ PublishState
  /\ CloseTxn
  /\ Leave("raise", "published", TRUE)
  /\ UNCHANGED <<round, admitted, hits, staged, next, storeVars, budgetVars,
                 audit, expired>>

(* The backend closed the transaction, but its publication cannot be seen. *)
VerifyUnknown ==
  /\ pc = "verify" /\ ~open /\ SnapshotRefutes
  /\ ReleaseReserved
  /\ Audit(started - mark.started, 0, 0)
  /\ phase' = "INTERRUPTED"
  /\ trace' = Append(trace, UnknownEvent)
  /\ Leave("raise", "cache_outcome_unknown", TRUE)
  /\ UNCHANGED <<loopVars, cacheTxn, storeVars, started, mark, expired>>

(* Defect: a commit that cannot be verified is taken for a failed one.     *)
VerifyFailsClosed ==
  /\ pc = "verify" /\ SnapshotRefutes
  /\ OuterHandler(started)
  /\ UNCHANGED <<loopVars, storeVars, started, mark, expired>>

(* The transaction is still open and the snapshot does not show its writes. *)
VerifyFails ==
  /\ pc = "verify" /\ open /\ SnapshotRefutes
  /\ OuterHandler(started)
  /\ UNCHANGED <<loopVars, storeVars, started, mark, expired>>

-----------------------------------------------------------------------------
(* Sealing: the semantic sink is called once with the whole trace, then    *)
(* the physical sink; either may raise.                                    *)

SealUnchanged == UNCHANGED <<loopVars, storeVars, expired>>

Seal ==
  /\ pc = "seal"
  /\ pc' = "done"
  /\ sealed' = sealed + 1
  /\ SealUnchanged /\ UNCHANGED <<cacheTxn, budgetVars, audit, traceVars, exit>>

(* Defect: the outer handler does not look whether the round is over.      *)
HandlerAlwaysAborts == exit.guarded

(* The outer handler takes over unless transaction.terminal.               *)
HandlerAborts == exit.guarded /\ phase \notin Terminal

(* An exception out of a sink; delivered says whether the semantic sink    *)
(* had already taken the trace.  The outer handler, when one is open, lets *)
(* it pass because the transaction is terminal by then.                    *)
SinkRaises(delivered) ==
  /\ pc = "seal"
  /\ sealed' = sealed + delivered
  /\ SealUnchanged
  /\ IF HandlerAborts
     THEN /\ CloseTxn /\ ReleaseReserved /\ UNCHANGED <<started, mark>>
          /\ Audit(started - mark.started, 0, 0)
          /\ Transition("ABORTED")
          /\ exit' = [exit EXCEPT !.kind = "raise", !.guarded = FALSE]
          /\ UNCHANGED pc
     ELSE /\ pc' = "done"
          /\ exit' = [exit EXCEPT !.kind = "raise"]
          /\ UNCHANGED <<cacheTxn, budgetVars, audit, traceVars>>

Finished == pc = "done" /\ UNCHANGED vars

-----------------------------------------------------------------------------
Round ==
  \/ StopMaxRounds \/ StopDeadline \/ ProposeNothing \/ ProposeRaises
  \/ NothingAdmissible
  \/ \E keys \in SUBSET Keys : Admit(keys)

Prepare ==
  \/ BeginRaises \/ Begin \/ LookupRaises \/ Lookup
  \/ WorkUnitsRaise \/ Reserve
  \/ LookupStale \/ ReserveRefused

EvaluateStep ==
  \/ StartEvaluation \/ Evaluate \/ EvaluateMalformed
  \/ \E submitted \in SUBSET Missing :
       \E unfinished \in SUBSET submitted, cause \in {"timeout", "worker", "error"} :
         EvaluateAborts(submitted, unfinished, cause)

ResolveStep ==
  \/ ValidateRaises \/ Validate \/ DecideRaises
  \/ DeadlineAfterEvaluation \/ ValidationFails
  \/ \E s \in States : Decide(s)

CommitStep ==
  \/ CommitStale \/ CommitCallbackFails \/ CommitRaises
  \/ \E fault \in {"none"} \cup (Faults \cap {"malformed", "leaky"}) :
       CommitPublishes(fault)
  \/ \E fault \in Faults \cap {"forged", "swallowed"} : CommitForged(fault)

VerifyStep ==
  VerifyCommit \/ VerifyPublished \/ VerifyUnknown \/ VerifyFails

SealStep == Seal \/ \E delivered \in {0, 1} : SinkRaises(delivered)

Run == Round \/ Prepare \/ EvaluateStep \/ ResolveStep \/ CommitStep
       \/ VerifyStep \/ SealStep

Environment == Expire \/ \E k \in Keys, s \in States : ExternalCommit(k, s)

Next == Run \/ Environment \/ Finished

Spec == Init /\ [][Next]_vars

(* The loop is one thread whose every call returns or raises.              *)
FairSpec == Spec /\ WF_vars(Run)

-----------------------------------------------------------------------------
(* Properties *)

(* Every variable stays in its type; in particular no ledger counter and   *)
(* no cache generation is ever negative.                                   *)
TypeOK ==
  /\ pc \in {"loop", "begin", "lookup", "reserve", "start", "evaluate",
             "check", "decide", "commit", "verify", "seal", "done"}
  /\ round \in Nat /\ state \in States /\ next \in States
  /\ admitted \in SUBSET Keys
  /\ hits \in [Keys -> States \cup {NoState}]
  /\ staged \in [Keys -> States \cup {NoState}]
  /\ values \in [Keys -> States \cup {NoState}]
  /\ expected \in Nat /\ open \in BOOLEAN
  /\ attempt \in [published : BOOLEAN, valid : BOOLEAN]
  /\ generation \in Nat /\ ext \in Nat
  /\ started \in Nat /\ reserved \in Nat
  /\ mark \in [remaining : Int, started : Nat]
  /\ expired \in BOOLEAN
  /\ phase \in {"NONE", "PREPARED", "RESERVED", "EVALUATING", "VALIDATED"}
                \cup Terminal
  /\ exit \in [kind : {"none", "result", "raise"}, reason : Reasons,
               guarded : BOOLEAN]
  /\ sealed \in Nat

(* Work-at-start accounting survives every exit path: the fixed-work limit *)
(* is never overrun, and a reservation never outlives its evaluation, so   *)
(* no later round finds its budget eaten by an earlier failure.            *)
BudgetConserved ==
  /\ Limited => started + reserved <= Limit
  /\ pc \notin {"start", "evaluate"} => reserved = 0

(* audit_waste never has cause to raise WasteBoundViolation: the work a    *)
(* failed round discards, and the work still running when it fails, stay   *)
(* within the T4 bounds recorded with them.                                *)
WasteWithinBound ==
  audit.bound => /\ audit.discarded <= audit.limit.discarded
                 /\ audit.post <= audit.limit.post

CommittedRounds == round + (IF exit.reason = "published" THEN 1 ELSE 0)

(* One generation of the store per committed round and none for any other: *)
(* a round that ends ABORTED or INTERRUPTED, by whatever path, leaves no   *)
(* publication behind, unless the run says it does not know.               *)
NoPhantomPublication ==
  generation = ext + CommittedRounds
                 + (IF attempt.published
                       /\ (pc = "verify" \/ exit.reason = "cache_outcome_unknown")
                    THEN 1 ELSE 0)

(* "A backend contract failure that leaves cache publication unknowable is *)
(* retained as an INTERRUPTED failure event with cache_outcome unknown": a *)
(* round that ends ABORTED never had its entries published.                *)
UnknowableIsInterrupted ==
  phase = "ABORTED" => ~attempt.published

(* The committed state, and everything a solve-local cache holds, has      *)
(* passed oracle.validate, cached results of earlier rounds included.      *)
ValidatedOnly ==
  /\ state \in Valid
  /\ MaxExternal = 0 => \A k \in Keys : values[k] \in Valid \cup {NoState}

(* No cache transaction is left open behind a finished round, however it   *)
(* finished and whatever the backend's rollback does.                      *)
NoOpenTransactionLeaks ==
  pc \in {"loop", "begin", "seal", "done"} => ~open

(* A run's semantic trace is sealed at most once even when a sink raises   *)
(* inside the loop's try statement, and always when a result is returned.  *)
SealedOnce ==
  /\ sealed <= 1
  /\ pc = "done" /\ exit.kind = "result" => sealed = 1

AllowedTransitions ==
  [NONE       |-> {"PREPARED"},
   PREPARED   |-> {"RESERVED", "ABORTED", "INTERRUPTED"},
   RESERVED   |-> {"EVALUATING", "ABORTED", "INTERRUPTED"},
   EVALUATING |-> {"VALIDATED", "ABORTED", "INTERRUPTED"},
   VALIDATED  |-> {"COMMITTED", "ABORTED", "INTERRUPTED"},
   COMMITTED  |-> {"PREPARED"}, ABORTED |-> {}, INTERRUPTED |-> {}]

(* CandidateTxn.transition is never asked for a step its table refuses,    *)
(* and only a committed round is followed by another one.                  *)
PhaseOrder == [][phase' # phase => phase' \in AllowedTransitions[phase]]_vars

(* Every run ends, with a result or an exception.                          *)
Terminates == <>(pc = "done")

-----------------------------------------------------------------------------
(* The run implements the promise of CommitPrefix: a publication the       *)
(* runtime has not yet verified is still private to the round.             *)
Prefix == INSTANCE CommitPrefix WITH
  rounds       <- CommittedRounds,
  publications <- generation - ext
                    - (IF pc = "verify" /\ attempt.published THEN 1 ELSE 0),
  outcome      <- IF exit.reason = "cache_outcome_unknown" THEN "unknown"
                  ELSE IF pc \in {"seal", "done"} THEN "stopped" ELSE "running"

ImplementsPrefix == Prefix!Spec

=============================================================================
